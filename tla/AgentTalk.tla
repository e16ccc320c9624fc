------------------------------ MODULE AgentTalk ------------------------------
(***************************************************************************)
(* How the agents of one workspace talk to each other                      *)
(* (src/scripts/vibe-agent: legacy-cli/vibe-agent.ts, core/).  An agent is *)
(* a session of the service; every message to it is a turn of its.  The    *)
(* commands are programs that agents run, one process each, and some leave *)
(* a runner behind that waits for something and then sends a message.      *)
(*                                                                         *)
(* Processes share two files without a lock: the one of roles, and the one *)
(* of what each reader has been shown in summaries.  Each is replaced as a *)
(* whole, so that what another process wrote between the reading and the   *)
(* writing is gone.  The service is external: it may refuse a request, or  *)
(* carry it out although its answer is lost.                               *)
(*                                                                         *)
(* A session is a number, its place in the order of creation, and a turn   *)
(* too.  The text of a message is its kind and the process it is from.     *)
(***************************************************************************)
EXTENDS Integers, Sequences, FiniteSets, FiniteSetsExt, Functions

CONSTANTS
    Roles,          \* roles of agents
    MaxCalls,       \* bound on the commands that are called
    MaxSessions,    \* no more sessions than the calls can ask for
    MaxTurns,       \* and no more turns
    MaxFaults,      \* bound on what the service refuses or loses
    Starts,         \* the executors of the sessions there are to begin with,
                    \* the status of the turn of each, and the commands
                    \* that are going to be called
    LimitTurns,     \* --limit-turns
    NoRole

Executors == {"CODEX", "CLAUDE_CODE"}
Sids      == 1..MaxSessions
Turns     == 1..MaxTurns
Procs     == 1..MaxCalls
Readers   == 0..MaxSessions     \* 0 is "unknown-session"

(* A call: the command, the agent that makes it, whether VK_SESSION_ID     *)
(* tells it which session that is, the role that it names, --respond,      *)
(* --timeout and --include-running.                                        *)
CallType ==
    [cmd : {"send", "review", "callback", "register", "exclude", "summary"},
     by : Sids, knows : BOOLEAN, role : Roles, respond : BOOLEAN, timeout : BOOLEAN,
     running : BOOLEAN]

ASSUME TalkAssumption ==
    /\ NoRole \notin Roles
    /\ MaxCalls \in Nat /\ MaxFaults \in Nat /\ LimitTurns \in Nat
    /\ MaxSessions \in Nat /\ MaxTurns \in Nat
    /\ \A st \in Starts :
          /\ st.executors \in Seq(Executors)
          /\ st.status \in [DOMAIN st.executors -> {"running", "ended"}]
          /\ st.calls \in [Procs -> CallType]
          /\ \A p \in Procs : st.calls[p].by \in DOMAIN st.executors
          /\ Len(st.executors) + MaxCalls <= MaxSessions
          /\ Len(st.executors) + 3 * MaxCalls <= MaxTurns

VARIABLES
    sessions,   \* the service's: executor and name
    turns,      \* the service's: session, message, status, what was said
    file,       \* .vibe-sessions-<workspace>.json
    pager,      \* .vibe-full-summary-pager-<workspace>.json
    proc,       \* the processes
    shown,      \* what summaries have put together for each reader
    faults

vars == <<sessions, turns, file, pager, proc, shown, faults>>

(* A process: what was called, where it is, the session and the turn it is *)
(* about, the session that it is to tell, the image of the file that it    *)
(* has read, the command of a callback, and the summary put together.      *)
ToCall(c) ==
    [call |-> c, pc |-> "none", target |-> 0, turn |-> 0, to |-> 0,
     roles |-> [s \in Sids |-> NoRole],
     image |-> [seen |-> [r \in Readers |-> {}], excluded |-> {}],
     child |-> "none", timedOut |-> FALSE, unsure |-> FALSE,
     todo |-> {}, got |-> {}]

Init ==
    /\ \E st \in Starts :
          /\ sessions = [s \in DOMAIN st.executors |->
                            [executor |-> st.executors[s], name |-> NoRole]]
          /\ turns = [s \in DOMAIN st.executors |->
                         [session |-> s, kind |-> "user", of |-> 0,
                          status |-> st.status[s], said |-> FALSE]]
          /\ proc = [p \in Procs |-> ToCall(st.calls[p])]
    /\ file = [s \in Sids |-> NoRole]
    /\ pager = [seen |-> [r \in Readers |-> {}], excluded |-> {}]
    /\ shown = [r \in Readers |-> {}]
    /\ faults = 0

-----------------------------------------------------------------------------
(* What the service answers.                                               *)

roleToExecutor(r) == "CODEX"

TurnsOf(s) == {t \in DOMAIN turns : turns[t].session = s}

(* Faulty hasActiveSessionTurn: a turn that was dropped counts as active.  *)
FaultyActive(list) == \E t \in list : turns[t].status # "ended"

(* A list of turns comes over a socket that is read for two seconds:       *)
(* normally all of it.                                                     *)
hasActiveSessionTurn(list) == \E t \in list : turns[t].status = "running"

isTerminalProcess(t) == turns[t].status = "ended"

(* Without VK_SESSION_ID, the most recent session of the executor that the *)
(* caller runs on; a request that may fail.                                *)
discoverSessionId(c) ==
    IF c.knows THEN c.by
    ELSE Max({s \in DOMAIN sessions :
                sessions[s].executor = sessions[c.by].executor})

getReaderId(c) == IF c.knows THEN c.by ELSE 0

(* The agent says something in its turn (which matters where somebody      *)
(* waits for it), and ends it: the turns of a session are taken one after  *)
(* the other.  The service may drop a turn.                                *)
Say(t) ==
    /\ turns[t].status = "running" /\ turns[t].kind = "ask"
    /\ proc[turns[t].of].call.respond /\ ~turns[t].said
    /\ turns' = [turns EXCEPT ![t].said = TRUE]
    /\ UNCHANGED <<sessions, file, pager, proc, shown, faults>>

EndTurn(t) ==
    /\ turns[t].status = "running"
    /\ \A u \in TurnsOf(turns[t].session) : u < t => turns[u].status # "running"
    /\ turns' = [turns EXCEPT ![t].status = "ended"]
    /\ UNCHANGED <<sessions, file, pager, proc, shown, faults>>

Drop(t) ==
    /\ turns[t].status = "running" /\ turns[t].kind = "user"
    /\ faults < MaxFaults /\ faults' = faults + 1
    /\ turns' = [turns EXCEPT ![t].status = "dropped"]
    /\ UNCHANGED <<sessions, file, pager, proc, shown>>

-----------------------------------------------------------------------------
(* The processes.                                                          *)

At(p, pc)   == proc[p].pc = pc
Go(p, pc)   == proc' = [proc EXCEPT ![p].pc = pc]
Fault       == faults < MaxFaults /\ faults' = faults + 1
NoFault     == UNCHANGED faults
server      == <<sessions, turns>>
files       == <<file, pager, shown>>

(* A call that fails ends its process: "exit" for a command that tells its *)
(* caller, "logged" for a runner that writes to its file, and "silent" for *)
(* the runner of a review, whose send exits before anything is logged.     *)
Over == {"end", "exit", "logged", "silent", "killed"}
GiveUp(p) == IF proc[p].call.cmd = "review" THEN "silent" ELSE "exit"

(* A message to session s: it is a turn of it.  The service may refuse, or *)
(* take it although the process learns of an error: then it is not sure.   *)
Post(p, s, kind, ok, failed) ==
    LET turn == [session |-> s, kind |-> kind, of |-> p,
                 status |-> "running", said |-> FALSE]
    IN  \/ /\ turns' = Append(turns, turn)
           /\ proc' = [proc EXCEPT ![p].pc = ok,
                          ![p].turn = IF kind = "ask" THEN Len(turns')
                                      ELSE @]
           /\ NoFault
        \/ Fault /\ UNCHANGED turns /\ Go(p, failed)
        \/ /\ Fault
           /\ turns' = Append(turns, turn)
           /\ proc' = [proc EXCEPT ![p].pc = failed, ![p].unsure = TRUE]

(* registerSession: one role per session, and one session per role.        *)
Registered(img, s, r) ==
    [x \in Sids |-> IF x = s THEN r
                    ELSE IF img[x] = r THEN NoRole ELSE img[x]]

RegisterRead(p) ==
    /\ At(p, "register")
    /\ proc' = [proc EXCEPT ![p].pc = "write", ![p].roles = file]
    /\ UNCHANGED <<server, files, faults>>

RegisterWrite(p) ==
    /\ At(p, "write")
    /\ file' = Registered(proc[p].roles, proc[p].target, proc[p].call.role)
    /\ Go(p, IF proc[p].call.cmd = "register" THEN "end" ELSE "name")
    /\ UNCHANGED <<server, pager, shown, faults>>

(* register-self takes the most recent session for its own.                *)
RegisterSelf(p) ==
    /\ At(p, "recent")
    /\ \/ /\ NoFault
          /\ proc' = [proc EXCEPT ![p].pc = "register",
                                  ![p].target = Len(sessions)]
       \/ Fault /\ Go(p, "exit")
    /\ UNCHANGED <<server, files>>

-----------------------------------------------------------------------------
(* send, which submit, review and help call, and the runner of a review.   *)

(* getSessionForRole: any error means that there is none.                  *)
FindRole(p) ==
    /\ At(p, "send")
    /\ \E s \in {x \in Sids : file[x] = proc[p].call.role} \cup {0} :
          /\ s = 0 => \A x \in Sids : file[x] # proc[p].call.role
          /\ proc' = [proc EXCEPT ![p].target = s,
                         ![p].pc = IF s = 0 THEN "create" ELSE "get"]
    /\ UNCHANGED <<server, files, faults>>

GetSession(p) ==
    /\ At(p, "get")
    /\ \/ /\ NoFault
          /\ Go(p, IF sessions[proc[p].target].executor
                        = roleToExecutor(proc[p].call.role)
                   THEN "name" ELSE "create")
       \/ Fault /\ Go(p, "create")
    /\ UNCHANGED <<server, files>>

CreateSession(p) ==
    LET new == [executor |-> roleToExecutor(proc[p].call.role),
                name |-> proc[p].call.role]
    IN  /\ At(p, "create")
        /\ \/ /\ NoFault
              /\ sessions' = Append(sessions, new)
              /\ proc' = [proc EXCEPT ![p].pc = "register",
                                      ![p].target = Len(sessions')]
           \/ Fault /\ sessions' \in {sessions, Append(sessions, new)} /\ Go(p, GiveUp(p))
        /\ UNCHANGED <<turns, files>>

(* ensureSessionName: only a warning if it fails.                          *)
NameSession(p) ==
    LET s == proc[p].target
    IN  /\ At(p, "name")
        /\ \/ /\ NoFault
              /\ sessions' = [sessions EXCEPT ![s].name = proc[p].call.role]
           \/ /\ sessions[s].name # proc[p].call.role
              /\ Fault /\ UNCHANGED sessions
        /\ Go(p, "post")
        /\ UNCHANGED <<turns, files>>

PostAsk(p) ==
    /\ At(p, "post")
    /\ Post(p, proc[p].target, "ask",
            IF proc[p].call.respond THEN "whom" ELSE "end", GiveUp(p))
    /\ UNCHANGED <<sessions, files>>

(* Faulty StartRespond: it goes on without a session to tell.              *)
FaultyStartRespond(p) ==
    /\ At(p, "whom")
    /\ \/ /\ NoFault
          /\ proc' = [proc EXCEPT ![p].pc = "fetch",
                         ![p].to = discoverSessionId(proc[p].call)]
       \/ ~proc[p].call.knows /\ Fault /\ Go(p, "fetch")
    /\ UNCHANGED <<server, files>>

(* Who is to be told is found out after the message has been sent.         *)
StartRespond(p) ==
    /\ At(p, "whom")
    /\ \/ /\ NoFault
          /\ proc' = [proc EXCEPT ![p].pc = "fetch",
                         ![p].to = discoverSessionId(proc[p].call)]
       \/ ~proc[p].call.knows /\ Fault /\ Go(p, GiveUp(p))
    /\ UNCHANGED <<server, files>>

(* respondRunner.  The conversation is read from a socket until the turn   *)
(* is over; it may end before, with what has come until then, or fail, and *)
(* not be waited for any longer than the timeout (30 minutes by default).  *)
extractFinalAssistantMessage(said) == said

FetchConversation(p) ==
    LET t    == turns[proc[p].turn]
        Got(said) == IF extractFinalAssistantMessage(said)
                     THEN "answer" ELSE "logged"
    IN  /\ At(p, "fetch")
        /\ \/ NoFault /\ t.status # "running" /\ Go(p, Got(t.said))
           \/ Fault /\ Go(p, Got(FALSE))
           \/ Fault /\ Go(p, Got(t.said))
           \/ NoFault /\ t.status = "running" /\ Go(p, "failure")
           \/ Fault /\ Go(p, "failure")
        /\ UNCHANGED <<server, files>>

PostAnswer(p) ==
    /\ At(p, "answer")
    /\ Post(p, proc[p].to, "answer", "end", "failure")
    /\ UNCHANGED <<sessions, files>>

PostFailure(p) ==
    /\ At(p, "failure")
    /\ Post(p, proc[p].to, "failure", "end", "logged")
    /\ UNCHANGED <<sessions, files>>

-----------------------------------------------------------------------------
(* callback: the command runs in a shell of its own.                       *)

StartCommand(p) ==
    /\ At(p, "start")
    /\ \/ /\ NoFault
          /\ proc' = [proc EXCEPT ![p].pc = "run", ![p].child = "running",
                         ![p].to = discoverSessionId(proc[p].call)]
       \/ /\ Fault
          /\ proc' = [proc EXCEPT ![p].pc = "idle", ![p].child = "ended",
                         ![p].to = discoverSessionId(proc[p].call)]
       \/ ~proc[p].call.knows /\ Fault /\ Go(p, "exit")
    /\ UNCHANGED <<server, files>>

CommandEnds(p) ==
    /\ At(p, "run") /\ proc[p].child = "running"
    /\ proc' = [proc EXCEPT ![p].child = "ended"]
    /\ UNCHANGED <<server, files, faults>>

(* The command is asked to stop, and five seconds later made to.           *)
CommandTimeout(p) ==
    /\ At(p, "run") /\ proc[p].call.timeout /\ ~proc[p].timedOut
    /\ proc' = [proc EXCEPT ![p].timedOut = TRUE]
    /\ UNCHANGED <<server, files, faults>>

(* Faulty CommandKill: it is not waited for once it has been asked to.     *)
FaultyCommandKill(p) ==
    /\ At(p, "run") /\ proc[p].timedOut
    /\ proc' = [proc EXCEPT ![p].pc = "idle"]
    /\ UNCHANGED <<server, files, faults>>

CommandKill(p) ==
    /\ At(p, "run") /\ proc[p].timedOut /\ proc[p].child = "running"
    /\ proc' = [proc EXCEPT ![p].child = "ended"]
    /\ UNCHANGED <<server, files, faults>>

CommandClosed(p) ==
    /\ At(p, "run") /\ proc[p].child = "ended"
    /\ Go(p, "idle")
    /\ UNCHANGED <<server, files, faults>>

(* waitForSessionIdle: what has not come within two seconds is not waited  *)
(* for, and a list without it may look idle.                               *)
Active(s) == hasActiveSessionTurn(TurnsOf(s))

waitForSessionIdle(p) ==
    /\ At(p, "idle")
    /\ \/ NoFault /\ ~Active(proc[p].to)
          /\ Go(p, IF proc[p].call.cmd = "review" THEN "quiet" ELSE "tell")
       \/ Fault /\ Go(p, IF proc[p].call.cmd = "review" THEN "quiet"
                         ELSE "tell")
       \/ Fault /\ Go(p, "logged")
    /\ UNCHANGED <<server, files>>

PostCompletion(p) ==
    /\ At(p, "tell")
    /\ Post(p, proc[p].to, "completion", "end", "logged")
    /\ UNCHANGED <<sessions, files>>

(* The runner of a review looks once more after a while, and then sends.   *)
StartReview(p) ==
    /\ At(p, "schedule")
    /\ \/ /\ NoFault
          /\ proc' = [proc EXCEPT ![p].pc = "idle",
                         ![p].to = discoverSessionId(proc[p].call)]
       \/ ~proc[p].call.knows /\ Fault /\ Go(p, "exit")
    /\ UNCHANGED <<server, files>>

waitForSessionQuiet(p) ==
    /\ At(p, "quiet")
    /\ \/ NoFault /\ Go(p, IF Active(proc[p].to) THEN "idle" ELSE "send")
       \/ Fault /\ Go(p, "logged")
    /\ UNCHANGED <<server, files>>

-----------------------------------------------------------------------------
(* exclude-me and full_summary, and the file that they share.              *)

ReadPager(p) ==
    /\ At(p, "pager")
    /\ proc' = [proc EXCEPT ![p].image = pager,
                   ![p].pc = IF proc[p].call.cmd = "exclude"
                             THEN "exclude" ELSE "list"]
    /\ UNCHANGED <<server, files, faults>>

ExcludeMe(p) ==
    /\ At(p, "exclude")
    /\ pager' = [proc[p].image EXCEPT
                    !.excluded = @ \cup {discoverSessionId(proc[p].call)}]
    /\ Go(p, "end")
    /\ UNCHANGED <<server, file, shown, faults>>

ListSessions(p) ==
    LET others == DOMAIN sessions \ proc[p].image.excluded
        mine   == IF proc[p].call.knows THEN {proc[p].call.by} ELSE {}
    IN  /\ At(p, "list")
        /\ \/ /\ NoFault
              /\ proc' = [proc EXCEPT ![p].pc = "collect",
                                      ![p].todo = others \ mine]
           \/ Fault /\ Go(p, "exit")
        /\ UNCHANGED <<server, files>>

(* The turns of one session that are new to the reader, in the order of    *)
(* their creation and no more than the limit.                              *)
Fresh(p, s) ==
    {t \in TurnsOf(s) :
        /\ proc[p].call.running \/ isTerminalProcess(t)
        /\ t \notin proc[p].image.seen[getReaderId(proc[p].call)]}

First(S, n) == {t \in S : Cardinality({u \in S : u < t}) < n}

CollectTurns(p) ==
    /\ At(p, "collect")
    /\ \/ /\ NoFault
          /\ \E s \in proc[p].todo :
                LET room == LimitTurns - Cardinality(proc[p].got)
                    got  == proc[p].got \cup First(Fresh(p, s), room)
                IN  proc' = [proc EXCEPT ![p].got = got,
                                ![p].todo = IF Cardinality(got) >= LimitTurns
                                            THEN {} ELSE @ \ {s}]
       \/ Fault /\ proc[p].todo # {} /\ Go(p, "exit")
    /\ UNCHANGED <<server, files>>

(* Faulty WritePager: all that is over counts as seen.                     *)
FaultyWritePager(p) ==
    LET r == getReaderId(proc[p].call)
    IN  /\ At(p, "collect") /\ proc[p].todo = {}
        /\ pager' = [proc[p].image EXCEPT
                        !.seen[r] = {t \in DOMAIN turns : isTerminalProcess(t)}]
        /\ Go(p, "print")
        /\ UNCHANGED <<server, file, shown, faults>>

(* The file is written before the summary is printed.                      *)
WritePager(p) ==
    LET r == getReaderId(proc[p].call)
    IN  /\ At(p, "collect") /\ proc[p].todo = {}
        /\ pager' = [proc[p].image EXCEPT !.seen[r] = @ \cup proc[p].got]
        /\ Go(p, "print")
        /\ UNCHANGED <<server, file, shown, faults>>

PrintSummary(p) ==
    /\ At(p, "print")
    /\ shown' = [shown EXCEPT ![getReaderId(proc[p].call)]
                     = @ \cup proc[p].got]
    /\ Go(p, "end")
    /\ UNCHANGED <<server, file, pager, faults>>
-----------------------------------------------------------------------------
(* The workspace.                                                          *)

FirstStep == [send |-> "send", review |-> "schedule", callback |-> "start",
              register |-> "recent", exclude |-> "pager",
              summary |-> "pager"]

Invoke(p) ==
    /\ At(p, "none")
    /\ Go(p, FirstStep[proc[p].call.cmd])
    /\ UNCHANGED <<server, files, faults>>

(* A process is killed, by a restart of the container say.                 *)
Kill(p) ==
    /\ proc[p].pc \notin Over \cup {"none"}
    /\ Fault
    /\ Go(p, "killed")
    /\ UNCHANGED <<server, files>>

Command(p) ==
    \/ RegisterSelf(p) \/ RegisterRead(p) \/ RegisterWrite(p)
    \/ FindRole(p) \/ GetSession(p) \/ CreateSession(p) \/ NameSession(p)
    \/ PostAsk(p)
    \/ ReadPager(p) \/ ExcludeMe(p) \/ ListSessions(p) \/ CollectTurns(p)
    \/ WritePager(p) \/ PrintSummary(p)

Runner(p) ==
    \/ StartRespond(p) \/ FetchConversation(p) \/ PostAnswer(p)
    \/ PostFailure(p)
    \/ StartCommand(p) \/ CommandTimeout(p) \/ CommandKill(p)
    \/ CommandClosed(p) \/ PostCompletion(p)
    \/ StartReview(p) \/ waitForSessionIdle(p) \/ waitForSessionQuiet(p)

Agents ==
    \/ \E t \in DOMAIN turns : Say(t) \/ EndTurn(t) \/ Drop(t)
    \/ \E p \in Procs : CommandEnds(p)

Next ==
    \/ Agents
    \/ \E p \in Procs : Invoke(p) \/ Command(p) \/ Runner(p) \/ Kill(p)

Spec == Init /\ [][Next]_vars

(* A process goes on by itself: its requests and timers come back.  Turns  *)
(* are ended by the agents, which is assumed and not the code's doing.     *)
FairSpec ==
    /\ Spec
    /\ \A p \in Procs : WF_vars(Command(p) \/ Runner(p))
    /\ WF_vars(\E t \in DOMAIN turns : EndTurn(t))

-----------------------------------------------------------------------------
(* Properties.                                                             *)

RoleFiles == [Sids -> Roles \cup {NoRole}]
Pagers    == [seen : [Readers -> SUBSET Turns], excluded : SUBSET Sids]
Pcs == Over \cup
    {"none", "send", "get", "create", "register", "write", "recent", "name",
     "post", "whom", "fetch", "answer", "failure", "start", "run", "idle",
     "tell", "schedule", "quiet", "pager", "exclude", "list", "collect",
     "print"}

(* Every variable has its type, and a role leads to one session, whatever  *)
(* register and send processes have written over each other's changes.     *)
TypeOK ==
    /\ sessions \in Seq([executor : Executors, name : Roles \cup {NoRole}])
    /\ Len(sessions) <= MaxSessions
    /\ turns \in Seq([session : Sids, of : 0..MaxCalls, said : BOOLEAN,
                      kind : {"user", "ask", "answer", "failure",
                              "completion"},
                      status : {"running", "ended", "dropped"}])
    /\ Len(turns) <= MaxTurns
    /\ file \in RoleFiles
    /\ \A s, u \in Sids : file[s] = file[u] /\ file[s] # NoRole => s = u
    /\ pager \in Pagers
    /\ \A p \in Procs :
          /\ proc[p].pc \in Pcs
          /\ proc[p].roles \in RoleFiles /\ proc[p].image \in Pagers
          /\ proc[p].target \in {0} \cup Sids /\ proc[p].to \in {0} \cup Sids
          /\ proc[p].child \in {"none", "running", "ended"}
          /\ proc[p].got \subseteq Turns /\ proc[p].todo \subseteq Sids
    /\ shown \in [Readers -> SUBSET Turns]
    /\ faults \in 0..MaxFaults

MessagesOf(p, kind) ==
    {t \in DOMAIN turns : turns[t].of = p /\ turns[t].kind = kind}

(* A message sent with --respond is answered once, after it was sent; the  *)
(* notice of a failure comes once, and beside an answer only if the        *)
(* process did not learn that the answer had arrived.                      *)
AnsweredOnce(p) ==
    LET answers == MessagesOf(p, "answer") failures == MessagesOf(p, "failure")
    IN  /\ Cardinality(answers) <= 1 /\ Cardinality(failures) <= 1
        /\ answers # {} /\ failures # {} => proc[p].unsure
        /\ \A t \in answers : turns[proc[p].turn].said

(* The completion message of a callback comes once, and not before its     *)
(* command is over, however that was brought about.                        *)
CompletedOnce(p) ==
    /\ Cardinality(MessagesOf(p, "completion")) <= 1
    /\ proc[p].pc \in {"idle", "quiet", "tell"} \/ MessagesOf(p, "completion") # {}
          => proc[p].child # "running"

(* A session is told once, and in time, what became of a command.          *)
ToldOnce == \A p \in Procs : AnsweredOnce(p) /\ CompletedOnce(p)

(* What the file says that a reader has been shown has been: no turn is    *)
(* passed over because of the limits, of other readers, or of what one     *)
(* process wrote over another's.  Only a summary that is put together and  *)
(* not yet printed, or never is, is ahead.                                 *)
SeenWereShown ==
    \A r \in Readers :
        pager.seen[r] \subseteq
            shown[r] \cup UNION {proc[p].got : p \in
                {q \in Procs : /\ proc[q].pc \in {"print", "killed"}
                               /\ getReaderId(proc[q].call) = r}}

(* What a command leaves behind comes to an end with a word: its message   *)
(* is a turn of the session that it was to tell, or it has written in its  *)
(* file that there will be none.  A command that may run on, for want of a *)
(* timeout, keeps it; and it may fail before it is left behind, which the  *)
(* caller learns, be killed, or be a review whose send failed, which exits *)
(* without a word: each of these only when something has gone wrong.       *)
LeavesRunner(p) ==
    \/ proc[p].call.cmd \in {"callback", "review"}
    \/ proc[p].call.cmd = "send" /\ proc[p].call.respond

TellsBack(p) ==
    IF proc[p].call.cmd = "callback" THEN {"completion"} ELSE {"answer", "failure"}

HasTold(p) ==
    /\ At(p, "end")
    /\ \E t \in DOMAIN turns :
          turns[t].of = p /\ turns[t].kind \in TellsBack(p) /\ turns[t].session = proc[p].to

WithoutAWord(p) ==
    /\ faults > 0
    /\ \/ At(p, "exit") /\ proc[p].to = 0
       \/ At(p, "killed")
       \/ At(p, "silent") /\ proc[p].call.cmd = "review"

EndlessCommand(p) == At(p, "run") /\ ~proc[p].call.timeout

RunnersSettle ==
    \A p \in Procs :
        LeavesRunner(p) /\ ~At(p, "none") ~>
            HasTold(p) \/ At(p, "logged") \/ WithoutAWord(p) \/ EndlessCommand(p)

(* The help text: --respond routes the final response back to the session  *)
(* that the message was sent from.                                         *)
AnswersComeHome ==
    \A t \in DOMAIN turns :
        turns[t].kind = "answer" =>
            turns[t].session = proc[turns[t].of].call.by

(* The message of exclude-me: the session is now excluded from the output  *)
(* of full_summary.                                                        *)
ExcludedStaysOut ==
    \A p \in Procs :
        proc[p].call.cmd = "exclude" /\ At(p, "end") /\ proc[p].call.knows =>
            proc[p].call.by \in pager.excluded

=============================================================================
