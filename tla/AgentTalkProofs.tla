--------------------------- MODULE AgentTalkProofs ---------------------------
(***************************************************************************)
(* Proofs about AgentTalk, for any roles, starts and calls.                *)
(*                                                                         *)
(* Typed is the invariant of types, which accounts for the sessions and    *)
(* turns that processes may still ask for.  Talks says where each process  *)
(* is with its messages, and Books what the file of summaries, and each    *)
(* image of it that a process holds, may say was seen.                     *)
(***************************************************************************)
EXTENDS AgentTalk, FiniteSetTheorems, SequenceTheorems, WellFoundedInduction, TLAPS

USE TalkAssumption

-----------------------------------------------------------------------------
(* Sets of numbers and of processes.                                       *)

LEMMA ProcsFinite == IsFiniteSet(Procs) /\ Cardinality(Procs) = MaxCalls
  BY FS_Interval DEF Procs

\* Fewer processes are left to do something when one has done it.
LEMMA FewerLeft ==
  ASSUME NEW A \in SUBSET Procs, NEW B \in SUBSET A
  PROVE  /\ Cardinality(A) \in Nat /\ Cardinality(B) \in Nat
         /\ Cardinality(B) <= Cardinality(A)
         /\ \A p \in A \ B : Cardinality(B) + 1 <= Cardinality(A)
<1>1. IsFiniteSet(A) /\ IsFiniteSet(B)
  BY ProcsFinite, FS_Subset
<1>2. Cardinality(A) \in Nat /\ Cardinality(B) \in Nat
  BY <1>1, FS_CardinalityType
<1>3. Cardinality(B) <= Cardinality(A)
  BY <1>1, FS_Subset
<1>4. ASSUME NEW p \in A \ B PROVE Cardinality(B) + 1 <= Cardinality(A)
  <2>1. IsFiniteSet(A \ {p}) /\ Cardinality(A \ {p}) = Cardinality(A) - 1
    BY <1>1, FS_RemoveElement
  <2>2. Cardinality(B) <= Cardinality(A \ {p})
    <3>1. B \subseteq A \ {p}
      OBVIOUS
    <3> QED BY <2>1, <3>1, FS_Subset
  <2> QED BY <1>2, <2>1, <2>2
<1> QED BY <1>2, <1>3, <1>4

\* Every set of numbers up to a number has a greatest one.
LEMMA MaxIsGreatest ==
  ASSUME NEW n \in Nat, NEW S \in SUBSET (1..n), S # {}
  PROVE  Max(S) \in S
<1> DEFINE R == {ss \in Nat \X Nat : ss[1] < ss[2]}
           Above == {k \in Nat : \A y \in S : y <= k}
<1>1. IsWellFoundedOn(R, Nat)
  BY NatLessThanWellFounded, Zenon DEF OpToRel
<1>2. \A y, x \in Nat : y < x => <<y, x>> \in R
  OBVIOUS
<1> HIDE DEF R
<1>3. n \in Above /\ Above \subseteq Nat
  OBVIOUS
<1>4. PICK m \in Above : \A k \in Above : ~ (<<k, m>> \in R)
  BY <1>1, <1>3, WFMin
<1>5. \A k \in Above : m <= k
  <2>1. ASSUME NEW k \in Above PROVE m <= k
    <3>1. ~(k < m)
      BY <1>2, <1>3, <1>4
    <3>2. k \in Nat /\ m \in Nat
      OBVIOUS
    <3> QED BY <3>1, <3>2
  <2> QED BY <2>1
<1>6. m \in Nat /\ \A y \in S : y \in Nat /\ 1 <= y /\ y <= m
  BY <1>4
<1>7. \A k \in Nat : (\A y \in S : y <= k) => k \in Above
  OBVIOUS
<1> HIDE DEF Above
<1>8. m \in S
  <2>1. SUFFICES ASSUME m \notin S PROVE FALSE
    OBVIOUS
  <2>2. PICK y \in S : TRUE
    OBVIOUS
  <2>3. m - 1 \in Nat /\ \A z \in S : z <= m - 1
    BY <1>6, <2>1, <2>2
  <2>4. m <= m - 1
    BY <1>5, <1>7, <2>3
  <2> QED BY <1>6, <2>4
<1>9. \E x \in S : \A y \in S : y <= x
  BY <1>6, <1>8
<1> QED BY <1>9 DEF Max

-----------------------------------------------------------------------------
(* The records of processes.                                               *)

ProcType ==
    [call : CallType, pc : Pcs, target : {0} \cup Sids, turn : {0} \cup Turns,
     to : {0} \cup Sids, roles : RoleFiles, image : Pagers,
     child : {"none", "running", "ended"}, timedOut : BOOLEAN, unsure : BOOLEAN,
     todo : SUBSET Sids, got : SUBSET Turns]

ProcsTyped == proc \in [Procs -> ProcType]

SameCall(r, n) == n.call = r.call
SameAim(r, n)  == n.target = r.target /\ n.to = r.to /\ n.roles = r.roles
SameTalk(r, n) == n.child = r.child /\ n.unsure = r.unsure /\ n.turn = r.turn
SameBook(r, n) == n.image = r.image /\ n.got = r.got

\* The ways in which steps write it.
GoWithTurn(p, x, t)     == proc' = [proc EXCEPT ![p].pc = x, ![p].turn = t]
GoUnsure(p, x)          == proc' = [proc EXCEPT ![p].pc = x, ![p].unsure = TRUE]
GoWithRoles(p, x, img)  == proc' = [proc EXCEPT ![p].pc = x, ![p].roles = img]
GoWithTarget(p, x, s)   == proc' = [proc EXCEPT ![p].pc = x, ![p].target = s]
GoWithTo(p, x, s)       == proc' = [proc EXCEPT ![p].pc = x, ![p].to = s]
GoWithChild(p, x, c, s) == proc' = [proc EXCEPT ![p].pc = x, ![p].child = c, ![p].to = s]
EndChild(p)             == proc' = [proc EXCEPT ![p].child = "ended"]
TimeOut(p)              == proc' = [proc EXCEPT ![p].timedOut = TRUE]
GoWithImage(p, x, img)  == proc' = [proc EXCEPT ![p].image = img, ![p].pc = x]
GoWithTodo(p, x, todo)  == proc' = [proc EXCEPT ![p].pc = x, ![p].todo = todo]
Collect(p, got, todo)   == proc' = [proc EXCEPT ![p].got = got, ![p].todo = todo]

\* Only process p goes on, and keeps its call.
OnlyProc(p) ==
    /\ ProcsTyped'
    /\ \A q \in Procs \ {p} : proc'[q] = proc[q]
    /\ SameCall(proc[p], proc'[p])

LEMMA Replaced ==
  ASSUME ProcsTyped, NEW p \in Procs, NEW new \in ProcType, SameCall(proc[p], new),
         proc' = [proc EXCEPT ![p] = new]
  PROVE  OnlyProc(p) /\ proc'[p] = new
<1>1. ProcsTyped'
  BY DEF ProcsTyped
<1>2. proc'[p] = new /\ \A q \in Procs \ {p} : proc'[q] = proc[q]
  BY DEF ProcsTyped
<1> QED BY <1>1, <1>2 DEF OnlyProc

\* It is somewhere else.
LEMMA StepsTo ==
  ASSUME ProcsTyped, NEW p \in Procs, NEW x \in Pcs,
         proc' = [proc EXCEPT ![p].pc = x]
  PROVE  /\ OnlyProc(p) /\ proc'[p].pc = x
         /\ SameAim(proc[p], proc'[p]) /\ SameTalk(proc[p], proc'[p])
         /\ SameBook(proc[p], proc'[p])
<1> DEFINE new == [proc[p] EXCEPT !.pc = x]
<1>1. proc' = [proc EXCEPT ![p] = new]
  BY Zenon
<1>2. proc[p] \in ProcType
  BY DEF ProcsTyped
<1>3. new \in ProcType
  BY <1>2, Zenon DEF ProcType
<1>4. /\ SameCall(proc[p], new) /\ SameAim(proc[p], new) /\ SameTalk(proc[p], new)
      /\ SameBook(proc[p], new) /\ new.pc = x
  BY <1>2, Zenon DEF ProcType, SameCall, SameAim, SameTalk, SameBook
<1> HIDE DEF new
<1> QED BY <1>1, <1>3, <1>4, Replaced

\* It is somewhere else, and its message is a turn.
LEMMA StepsToTurn ==
  ASSUME ProcsTyped, NEW p \in Procs, NEW x \in Pcs,
         NEW t \in {0} \cup Turns,
         GoWithTurn(p, x, t)
  PROVE  /\ OnlyProc(p)
         /\ proc'[p].pc = x /\ proc'[p].turn = t
         /\ proc'[p].child = proc[p].child
         /\ proc'[p].unsure = proc[p].unsure /\ SameAim(proc[p], proc'[p])
         /\ SameBook(proc[p], proc'[p])
<1> DEFINE new == [proc[p] EXCEPT !.pc = x, !.turn = t]
<1>1. proc' = [proc EXCEPT ![p] = new]
  BY Zenon DEF GoWithTurn
<1>2. proc[p] \in ProcType
  BY DEF ProcsTyped
<1>3. new \in ProcType
  BY <1>2, Zenon DEF ProcType
<1>4. /\ SameCall(proc[p], new)
      /\ new.pc = x /\ new.turn = t /\ new.child = proc[p].child
      /\ new.unsure = proc[p].unsure /\ SameAim(proc[p], new)
      /\ SameBook(proc[p], new)
  BY <1>2, Zenon DEF ProcType, SameCall, SameAim, SameTalk, SameBook
<1> HIDE DEF new
<1> QED BY <1>1, <1>3, <1>4, Replaced

\* It is somewhere else, and not sure about its message.
LEMMA StepsToUnsure ==
  ASSUME ProcsTyped, NEW p \in Procs, NEW x \in Pcs,
         GoUnsure(p, x)
  PROVE  /\ OnlyProc(p)
         /\ proc'[p].pc = x /\ proc'[p].unsure = TRUE
         /\ proc'[p].child = proc[p].child /\ proc'[p].turn = proc[p].turn
         /\ SameAim(proc[p], proc'[p]) /\ SameBook(proc[p], proc'[p])
<1> DEFINE new == [proc[p] EXCEPT !.pc = x, !.unsure = TRUE]
<1>1. proc' = [proc EXCEPT ![p] = new]
  BY Zenon DEF GoUnsure
<1>2. proc[p] \in ProcType
  BY DEF ProcsTyped
<1>3. new \in ProcType
  BY <1>2, Zenon DEF ProcType
<1>4. /\ SameCall(proc[p], new)
      /\ new.pc = x /\ new.unsure = TRUE /\ new.child = proc[p].child
      /\ new.turn = proc[p].turn /\ SameAim(proc[p], new)
      /\ SameBook(proc[p], new)
  BY <1>2, Zenon DEF ProcType, SameCall, SameAim, SameTalk, SameBook
<1> HIDE DEF new
<1> QED BY <1>1, <1>3, <1>4, Replaced

\* It has read the roles.
LEMMA StepsToRoles ==
  ASSUME ProcsTyped, NEW p \in Procs, NEW x \in Pcs, NEW img \in RoleFiles,
         GoWithRoles(p, x, img)
  PROVE  /\ OnlyProc(p)
         /\ proc'[p].pc = x /\ proc'[p].roles = img
         /\ proc'[p].target = proc[p].target /\ proc'[p].to = proc[p].to
         /\ SameTalk(proc[p], proc'[p]) /\ SameBook(proc[p], proc'[p])
<1> DEFINE new == [proc[p] EXCEPT !.pc = x, !.roles = img]
<1>1. proc' = [proc EXCEPT ![p] = new]
  BY Zenon DEF GoWithRoles
<1>2. proc[p] \in ProcType
  BY DEF ProcsTyped
<1>3. new \in ProcType
  BY <1>2, Zenon DEF ProcType
<1>4. /\ SameCall(proc[p], new)
      /\ new.pc = x /\ new.roles = img /\ new.target = proc[p].target
      /\ new.to = proc[p].to /\ SameTalk(proc[p], new)
      /\ SameBook(proc[p], new)
  BY <1>2, Zenon DEF ProcType, SameCall, SameAim, SameTalk, SameBook
<1> HIDE DEF new
<1> QED BY <1>1, <1>3, <1>4, Replaced

\* It has a session to write to.
LEMMA StepsToTarget ==
  ASSUME ProcsTyped, NEW p \in Procs, NEW x \in Pcs,
         NEW s \in {0} \cup Sids,
         GoWithTarget(p, x, s)
  PROVE  /\ OnlyProc(p)
         /\ proc'[p].pc = x /\ proc'[p].target = s
         /\ proc'[p].to = proc[p].to /\ proc'[p].roles = proc[p].roles
         /\ SameTalk(proc[p], proc'[p]) /\ SameBook(proc[p], proc'[p])
<1> DEFINE new == [proc[p] EXCEPT !.pc = x, !.target = s]
<1>1. proc' = [proc EXCEPT ![p] = new]
  BY Zenon DEF GoWithTarget
<1>2. proc[p] \in ProcType
  BY DEF ProcsTyped
<1>3. new \in ProcType
  BY <1>2, Zenon DEF ProcType
<1>4. /\ SameCall(proc[p], new)
      /\ new.pc = x /\ new.target = s /\ new.to = proc[p].to
      /\ new.roles = proc[p].roles /\ SameTalk(proc[p], new)
      /\ SameBook(proc[p], new)
  BY <1>2, Zenon DEF ProcType, SameCall, SameAim, SameTalk, SameBook
<1> HIDE DEF new
<1> QED BY <1>1, <1>3, <1>4, Replaced

\* It has a session to tell.
LEMMA StepsToTo ==
  ASSUME ProcsTyped, NEW p \in Procs, NEW x \in Pcs,
         NEW s \in {0} \cup Sids,
         GoWithTo(p, x, s)
  PROVE  /\ OnlyProc(p)
         /\ proc'[p].pc = x /\ proc'[p].to = s
         /\ proc'[p].target = proc[p].target
         /\ proc'[p].roles = proc[p].roles /\ SameTalk(proc[p], proc'[p])
         /\ SameBook(proc[p], proc'[p])
<1> DEFINE new == [proc[p] EXCEPT !.pc = x, !.to = s]
<1>1. proc' = [proc EXCEPT ![p] = new]
  BY Zenon DEF GoWithTo
<1>2. proc[p] \in ProcType
  BY DEF ProcsTyped
<1>3. new \in ProcType
  BY <1>2, Zenon DEF ProcType
<1>4. /\ SameCall(proc[p], new)
      /\ new.pc = x /\ new.to = s /\ new.target = proc[p].target
      /\ new.roles = proc[p].roles /\ SameTalk(proc[p], new)
      /\ SameBook(proc[p], new)
  BY <1>2, Zenon DEF ProcType, SameCall, SameAim, SameTalk, SameBook
<1> HIDE DEF new
<1> QED BY <1>1, <1>3, <1>4, Replaced

\* It has run a command, and has a session to tell.
LEMMA StepsToChild ==
  ASSUME ProcsTyped, NEW p \in Procs, NEW x \in Pcs,
         NEW c \in {"running", "ended"}, NEW s \in {0} \cup Sids,
         GoWithChild(p, x, c, s)
  PROVE  /\ OnlyProc(p)
         /\ proc'[p].pc = x /\ proc'[p].child = c /\ proc'[p].to = s
         /\ proc'[p].target = proc[p].target
         /\ proc'[p].roles = proc[p].roles /\ proc'[p].turn = proc[p].turn
         /\ proc'[p].unsure = proc[p].unsure /\ SameBook(proc[p], proc'[p])
<1> DEFINE new == [proc[p] EXCEPT !.pc = x, !.child = c, !.to = s]
<1>1. proc' = [proc EXCEPT ![p] = new]
  BY Zenon DEF GoWithChild
<1>2. proc[p] \in ProcType
  BY DEF ProcsTyped
<1>3. new \in ProcType
  BY <1>2, Zenon DEF ProcType
<1>4. /\ SameCall(proc[p], new)
      /\ new.pc = x /\ new.child = c /\ new.to = s
      /\ new.target = proc[p].target /\ new.roles = proc[p].roles
      /\ new.turn = proc[p].turn /\ new.unsure = proc[p].unsure
      /\ SameBook(proc[p], new)
  BY <1>2, Zenon DEF ProcType, SameCall, SameAim, SameTalk, SameBook
<1> HIDE DEF new
<1> QED BY <1>1, <1>3, <1>4, Replaced

\* Its command is over.
LEMMA ChildEnds ==
  ASSUME ProcsTyped, NEW p \in Procs,
         EndChild(p)
  PROVE  /\ OnlyProc(p)
         /\ proc'[p].child = "ended" /\ proc'[p].pc = proc[p].pc
         /\ proc'[p].turn = proc[p].turn /\ proc'[p].unsure = proc[p].unsure
         /\ SameAim(proc[p], proc'[p]) /\ SameBook(proc[p], proc'[p])
<1> DEFINE new == [proc[p] EXCEPT !.child = "ended"]
<1>1. proc' = [proc EXCEPT ![p] = new]
  BY Zenon DEF EndChild
<1>2. proc[p] \in ProcType
  BY DEF ProcsTyped
<1>3. new \in ProcType
  BY <1>2, Zenon DEF ProcType
<1>4. /\ SameCall(proc[p], new)
      /\ new.child = "ended" /\ new.pc = proc[p].pc
      /\ new.turn = proc[p].turn /\ new.unsure = proc[p].unsure
      /\ SameAim(proc[p], new) /\ SameBook(proc[p], new)
  BY <1>2, Zenon DEF ProcType, SameCall, SameAim, SameTalk, SameBook
<1> HIDE DEF new
<1> QED BY <1>1, <1>3, <1>4, Replaced

\* It has waited long enough for its command.
LEMMA TimesOut ==
  ASSUME ProcsTyped, NEW p \in Procs,
         TimeOut(p)
  PROVE  /\ OnlyProc(p)
         /\ proc'[p].timedOut = TRUE /\ proc'[p].pc = proc[p].pc
         /\ SameAim(proc[p], proc'[p]) /\ SameTalk(proc[p], proc'[p])
         /\ SameBook(proc[p], proc'[p])
<1> DEFINE new == [proc[p] EXCEPT !.timedOut = TRUE]
<1>1. proc' = [proc EXCEPT ![p] = new]
  BY Zenon DEF TimeOut
<1>2. proc[p] \in ProcType
  BY DEF ProcsTyped
<1>3. new \in ProcType
  BY <1>2, Zenon DEF ProcType
<1>4. /\ SameCall(proc[p], new)
      /\ new.timedOut = TRUE /\ new.pc = proc[p].pc /\ SameAim(proc[p], new)
      /\ SameTalk(proc[p], new) /\ SameBook(proc[p], new)
  BY <1>2, Zenon DEF ProcType, SameCall, SameAim, SameTalk, SameBook
<1> HIDE DEF new
<1> QED BY <1>1, <1>3, <1>4, Replaced

\* It has read what was shown.
LEMMA StepsToImage ==
  ASSUME ProcsTyped, NEW p \in Procs, NEW x \in Pcs, NEW img \in Pagers,
         GoWithImage(p, x, img)
  PROVE  /\ OnlyProc(p)
         /\ proc'[p].image = img /\ proc'[p].pc = x
         /\ proc'[p].got = proc[p].got /\ SameAim(proc[p], proc'[p])
         /\ SameTalk(proc[p], proc'[p])
<1> DEFINE new == [proc[p] EXCEPT !.image = img, !.pc = x]
<1>1. proc' = [proc EXCEPT ![p] = new]
  BY Zenon DEF GoWithImage
<1>2. proc[p] \in ProcType
  BY DEF ProcsTyped
<1>3. new \in ProcType
  BY <1>2, Zenon DEF ProcType
<1>4. /\ SameCall(proc[p], new)
      /\ new.image = img /\ new.pc = x /\ new.got = proc[p].got
      /\ SameAim(proc[p], new) /\ SameTalk(proc[p], new)
  BY <1>2, Zenon DEF ProcType, SameCall, SameAim, SameTalk, SameBook
<1> HIDE DEF new
<1> QED BY <1>1, <1>3, <1>4, Replaced

\* It has a list of sessions to go through.
LEMMA StepsToTodo ==
  ASSUME ProcsTyped, NEW p \in Procs, NEW x \in Pcs,
         NEW todo \in SUBSET Sids,
         GoWithTodo(p, x, todo)
  PROVE  /\ OnlyProc(p)
         /\ proc'[p].pc = x /\ proc'[p].todo = todo
         /\ SameAim(proc[p], proc'[p]) /\ SameTalk(proc[p], proc'[p])
         /\ SameBook(proc[p], proc'[p])
<1> DEFINE new == [proc[p] EXCEPT !.pc = x, !.todo = todo]
<1>1. proc' = [proc EXCEPT ![p] = new]
  BY Zenon DEF GoWithTodo
<1>2. proc[p] \in ProcType
  BY DEF ProcsTyped
<1>3. new \in ProcType
  BY <1>2, Zenon DEF ProcType
<1>4. /\ SameCall(proc[p], new)
      /\ new.pc = x /\ new.todo = todo /\ SameAim(proc[p], new)
      /\ SameTalk(proc[p], new) /\ SameBook(proc[p], new)
  BY <1>2, Zenon DEF ProcType, SameCall, SameAim, SameTalk, SameBook
<1> HIDE DEF new
<1> QED BY <1>1, <1>3, <1>4, Replaced

\* It has gone through one of them.
LEMMA StepsToGot ==
  ASSUME ProcsTyped, NEW p \in Procs, NEW got \in SUBSET Turns,
         NEW todo \in SUBSET Sids,
         Collect(p, got, todo)
  PROVE  /\ OnlyProc(p)
         /\ proc'[p].got = got /\ proc'[p].todo = todo
         /\ proc'[p].pc = proc[p].pc /\ proc'[p].image = proc[p].image
         /\ SameAim(proc[p], proc'[p]) /\ SameTalk(proc[p], proc'[p])
<1> DEFINE new == [proc[p] EXCEPT !.got = got, !.todo = todo]
<1>1. proc' = [proc EXCEPT ![p] = new]
  BY Zenon DEF Collect
<1>2. proc[p] \in ProcType
  BY DEF ProcsTyped
<1>3. new \in ProcType
  BY <1>2, Zenon DEF ProcType
<1>4. /\ SameCall(proc[p], new)
      /\ new.got = got /\ new.todo = todo /\ new.pc = proc[p].pc
      /\ new.image = proc[p].image /\ SameAim(proc[p], new)
      /\ SameTalk(proc[p], new)
  BY <1>2, Zenon DEF ProcType, SameCall, SameAim, SameTalk, SameBook
<1> HIDE DEF new
<1> QED BY <1>1, <1>3, <1>4, Replaced

-----------------------------------------------------------------------------
(* Types, and what may still be asked of the service.                      *)

SessionType == [executor : Executors, name : Roles \cup {NoRole}]
TurnType ==
    [session : Sids, of : 0..MaxCalls, said : BOOLEAN,
     kind : {"user", "ask", "answer", "failure", "completion"},
     status : {"running", "ended", "dropped"}]

ServiceTyped ==
    /\ sessions \in Seq(SessionType) /\ turns \in Seq(TurnType)
    /\ \A p \in Procs : proc[p].call.by \in DOMAIN sessions
    /\ faults \in 0..MaxFaults

FilesTyped == file \in RoleFiles /\ pager \in Pagers /\ shown \in [Readers -> SUBSET Turns]

\* A role is the one of one session.
OneEach(roles) == \A s, u \in Sids : roles[s] = roles[u] /\ roles[s] # NoRole => s = u

OneRole == OneEach(file) /\ \A p \in Procs : OneEach(proc[p].roles)

\* A process that is about to write to a session, or to tell one, has one.
WritesTo == {"get", "register", "write", "name", "post"}
Tells    == {"fetch", "answer", "failure", "run", "idle", "quiet", "tell"}

Aimed(r) == (r.pc \in WritesTo => r.target \in Sids) /\ (r.pc \in Tells => r.to \in Sids)

\* Where a process may still create a session; send its first message; send
\* an answer; and send the notice of a failure.
CreatePcs == {"none", "send", "get", "create", "schedule", "start", "run", "idle", "quiet"}
AskPcs    == CreatePcs \cup {"register", "write", "recent", "name", "post", "tell", "pager",
                             "exclude", "list", "collect", "print"}
AnswerPcs == AskPcs \cup {"whom", "fetch", "answer"}
FailPcs   == AnswerPcs \cup {"failure"}

Where(S) == {p \in Procs : proc[p].pc \in S}

Rooms ==
    /\ Len(sessions) + Cardinality(Where(CreatePcs)) <= MaxSessions
    /\ Len(turns) + Cardinality(Where(AskPcs)) + Cardinality(Where(AnswerPcs))
         + Cardinality(Where(FailPcs)) <= MaxTurns

Typed ==
    /\ ProcsTyped /\ ServiceTyped /\ FilesTyped /\ OneRole
    /\ \A p \in Procs : Aimed(proc[p])
    /\ Rooms

\* No way leads back to where more may be asked for.
Onward(x, y) ==
    /\ y \in CreatePcs => x \in CreatePcs
    /\ y \in AskPcs => x \in AskPcs
    /\ y \in AnswerPcs => x \in AnswerPcs
    /\ y \in FailPcs => x \in FailPcs

LEMMA TypedIsTypeOK == Typed => TypeOK
<1> SUFFICES ASSUME Typed PROVE TypeOK
  OBVIOUS
<1>1. \A S : Cardinality(Where(S)) \in Nat
  BY FewerLeft DEF Where
<1>2. Len(sessions) <= MaxSessions /\ Len(turns) <= MaxTurns
  BY <1>1 DEF Typed, Rooms, ServiceTyped
<1>3. \A p \in Procs :
          /\ proc[p].pc \in Pcs
          /\ proc[p].roles \in RoleFiles /\ proc[p].image \in Pagers
          /\ proc[p].target \in {0} \cup Sids /\ proc[p].to \in {0} \cup Sids
          /\ proc[p].child \in {"none", "running", "ended"}
          /\ proc[p].got \subseteq Turns /\ proc[p].todo \subseteq Sids
  BY DEF Typed, ProcsTyped, ProcType
<1> QED
  BY <1>2, <1>3 DEF Typed, ServiceTyped, FilesTyped, OneRole, OneEach, TypeOK, SessionType, TurnType

\* Whoever may still ask for something gets it.
LEMMA RoomLeft ==
  ASSUME Typed, NEW p \in Procs
  PROVE  /\ Len(sessions) \in Nat /\ Len(turns) \in Nat
         /\ Len(sessions) <= MaxSessions /\ Len(turns) <= MaxTurns
         /\ proc[p].pc \in CreatePcs => Len(sessions) + 1 <= MaxSessions
         /\ proc[p].pc \in FailPcs => Len(turns) + 1 <= MaxTurns
<1>1. \A S : Cardinality(Where(S)) \in Nat
  BY FewerLeft DEF Where
<1>2. \A S : p \in Where(S) => 1 <= Cardinality(Where(S))
  <2> SUFFICES ASSUME NEW S, p \in Where(S) PROVE 1 <= Cardinality(Where(S))
    OBVIOUS
  <2>1. Cardinality(Where(S) \ {p}) \in Nat /\ Cardinality(Where(S) \ {p}) + 1 <= Cardinality(Where(S))
    <3>1. Where(S) \in SUBSET Procs /\ Where(S) \ {p} \in SUBSET Where(S)
          /\ p \in Where(S) \ (Where(S) \ {p})
      BY DEF Where
    <3> QED BY <3>1, FewerLeft
  <2> QED BY <1>1, <2>1
<1>3. Len(sessions) \in Nat /\ Len(turns) \in Nat
  BY DEF Typed, ServiceTyped
<1>4. /\ proc[p].pc \in CreatePcs => p \in Where(CreatePcs)
      /\ proc[p].pc \in FailPcs => p \in Where(FailPcs)
  BY DEF Where
<1> QED BY <1>1, <1>2, <1>3, <1>4 DEF Typed, Rooms

\* There is room when each session and turn more is one less to ask for.
LEMMA RoomsStay ==
  ASSUME Typed, NEW p \in Procs, OnlyProc(p), Onward(proc[p].pc, proc'[p].pc),
         \/ Len(sessions') = Len(sessions)
         \/ /\ Len(sessions') = Len(sessions) + 1
            /\ proc[p].pc \in CreatePcs /\ proc'[p].pc \notin CreatePcs,
         \/ Len(turns') = Len(turns)
         \/ /\ Len(turns') = Len(turns) + 1
            /\ \/ proc[p].pc \in AskPcs /\ proc'[p].pc \notin AskPcs
               \/ proc[p].pc \in AnswerPcs /\ proc'[p].pc \notin AnswerPcs
               \/ proc[p].pc \in FailPcs /\ proc'[p].pc \notin FailPcs
  PROVE  Rooms'
<1> DEFINE Then(S) == {q \in Procs : proc'[q].pc \in S}
<1>1. ASSUME NEW S, proc'[p].pc \in S => proc[p].pc \in S
      PROVE  /\ Cardinality(Where(S)) \in Nat /\ Cardinality(Then(S)) \in Nat
             /\ Cardinality(Then(S)) <= Cardinality(Where(S))
             /\ proc[p].pc \in S /\ proc'[p].pc \notin S =>
                  Cardinality(Then(S)) + 1 <= Cardinality(Where(S))
  <2>1. \A q \in Procs : q # p => proc'[q] = proc[q]
    BY DEF OnlyProc
  <2>2. Where(S) \in SUBSET Procs /\ Then(S) \in SUBSET Where(S)
    BY <1>1, <2>1 DEF Where
  <2>3. proc[p].pc \in S /\ proc'[p].pc \notin S => p \in Where(S) \ Then(S)
    BY DEF Where
  <2> HIDE DEF Then
  <2> QED BY <2>2, <2>3, FewerLeft
<1>2. Len(sessions) \in Nat /\ Len(turns) \in Nat
  BY DEF Typed, ServiceTyped
<1>3. /\ Len(sessions') + Cardinality(Then(CreatePcs)) <= MaxSessions
      /\ Len(turns') + Cardinality(Then(AskPcs)) + Cardinality(Then(AnswerPcs))
           + Cardinality(Then(FailPcs)) <= MaxTurns
  <2> HIDE DEF Then
  <2>1. Len(sessions') + Cardinality(Then(CreatePcs)) <= MaxSessions
    BY <1>1, <1>2 DEF Typed, Rooms, Onward
  <2>2. Len(turns') + Cardinality(Then(AskPcs)) + Cardinality(Then(AnswerPcs))
           + Cardinality(Then(FailPcs)) <= MaxTurns
    <3>1. /\ Cardinality(Then(AskPcs)) \in Nat /\ Cardinality(Where(AskPcs)) \in Nat
          /\ Cardinality(Then(AskPcs)) <= Cardinality(Where(AskPcs))
          /\ proc[p].pc \in AskPcs /\ proc'[p].pc \notin AskPcs =>
               Cardinality(Then(AskPcs)) + 1 <= Cardinality(Where(AskPcs))
      BY <1>1 DEF Onward
    <3>2. /\ Cardinality(Then(AnswerPcs)) \in Nat /\ Cardinality(Where(AnswerPcs)) \in Nat
          /\ Cardinality(Then(AnswerPcs)) <= Cardinality(Where(AnswerPcs))
          /\ proc[p].pc \in AnswerPcs /\ proc'[p].pc \notin AnswerPcs =>
               Cardinality(Then(AnswerPcs)) + 1 <= Cardinality(Where(AnswerPcs))
      BY <1>1 DEF Onward
    <3>3. /\ Cardinality(Then(FailPcs)) \in Nat /\ Cardinality(Where(FailPcs)) \in Nat
          /\ Cardinality(Then(FailPcs)) <= Cardinality(Where(FailPcs))
          /\ proc[p].pc \in FailPcs /\ proc'[p].pc \notin FailPcs =>
               Cardinality(Then(FailPcs)) + 1 <= Cardinality(Where(FailPcs))
      BY <1>1 DEF Onward
    <3>4. Len(turns) + Cardinality(Where(AskPcs)) + Cardinality(Where(AnswerPcs))
            + Cardinality(Where(FailPcs)) <= MaxTurns
      BY DEF Typed, Rooms
    <3>5. CASE Len(turns') = Len(turns)
      BY <1>2, <3>1, <3>2, <3>3, <3>4, <3>5
    <3>6. ASSUME Len(turns') = Len(turns) + 1, proc[p].pc \in AskPcs, proc'[p].pc \notin AskPcs
          PROVE  Len(turns') + Cardinality(Then(AskPcs)) + Cardinality(Then(AnswerPcs))
                   + Cardinality(Then(FailPcs)) <= MaxTurns
      BY <1>2, <3>1, <3>2, <3>3, <3>4, <3>6, SMTT(30)
    <3>7. ASSUME Len(turns') = Len(turns) + 1,
                 proc[p].pc \in AnswerPcs, proc'[p].pc \notin AnswerPcs
          PROVE  Len(turns') + Cardinality(Then(AskPcs)) + Cardinality(Then(AnswerPcs))
                   + Cardinality(Then(FailPcs)) <= MaxTurns
      BY <1>2, <3>1, <3>2, <3>3, <3>4, <3>7, SMTT(30)
    <3>8. ASSUME Len(turns') = Len(turns) + 1,
                 proc[p].pc \in FailPcs, proc'[p].pc \notin FailPcs
          PROVE  Len(turns') + Cardinality(Then(AskPcs)) + Cardinality(Then(AnswerPcs))
                   + Cardinality(Then(FailPcs)) <= MaxTurns
      BY <1>2, <3>1, <3>2, <3>3, <3>4, <3>8, SMTT(30)
    <3> QED BY <3>5, <3>6, <3>7, <3>8
  <2> QED BY <2>1, <2>2
<1> QED BY <1>3 DEF Rooms, Where

-----------------------------------------------------------------------------
(* Messages, and summaries.                                                *)

AtMostOne(S) == \A t, u \in S : t = u

\* Where a process has no command that runs.
Childless == {"none", "schedule", "idle", "quiet", "tell"}

USE DEF Childless

\* Where process p is with its messages.
Talk(p) ==
    LET answers     == MessagesOf(p, "answer")
        failures    == MessagesOf(p, "failure")
        completions == MessagesOf(p, "completion")
        pc          == proc[p].pc
    IN  /\ pc \in AskPcs => answers = {} /\ failures = {} /\ completions = {}
        /\ pc \in {"whom", "fetch", "answer"} => answers = {} /\ failures = {}
        /\ pc = "failure" => failures = {} /\ (answers # {} => proc[p].unsure)
        /\ AtMostOne(answers) /\ AtMostOne(failures) /\ AtMostOne(completions)
        /\ answers # {} /\ failures # {} => proc[p].unsure
        /\ pc \in {"whom", "fetch", "answer"} \/ answers # {} => proc[p].turn \in DOMAIN turns
        /\ pc = "answer" \/ answers # {} => turns[proc[p].turn].said
        /\ pc \in Childless \/ completions # {} => proc[p].child # "running"

Talks == \A p \in Procs : Talk(p)

\* What a reader was shown, or may still be, or would have been.
Due(r) ==
    shown[r] \cup UNION {proc[p].got : p \in
        {q \in Procs : /\ proc[q].pc \in {"print", "killed"}
                       /\ getReaderId(proc[q].call) = r}}

\* The file, and what processes have read of it.
Books ==
    \A r \in Readers :
        /\ pager.seen[r] \subseteq Due(r)
        /\ \A p \in Procs : proc[p].image.seen[r] \subseteq Due(r)

Inv == Typed /\ Talks /\ Books

LEMMA TalksGiveToldOnce == Talks => ToldOnce
<1> SUFFICES ASSUME Talks, NEW p \in Procs PROVE AnsweredOnce(p) /\ CompletedOnce(p)
  BY DEF ToldOnce
<1>1. ASSUME NEW S, AtMostOne(S) PROVE Cardinality(S) <= 1
  <2>1. CASE S = {}
    BY <2>1, FS_EmptySet
  <2>2. CASE S # {}
    <3>1. PICK t \in S : TRUE
      BY <2>2
    <3>2. S = {t}
      BY <1>1, <3>1 DEF AtMostOne
    <3>3. Cardinality({t}) = 1
      BY FS_Singleton
    <3> QED BY <3>2, <3>3
  <2> QED BY <2>1, <2>2
<1>2. Talk(p)
  BY DEF Talks
<1> QED BY <1>1, <1>2 DEF Talk, AnsweredOnce, CompletedOnce

LEMMA BooksGiveSeenWereShown == Books => SeenWereShown
  BY DEF Books, Due, SeenWereShown

\* What was due stays due as long as no summary that is, is dropped.
LEMMA DueStays ==
  ASSUME ProcsTyped, NEW p \in Procs, OnlyProc(p), NEW r \in Readers,
         shown[r] \subseteq shown'[r],
         proc[p].pc \in {"print", "killed"} =>
             \/ proc'[p].pc \in {"print", "killed"} /\ proc'[p].got = proc[p].got
             \/ getReaderId(proc[p].call) = r => proc[p].got \subseteq shown'[r]
  PROVE  Due(r) \subseteq Due(r)'
<1> SUFFICES ASSUME NEW t \in Due(r) PROVE t \in Due(r)'
  OBVIOUS
<1>1. CASE t \in shown[r]
  BY <1>1 DEF Due
<1>2. ASSUME NEW q \in Procs, proc[q].pc \in {"print", "killed"},
             getReaderId(proc[q].call) = r, t \in proc[q].got
      PROVE  t \in Due(r)'
  <2>1. CASE q = p
    BY <1>2, <2>1 DEF Due, OnlyProc, SameCall, getReaderId
  <2>2. CASE q # p
    BY <1>2, <2>2 DEF Due, OnlyProc, getReaderId
  <2> QED BY <2>1, <2>2
<1> QED BY <1>1, <1>2 DEF Due

-----------------------------------------------------------------------------
(* Steps that send nothing.                                                *)

\* The types, when one process goes on.
LEMMA TypedStays ==
  ASSUME Typed, NEW p \in Procs, OnlyProc(p), Rooms', ServiceTyped', FilesTyped',
         OneEach(file'), OneEach(proc'[p].roles), Aimed(proc'[p])
  PROVE  Typed'
<1>1. ProcsTyped'
  BY DEF OnlyProc
<1>2. ASSUME NEW q \in Procs PROVE OneEach(proc'[q].roles) /\ Aimed(proc'[q])
  BY DEF Typed, OnlyProc, OneRole
<1> QED BY <1>1, <1>2 DEF Typed, OneRole

\* The messages, when no turn is added.
LEMMA TalksStay ==
  ASSUME Typed, Talks, NEW p \in Procs, OnlyProc(p), UNCHANGED turns,
         Onward(proc[p].pc, proc'[p].pc),
         proc'[p].unsure = proc[p].unsure, proc'[p].turn = proc[p].turn,
         proc'[p].child = "running" => proc[p].child = "running" \/ proc[p].pc = "start",
         proc'[p].pc \in {"whom", "fetch"} => proc[p].pc \in {"whom", "fetch"},
         proc'[p].pc = "answer" => proc[p].pc = "fetch" /\ turns[proc[p].turn].said,
         proc'[p].pc = "failure" => proc[p].pc \in {"fetch", "answer"},
         proc'[p].pc \in Childless => proc'[p].child # "running"
  PROVE  Talks'
<1>1. \A q, k : MessagesOf(q, k)' = MessagesOf(q, k)
  BY DEF MessagesOf
<1>2. ASSUME NEW q \in Procs, q # p PROVE Talk(q)'
  <2>1. proc'[q] = proc[q]
    BY <1>2 DEF OnlyProc
  <2>2. Talk(q)
    BY DEF Talks
  <2> QED BY <1>1, <2>1, <2>2 DEF Talk
<1>3. Talk(p)'
  <2>1. Talk(p)
    BY DEF Talks
  <2>2. proc[p].pc = "start" => proc[p].pc \in AskPcs
    BY DEF AskPcs, CreatePcs
  <2> QED BY <1>1, <2>1, <2>2 DEF Talk, Onward
<1> QED BY <1>2, <1>3 DEF Talks

\* The summaries, when neither the file nor what was put together changes.
LEMMA BooksStay ==
  ASSUME Typed, Books, NEW p \in Procs, OnlyProc(p), UNCHANGED <<pager, shown>>,
         SameBook(proc[p], proc'[p]),
         proc[p].pc \in {"print", "killed"} => proc'[p].pc \in {"print", "killed"}
  PROVE  Books'
<1> SUFFICES ASSUME NEW r \in Readers
             PROVE  /\ pager'.seen[r] \subseteq Due(r)'
                    /\ \A q \in Procs : proc'[q].image.seen[r] \subseteq Due(r)'
  BY DEF Books
<1>1. Due(r) \subseteq Due(r)'
  BY DueStays DEF Typed, SameBook
<1>2. \A q \in Procs : proc'[q].image = proc[q].image
  BY DEF OnlyProc, SameBook
<1> QED BY <1>1, <1>2 DEF Books

\* A step that changes its process alone, and perhaps loses a request.
LEMMA QuietStep ==
  ASSUME Inv, NEW p \in Procs, OnlyProc(p), UNCHANGED <<server, files>>,
         NoFault \/ Fault,
         Onward(proc[p].pc, proc'[p].pc),
         OneEach(proc'[p].roles), Aimed(proc'[p]),
         SameBook(proc[p], proc'[p]),
         proc'[p].unsure = proc[p].unsure, proc'[p].turn = proc[p].turn,
         proc'[p].child = "running" => proc[p].child = "running" \/ proc[p].pc = "start",
         proc[p].pc \notin {"print", "killed"} \/ proc'[p].pc = "killed",
         proc'[p].pc \in {"whom", "fetch"} => proc[p].pc \in {"whom", "fetch"},
         proc'[p].pc = "answer" => proc[p].pc = "fetch" /\ turns[proc[p].turn].said,
         proc'[p].pc = "failure" => proc[p].pc \in {"fetch", "answer"},
         proc'[p].pc \in Childless => proc'[p].child # "running"
  PROVE  Inv'
<1>1. UNCHANGED <<sessions, turns, file, pager, shown>>
  BY DEF server, files
<1>2. Rooms'
  BY <1>1, RoomsStay DEF Inv
<1>3. ServiceTyped'
  <2>1. faults' \in 0..MaxFaults
    BY DEF Inv, Typed, ServiceTyped, NoFault, Fault
  <2>2. \A q \in Procs : proc'[q].call = proc[q].call
    BY DEF OnlyProc, SameCall
  <2> QED BY <1>1, <2>1, <2>2 DEF Inv, Typed, ServiceTyped
<1>4. FilesTyped' /\ OneEach(file')
  BY <1>1 DEF Inv, Typed, FilesTyped, OneRole
<1>5. Typed'
  BY <1>2, <1>3, <1>4, TypedStays DEF Inv
<1>6. Talks'
  BY <1>1, TalksStay DEF Inv
<1>7. Books'
  BY <1>1, BooksStay DEF Inv
<1> QED BY <1>5, <1>6, <1>7 DEF Inv

\* What discoverSessionId finds is a session.
LEMMA SessionFound ==
  ASSUME Typed, NEW p \in Procs
  PROVE  discoverSessionId(proc[p].call) \in Sids
<1> DEFINE c     == proc[p].call
           found == {s \in DOMAIN sessions : sessions[s].executor = sessions[c.by].executor}
<1>1. c.by \in DOMAIN sessions
  BY DEF Typed, ServiceTyped
<1>2. DOMAIN sessions = 1..Len(sessions) /\ Len(sessions) \in Nat /\ Len(sessions) <= MaxSessions
  BY RoomLeft DEF Typed, ServiceTyped
<1>3. found \in SUBSET (1..Len(sessions)) /\ found # {}
  BY <1>1, <1>2
<1> HIDE DEF found
<1>4. Max(found) \in DOMAIN sessions
  BY <1>2, <1>3, MaxIsGreatest
<1>5. DOMAIN sessions \subseteq Sids
  BY <1>2 DEF Sids
<1> QED BY <1>1, <1>4, <1>5 DEF discoverSessionId, found

LEMMA ProcFields ==
  ASSUME Typed, NEW p \in Procs
  PROVE  /\ proc[p] \in ProcType /\ ProcsTyped
         /\ proc[p].call \in CallType /\ proc[p].pc \in Pcs
         /\ OneEach(proc[p].roles) /\ Aimed(proc[p])
         /\ proc[p].target \in {0} \cup Sids /\ proc[p].to \in {0} \cup Sids
<1>1. proc[p] \in ProcType
  BY DEF Typed, ProcsTyped
<1> QED BY <1>1 DEF ProcType, Typed, OneRole

\* A step that only takes its process somewhere else.
LEMMA GoesOn ==
  ASSUME Inv, NEW p \in Procs, NEW x \in Pcs, Go(p, x), UNCHANGED <<server, files>>,
         NoFault \/ Fault, Onward(proc[p].pc, x),
         x \in WritesTo => proc[p].target \in Sids,
         x \in Tells => proc[p].to \in Sids,
         proc[p].pc \notin {"print", "killed"} \/ x = "killed",
         x \in {"whom", "fetch"} => proc[p].pc \in {"whom", "fetch"},
         x = "answer" => proc[p].pc = "fetch" /\ turns[proc[p].turn].said,
         x = "failure" => proc[p].pc \in {"fetch", "answer"},
         x \in Childless => proc[p].child # "running"
  PROVE  Inv'
<1>1. /\ OnlyProc(p) /\ proc'[p].pc = x
      /\ SameAim(proc[p], proc'[p]) /\ SameTalk(proc[p], proc'[p])
      /\ SameBook(proc[p], proc'[p])
  BY StepsTo, ProcFields DEF Inv, Go
<1>2. Aimed(proc'[p]) /\ OneEach(proc'[p].roles)
  BY <1>1, ProcFields DEF Inv, Aimed, SameAim
<1> QED BY <1>1, <1>2, QuietStep DEF SameTalk

LEMMA InvokeKeeps == ASSUME Inv, NEW p \in Procs, Invoke(p) PROVE Inv'
<1> DEFINE x == FirstStep[proc[p].call.cmd]
<1>1. proc[p].pc = "none" /\ Go(p, x) /\ UNCHANGED <<server, files, faults>>
  BY DEF Invoke, At
<1>2. x \in {"send", "schedule", "start", "recent", "pager"}
  BY ProcFields DEF Inv, FirstStep, CallType
<1> HIDE DEF x
<1>3. /\ x \in Pcs /\ Onward(proc[p].pc, x) /\ x \notin WritesTo \cup Tells
  BY <1>1, <1>2 DEF Pcs, Onward, CreatePcs, AskPcs, AnswerPcs, FailPcs, WritesTo, Tells
<1>4. proc[p].child # "running"
  BY <1>1 DEF Inv, Talks, Talk
<1> QED BY <1>1, <1>2, <1>3, <1>4, GoesOn DEF NoFault

\* Nothing more is asked for by a process that is over.
LEMMA OverIsOver ==
  /\ Over \subseteq Pcs /\ "killed" \in Over
  /\ \A x \in Over :
        /\ x \notin WritesTo \cup Tells /\ x \notin {"whom", "fetch", "answer", "print"}
        /\ \A y : Onward(y, x)
  /\ \A p : GiveUp(p) \in Over
  BY DEF Over, Pcs, WritesTo, Tells, Onward, CreatePcs, AskPcs, AnswerPcs, FailPcs, GiveUp

\* A process ends, with an error or not, before it puts a summary out.
LEMMA Ends ==
  ASSUME Inv, NEW p \in Procs, NEW x \in Over, Go(p, x), UNCHANGED <<server, files>>,
         NoFault \/ Fault, proc[p].pc \notin {"print", "killed"} \/ x = "killed"
  PROVE  Inv'
<1>1. x \in Pcs /\ Onward(proc[p].pc, x) /\ x \notin WritesTo \cup Tells
      /\ x \notin {"whom", "fetch", "answer"}
  BY OverIsOver
<1>2. x # "failure" /\ x \notin Childless
  BY DEF Over
<1> QED BY <1>1, <1>2, GoesOn

LEMMA KillKeeps == ASSUME Inv, NEW p \in Procs, Kill(p) PROVE Inv'
  BY Ends, OverIsOver DEF Kill

-----------------------------------------------------------------------------
(* Commands, up to their message.                                          *)

LEMMA FindRoleKeeps == ASSUME Inv, NEW p \in Procs, FindRole(p) PROVE Inv'
<1>1. PICK s \in {0} \cup Sids :
        proc' = [proc EXCEPT ![p].target = s, ![p].pc = IF s = 0 THEN "create" ELSE "get"]
  BY DEF FindRole
<1>2. proc[p].pc = "send" /\ UNCHANGED <<server, files, faults>>
  BY DEF FindRole, At
<1>3. PICK x \in Pcs : x \in {"create", "get"} /\ (x = "get" => s \in Sids)
                       /\ x = IF s = 0 THEN "create" ELSE "get"
  BY DEF Pcs
<1>4. GoWithTarget(p, x, s)
  BY <1>1, <1>3, ProcFields DEF Inv, ProcType, GoWithTarget
<1>5. /\ OnlyProc(p) /\ proc'[p].pc = x /\ proc'[p].target = s
      /\ proc'[p].to = proc[p].to /\ proc'[p].roles = proc[p].roles
      /\ SameTalk(proc[p], proc'[p]) /\ SameBook(proc[p], proc'[p])
  BY <1>4, StepsToTarget, ProcFields DEF Inv
<1>6. Onward(proc[p].pc, x)
  BY <1>2, <1>3 DEF Onward, CreatePcs, AskPcs, AnswerPcs, FailPcs
<1>7. Aimed(proc'[p]) /\ OneEach(proc'[p].roles)
  BY <1>2, <1>3, <1>5, ProcFields DEF Inv, Aimed, WritesTo, Tells
<1> QED BY <1>2, <1>3, <1>5, <1>6, <1>7, QuietStep DEF SameTalk, NoFault

LEMMA GetSessionKeeps == ASSUME Inv, NEW p \in Procs, GetSession(p) PROVE Inv'
<1>1. PICK x \in {"name", "create"} : Go(p, x) /\ (NoFault \/ Fault) /\ UNCHANGED <<server, files>>
  BY DEF GetSession
<1>2. proc[p].pc = "get"
  BY DEF GetSession, At
<1>3. x \in Pcs /\ Onward(proc[p].pc, x) /\ x \notin Tells
  BY <1>1, <1>2 DEF Pcs, Onward, CreatePcs, AskPcs, AnswerPcs, FailPcs, Tells
<1>4. proc[p].target \in Sids
  BY <1>2, ProcFields DEF Inv, Aimed, WritesTo
<1> QED BY <1>1, <1>2, <1>3, <1>4, GoesOn

LEMMA RegisterSelfKeeps == ASSUME Inv, NEW p \in Procs, RegisterSelf(p) PROVE Inv'
<1> SUFFICES ASSUME NoFault, GoWithTarget(p, "register", Len(sessions)) PROVE Inv'
  <2>1. ASSUME Fault, Go(p, "exit") PROVE Inv'
    <3>1. proc[p].pc = "recent" /\ "exit" \in Over /\ UNCHANGED <<server, files>>
      BY DEF RegisterSelf, At, Over
    <3> QED BY <2>1, <3>1, Ends
  <2> QED BY <2>1 DEF RegisterSelf, GoWithTarget
<1>1. proc[p].pc = "recent" /\ UNCHANGED <<server, files, faults>>
  BY DEF RegisterSelf, At, NoFault
<1>2. Len(sessions) \in Sids
  <2>1. proc[p].call.by \in 1..Len(sessions)
    BY DEF Inv, Typed, ServiceTyped
  <2> QED BY <2>1, RoomLeft DEF Inv, Sids
<1>3. /\ OnlyProc(p) /\ proc'[p].pc = "register" /\ proc'[p].target = Len(sessions)
      /\ proc'[p].to = proc[p].to /\ proc'[p].roles = proc[p].roles
      /\ SameTalk(proc[p], proc'[p]) /\ SameBook(proc[p], proc'[p])
  <2>1. "register" \in Pcs /\ Len(sessions) \in {0} \cup Sids
    BY <1>2 DEF Pcs
  <2> QED BY <1>1, <2>1, StepsToTarget, ProcFields DEF Inv
<1>4. Onward(proc[p].pc, "register")
  BY <1>1 DEF Onward, CreatePcs, AskPcs, AnswerPcs, FailPcs
<1>5. Aimed(proc'[p]) /\ OneEach(proc'[p].roles)
  BY <1>2, <1>3, ProcFields DEF Inv, Aimed, Tells
<1> QED BY <1>1, <1>3, <1>4, <1>5, QuietStep DEF SameTalk, NoFault

LEMMA RegisterReadKeeps == ASSUME Inv, NEW p \in Procs, RegisterRead(p) PROVE Inv'
<1>1. proc[p].pc = "register" /\ GoWithRoles(p, "write", file)
      /\ UNCHANGED <<server, files, faults>>
  BY DEF RegisterRead, At, GoWithRoles
<1>2. /\ OnlyProc(p) /\ proc'[p].pc = "write" /\ proc'[p].roles = file
      /\ proc'[p].target = proc[p].target /\ proc'[p].to = proc[p].to
      /\ SameTalk(proc[p], proc'[p]) /\ SameBook(proc[p], proc'[p])
  <2>1. "write" \in Pcs /\ file \in RoleFiles
    BY DEF Pcs, Inv, Typed, FilesTyped
  <2> QED BY <1>1, <2>1, StepsToRoles, ProcFields DEF Inv
<1>3. Onward(proc[p].pc, "write")
  BY <1>1 DEF Onward, CreatePcs, AskPcs, AnswerPcs, FailPcs
<1>4. Aimed(proc'[p]) /\ OneEach(proc'[p].roles)
  BY <1>1, <1>2, ProcFields DEF Inv, Typed, OneRole, Aimed, WritesTo, Tells
<1> QED BY <1>1, <1>2, <1>3, <1>4, QuietStep DEF SameTalk, NoFault

\* Who is registered takes the role from another, and leaves its own.
LEMMA RegisteredIsOne ==
  ASSUME NEW roles \in RoleFiles, OneEach(roles), NEW s, NEW r \in Roles
  PROVE  Registered(roles, s, r) \in RoleFiles /\ OneEach(Registered(roles, s, r))
  BY DEF Registered, RoleFiles, OneEach

LEMMA RegisterWriteKeeps == ASSUME Inv, NEW p \in Procs, RegisterWrite(p) PROVE Inv'
<1>1. PICK x \in {"end", "name"} : Go(p, x)
  BY DEF RegisterWrite
<1>2. /\ proc[p].pc = "write" /\ UNCHANGED <<sessions, turns, pager, shown, faults>>
      /\ file' = Registered(proc[p].roles, proc[p].target, proc[p].call.role)
  BY DEF RegisterWrite, At, server
<1>3. x \in Pcs /\ Onward(proc[p].pc, x)
  BY <1>1, <1>2 DEF Pcs, Over, Onward, CreatePcs, AskPcs, AnswerPcs, FailPcs
<1>4. /\ OnlyProc(p) /\ proc'[p].pc = x
      /\ SameAim(proc[p], proc'[p]) /\ SameTalk(proc[p], proc'[p])
      /\ SameBook(proc[p], proc'[p])
  BY <1>1, <1>3, StepsTo, ProcFields DEF Inv, Go
<1>5. file' \in RoleFiles /\ OneEach(file')
  <2>1. proc[p].roles \in RoleFiles /\ proc[p].call.role \in Roles
    BY ProcFields DEF Inv, ProcType, CallType
  <2> QED BY <1>2, <2>1, RegisteredIsOne, ProcFields DEF Inv
<1>6. Aimed(proc'[p]) /\ OneEach(proc'[p].roles)
  BY <1>1, <1>2, <1>4, ProcFields DEF Inv, SameAim, Aimed, WritesTo, Tells
<1>7. Rooms'
  BY <1>2, <1>3, <1>4, RoomsStay DEF Inv
<1>8. ServiceTyped' /\ FilesTyped'
  BY <1>2, <1>4, <1>5 DEF Inv, Typed, ServiceTyped, FilesTyped, OnlyProc, SameCall
<1>9. Typed'
  BY <1>4, <1>5, <1>6, <1>7, <1>8, TypedStays DEF Inv
<1>10. Talks' /\ Books'
  BY <1>1, <1>2, <1>3, <1>4, TalksStay, BooksStay DEF Inv, SameTalk
<1> QED BY <1>9, <1>10 DEF Inv

\* A step that changes sessions, and its process.
LEMMA SessionStep ==
  ASSUME Inv, NEW p \in Procs, OnlyProc(p), UNCHANGED <<turns, files>>,
         NoFault \/ Fault,
         sessions' \in Seq(SessionType),
         \/ Len(sessions') = Len(sessions)
         \/ /\ Len(sessions') = Len(sessions) + 1
            /\ proc[p].pc \in CreatePcs /\ proc'[p].pc \notin CreatePcs,
         Onward(proc[p].pc, proc'[p].pc), Aimed(proc'[p]),
         proc'[p].roles = proc[p].roles,
         SameTalk(proc[p], proc'[p]), SameBook(proc[p], proc'[p]),
         proc[p].pc \notin {"print", "killed"},
         proc'[p].pc \in {"register", "post", "exit", "silent"}
  PROVE  Inv'
<1>1. UNCHANGED <<turns, file, pager, shown>>
  BY DEF files
<1>2. Rooms'
  BY <1>1, RoomsStay DEF Inv
<1>3. ServiceTyped'
  <2>1. faults' \in 0..MaxFaults
    BY DEF Inv, Typed, ServiceTyped, NoFault, Fault
  <2>2. \A q \in Procs : proc'[q].call = proc[q].call
    BY DEF OnlyProc, SameCall
  <2>3. DOMAIN sessions \subseteq DOMAIN sessions'
    BY DEF Inv, Typed, ServiceTyped
  <2> QED BY <1>1, <2>1, <2>2, <2>3 DEF Inv, Typed, ServiceTyped
<1>4. FilesTyped' /\ OneEach(file') /\ OneEach(proc'[p].roles)
  BY <1>1, ProcFields DEF Inv, Typed, FilesTyped, OneRole
<1>5. Typed'
  BY <1>2, <1>3, <1>4, TypedStays DEF Inv
<1>6. Talks' /\ Books'
  BY <1>1, TalksStay, BooksStay DEF Inv, SameTalk
<1> QED BY <1>5, <1>6 DEF Inv

LEMMA CreateSessionKeeps == ASSUME Inv, NEW p \in Procs, CreateSession(p) PROVE Inv'
<1> DEFINE new == [executor |-> roleToExecutor(proc[p].call.role), name |-> proc[p].call.role]
<1>1. proc[p].pc = "create" /\ UNCHANGED <<turns, files>>
  BY DEF CreateSession, At
<1>2. CASE Fault /\ sessions' \in {sessions, Append(sessions, new)} /\ Go(p, GiveUp(p))
  <2>1. CASE UNCHANGED sessions
    BY <1>1, <1>2, <2>1, Ends, OverIsOver DEF server
  <2>2. CASE sessions' = Append(sessions, new)
    <3>1. new \in SessionType /\ sessions \in Seq(SessionType)
      BY ProcFields DEF Inv, Typed, ServiceTyped, SessionType, roleToExecutor, Executors, CallType
    <3> HIDE DEF new
    <3>2. sessions' \in Seq(SessionType) /\ Len(sessions') = Len(sessions) + 1
      BY <2>2, <3>1
    <3>3. GiveUp(p) \in {"exit", "silent"} /\ GiveUp(p) \in Pcs
      BY DEF GiveUp, Pcs, Over
    <3>4. /\ OnlyProc(p) /\ proc'[p].pc = GiveUp(p)
          /\ SameAim(proc[p], proc'[p]) /\ SameTalk(proc[p], proc'[p])
          /\ SameBook(proc[p], proc'[p])
      BY <1>2, <3>3, StepsTo, ProcFields DEF Inv, Go
    <3>5. /\ proc[p].pc \in CreatePcs /\ GiveUp(p) \notin CreatePcs
          /\ Onward(proc[p].pc, GiveUp(p)) /\ Aimed(proc'[p])
      BY <1>1, <3>3, <3>4 DEF Onward, CreatePcs, AskPcs, AnswerPcs, FailPcs, Aimed, WritesTo, Tells
    <3> QED BY <1>1, <1>2, <3>2, <3>3, <3>4, <3>5, SessionStep DEF SameAim
  <2> QED BY <1>2, <2>1, <2>2
<1>3. CASE /\ NoFault /\ sessions' = Append(sessions, new)
           /\ GoWithTarget(p, "register", Len(sessions'))
  <2>1. new \in SessionType /\ sessions \in Seq(SessionType)
    BY ProcFields DEF Inv, Typed, ServiceTyped, SessionType, roleToExecutor, Executors, CallType
  <2> HIDE DEF new
  <2>2. sessions' \in Seq(SessionType) /\ Len(sessions') = Len(sessions) + 1
    BY <1>3, <2>1
  <2>3. proc[p].pc \in CreatePcs
    BY <1>1 DEF CreatePcs
  <2>4. Len(sessions') \in Sids
    BY <2>2, <2>3, RoomLeft DEF Inv, Sids
  <2>5. /\ OnlyProc(p) /\ proc'[p].pc = "register" /\ proc'[p].target = Len(sessions')
        /\ proc'[p].to = proc[p].to /\ proc'[p].roles = proc[p].roles
        /\ SameTalk(proc[p], proc'[p]) /\ SameBook(proc[p], proc'[p])
    <3>1. "register" \in Pcs /\ Len(sessions') \in {0} \cup Sids
      BY <2>4 DEF Pcs
    <3> QED BY <1>3, <3>1, StepsToTarget, ProcFields DEF Inv
  <2>6. /\ Onward(proc[p].pc, "register") /\ "register" \notin CreatePcs
        /\ Aimed(proc'[p])
    BY <1>1, <2>4, <2>5 DEF Onward, CreatePcs, AskPcs, AnswerPcs, FailPcs, Aimed, Tells
  <2> QED BY <1>1, <1>3, <2>2, <2>3, <2>5, <2>6, SessionStep
<1> QED BY <1>2, <1>3 DEF CreateSession, GoWithTarget

LEMMA NameSessionKeeps == ASSUME Inv, NEW p \in Procs, NameSession(p) PROVE Inv'
<1> DEFINE s == proc[p].target
<1>1. proc[p].pc = "name" /\ UNCHANGED <<turns, files>> /\ Go(p, "post") /\ (NoFault \/ Fault)
  BY DEF NameSession, At
<1>2. \/ UNCHANGED sessions
      \/ sessions' = [sessions EXCEPT ![s].name = proc[p].call.role]
  BY DEF NameSession
<1>3. sessions' \in Seq(SessionType) /\ Len(sessions') = Len(sessions)
  <2>1. sessions \in Seq(SessionType) /\ proc[p].call.role \in Roles
    BY ProcFields DEF Inv, Typed, ServiceTyped, CallType
  <2>2. CASE s \in DOMAIN sessions /\ sessions' # sessions
    <3> DEFINE el == [sessions[s] EXCEPT !.name = proc[p].call.role]
    <3>1. sessions[s] \in SessionType
      BY <2>1, <2>2
    <3>2. el \in SessionType
      BY <2>1, <3>1 DEF SessionType
    <3>3. sessions' = [sessions EXCEPT ![s] = el]
      BY <1>2, <2>2
    <3> HIDE DEF el
    <3> QED BY <2>1, <2>2, <3>2, <3>3, ExceptSeq
  <2>3. CASE s \notin DOMAIN sessions
    <3>1. sessions' = sessions
      BY <1>2, <2>1, <2>3
    <3> QED BY <2>1, <3>1
  <2> QED BY <2>1, <2>2, <2>3
<1>4. /\ OnlyProc(p) /\ proc'[p].pc = "post"
      /\ SameAim(proc[p], proc'[p]) /\ SameTalk(proc[p], proc'[p])
      /\ SameBook(proc[p], proc'[p])
  <2>1. "post" \in Pcs
    BY DEF Pcs
  <2> QED BY <1>1, <2>1, StepsTo, ProcFields DEF Inv, Go
<1>5. Onward(proc[p].pc, "post") /\ Aimed(proc'[p])
  BY <1>1, <1>4, ProcFields
  DEF Inv, SameAim, Aimed, WritesTo, Tells, Onward, CreatePcs, AskPcs, AnswerPcs, FailPcs
<1> QED BY <1>1, <1>3, <1>4, <1>5, SessionStep DEF SameAim

-----------------------------------------------------------------------------
(* Messages.                                                               *)

\* The messages there are when one has been taken.
LEMMA MessagesAfter ==
  ASSUME turns \in Seq(TurnType), NEW turn \in TurnType, turns' = Append(turns, turn)
  PROVE  /\ \A q, k : turn.of # q \/ turn.kind # k => MessagesOf(q, k)' = MessagesOf(q, k)
         /\ MessagesOf(turn.of, turn.kind)' = MessagesOf(turn.of, turn.kind) \cup {Len(turns) + 1}
         /\ DOMAIN turns' = DOMAIN turns \cup {Len(turns) + 1}
         /\ Len(turns') = Len(turns) + 1
         /\ \A t \in DOMAIN turns : turns'[t] = turns[t]
<1>1. /\ DOMAIN turns' = DOMAIN turns \cup {Len(turns) + 1}
      /\ Len(turns') = Len(turns) + 1
      /\ Len(turns) + 1 \notin DOMAIN turns
      /\ turns'[Len(turns) + 1] = turn
      /\ \A t \in DOMAIN turns : turns'[t] = turns[t]
  OBVIOUS
<1>2. ASSUME NEW q, NEW k, turn.of # q \/ turn.kind # k
      PROVE  MessagesOf(q, k)' = MessagesOf(q, k)
  BY <1>1, <1>2 DEF MessagesOf
<1>3. MessagesOf(turn.of, turn.kind)' = MessagesOf(turn.of, turn.kind) \cup {Len(turns) + 1}
  BY <1>1 DEF MessagesOf
<1> QED BY <1>1, <1>2, <1>3

\* A step that sends a message, after which its process is where it should be.
LEMMA TurnStep ==
  ASSUME Inv, NEW p \in Procs, OnlyProc(p), UNCHANGED <<sessions, files>>,
         NoFault \/ Fault,
         NEW turn \in TurnType, turn.of = p, turns' = Append(turns, turn),
         Onward(proc[p].pc, proc'[p].pc),
         \/ proc[p].pc \in AskPcs /\ proc'[p].pc \notin AskPcs
         \/ proc[p].pc \in AnswerPcs /\ proc'[p].pc \notin AnswerPcs
         \/ proc[p].pc \in FailPcs /\ proc'[p].pc \notin FailPcs,
         Aimed(proc'[p]), SameAim(proc[p], proc'[p]), SameBook(proc[p], proc'[p]),
         proc[p].pc \notin {"print", "killed"},
         Talk(p)'
  PROVE  Inv'
<1>1. UNCHANGED <<sessions, file, pager, shown>>
  BY DEF files
<1>2. turns \in Seq(TurnType)
  BY DEF Inv, Typed, ServiceTyped
<1>3. Rooms'
  BY <1>1, <1>2, MessagesAfter, RoomsStay DEF Inv
<1>4. ServiceTyped'
  <2>1. faults' \in 0..MaxFaults
    BY DEF Inv, Typed, ServiceTyped, NoFault, Fault
  <2>2. \A q \in Procs : proc'[q].call = proc[q].call
    BY DEF OnlyProc, SameCall
  <2>3. turns' \in Seq(TurnType)
    BY <1>2
  <2> QED BY <1>1, <2>1, <2>2, <2>3 DEF Inv, Typed, ServiceTyped
<1>5. FilesTyped' /\ OneEach(file') /\ OneEach(proc'[p].roles)
  BY <1>1, ProcFields DEF Inv, Typed, FilesTyped, OneRole, SameAim
<1>6. Typed'
  BY <1>3, <1>4, <1>5, TypedStays DEF Inv
<1>7. ASSUME NEW q \in Procs, q # p PROVE Talk(q)'
  <2>1. \A k : MessagesOf(q, k)' = MessagesOf(q, k)
    BY <1>2, <1>7, MessagesAfter
  <2>2. proc'[q] = proc[q] /\ Talk(q)
    BY <1>7 DEF OnlyProc, Inv, Talks
  <2>3. proc[q].turn \in DOMAIN turns =>
          proc[q].turn \in DOMAIN turns' /\ turns'[proc[q].turn] = turns[proc[q].turn]
    BY <1>2, MessagesAfter
  <2> QED BY <2>1, <2>2, <2>3 DEF Talk
<1>8. Talks'
  BY <1>7 DEF Talks
<1>9. Books'
  BY <1>1, BooksStay DEF Inv
<1> QED BY <1>6, <1>8, <1>9 DEF Inv

\* The three outcomes of a request to send.
Message(p, s, kind) ==
    [session |-> s, kind |-> kind, of |-> p, status |-> "running", said |-> FALSE]

LEMMA PostOutcomes ==
  ASSUME Inv, NEW p \in Procs, NEW s \in Sids,
         NEW kind \in {"ask", "answer", "failure", "completion"}, NEW ok, NEW failed,
         Post(p, s, kind, ok, failed)
  PROVE  /\ Message(p, s, kind) \in TurnType /\ Message(p, s, kind).of = p
         /\ Message(p, s, kind).kind = kind
         /\ \/ /\ NoFault /\ turns' = Append(turns, Message(p, s, kind))
               /\ \/ kind = "ask" /\ GoWithTurn(p, ok, Len(turns'))
                  \/ kind # "ask" /\ Go(p, ok)
            \/ Fault /\ UNCHANGED turns /\ Go(p, failed)
            \/ /\ Fault /\ turns' = Append(turns, Message(p, s, kind))
               /\ GoUnsure(p, failed)
<1>1. /\ Message(p, s, kind) \in TurnType /\ Message(p, s, kind).of = p
      /\ Message(p, s, kind).kind = kind
  BY DEF Message, TurnType, Procs
<1>2. ASSUME proc' = [proc EXCEPT ![p].pc = ok, ![p].turn = IF kind = "ask" THEN Len(turns') ELSE @]
      PROVE  \/ kind = "ask" /\ GoWithTurn(p, ok, Len(turns'))
             \/ kind # "ask" /\ Go(p, ok)
  <2>1. CASE kind = "ask"
    BY <1>2, <2>1 DEF GoWithTurn
  <2>2. CASE kind # "ask"
    <3>1. proc \in [Procs -> ProcType]
      BY DEF Inv, Typed, ProcsTyped
    <3> DEFINE new == [proc[p] EXCEPT !.pc = ok, !.turn = proc[p].turn]
               go  == [proc[p] EXCEPT !.pc = ok]
    <3>2. proc' = [proc EXCEPT ![p] = new]
      BY <1>2, <2>2, Zenon
    <3>3. new = go
      BY <3>1 DEF ProcType
    <3> QED BY <2>2, <3>2, <3>3, Zenon DEF Go
  <2> QED BY <2>1, <2>2
<1> QED BY <1>1, <1>2 DEF Post, Message, GoUnsure

\* Where a process that has sent a message is, by the ways it got there.
LEMMA Posted ==
  ASSUME Inv, NEW p \in Procs, NEW s \in Sids, NEW x \in Pcs,
         NEW kind \in {"ask", "answer", "failure", "completion"},
         turns' = Append(turns, Message(p, s, kind)),
         \/ kind = "ask" /\ GoWithTurn(p, x, Len(turns'))
         \/ kind # "ask" /\ Go(p, x)
         \/ GoUnsure(p, x),
         proc[p].pc \in FailPcs
  PROVE  /\ OnlyProc(p) /\ proc'[p].pc = x
         /\ SameAim(proc[p], proc'[p]) /\ SameBook(proc[p], proc'[p])
         /\ proc'[p].child = proc[p].child
         /\ proc'[p].turn = proc[p].turn \/ (kind = "ask" /\ proc'[p].turn = Len(turns'))
         /\ proc'[p].unsure = proc[p].unsure \/ (GoUnsure(p, x) /\ proc'[p].unsure)
<1>1. turns \in Seq(TurnType) /\ ProcsTyped
  BY DEF Inv, Typed, ServiceTyped
<1>2. Len(turns') = Len(turns) + 1
  BY <1>1
<1>3. Len(turns') \in {0} \cup Turns
  BY <1>2, RoomLeft DEF Inv, Turns
<1>4. CASE kind = "ask" /\ GoWithTurn(p, x, Len(turns'))
  BY <1>1, <1>3, <1>4, StepsToTurn
<1>5. CASE Go(p, x)
  BY <1>1, <1>5, StepsTo DEF Go, SameTalk
<1>6. CASE GoUnsure(p, x)
  BY <1>1, <1>6, StepsToUnsure
<1> QED BY <1>4, <1>5, <1>6

LEMMA PostAskKeeps == ASSUME Inv, NEW p \in Procs, PostAsk(p) PROVE Inv'
<1> DEFINE s == proc[p].target
           ok == IF proc[p].call.respond THEN "whom" ELSE "end"
<1>1. /\ proc[p].pc = "post" /\ UNCHANGED <<sessions, files>>
      /\ Post(p, s, "ask", ok, GiveUp(p))
  BY DEF PostAsk, At
<1>2. s \in Sids
  BY <1>1, ProcFields DEF Inv, Aimed, WritesTo
<1>3. GiveUp(p) \in Over /\ ok \in {"whom", "end"}
  BY OverIsOver
<1> HIDE DEF s, ok
<1>4. CASE Fault /\ UNCHANGED turns /\ Go(p, GiveUp(p))
  BY <1>1, <1>3, <1>4, Ends DEF server
<1>5. ASSUME NEW x \in Over \cup {"whom"}, NoFault \/ Fault,
             turns' = Append(turns, Message(p, s, "ask")),
             \/ GoWithTurn(p, x, Len(turns'))
             \/ x # "whom" /\ GoUnsure(p, x)
      PROVE  Inv'
  <2>1. x \in Pcs /\ proc[p].pc \in FailPcs /\ proc[p].pc \in AskPcs /\ x \notin AskPcs
        /\ Onward(proc[p].pc, x) /\ x \notin WritesTo \cup Tells /\ x \notin {"fetch", "answer", "failure"}
    BY <1>1 DEF Over, Pcs, Onward, CreatePcs, AskPcs, AnswerPcs, FailPcs, WritesTo, Tells
  <2>2. /\ OnlyProc(p) /\ proc'[p].pc = x
        /\ SameAim(proc[p], proc'[p]) /\ SameBook(proc[p], proc'[p])
        /\ proc'[p].child = proc[p].child
    BY <1>2, <1>5, <2>1, Posted
  <2>3. x = "whom" => proc'[p].turn = Len(turns')
    <3>1. turns \in Seq(TurnType) /\ Len(turns') = Len(turns) + 1
      BY <1>5 DEF Inv, Typed, ServiceTyped
    <3>2. Len(turns') \in {0} \cup Turns
      BY <2>1, <3>1, RoomLeft DEF Inv, Turns
    <3> QED BY <1>5, <2>1, <3>2, StepsToTurn, ProcFields DEF Inv
  <2>4. Message(p, s, "ask") \in TurnType /\ Message(p, s, "ask").of = p
        /\ Message(p, s, "ask").kind = "ask"
    BY <1>2 DEF Message, TurnType, Procs
  <2>5. turns \in Seq(TurnType) /\ Talk(p)
    BY DEF Inv, Typed, ServiceTyped, Talks
  <2>6. \A k \in {"answer", "failure", "completion"} : MessagesOf(p, k)' = {}
    <3>1. \A k \in {"answer", "failure", "completion"} : MessagesOf(p, k) = {}
      BY <2>1, <2>5 DEF Talk
    <3> QED BY <1>5, <2>4, <2>5, <3>1, MessagesAfter
  <2>7. x = "whom" => proc'[p].turn \in DOMAIN turns'
    BY <1>5, <2>3, <2>4, <2>5, MessagesAfter
  <2>8. Talk(p)'
    <3>1. x \notin Childless
      BY DEF Over
    <3> QED BY <2>1, <2>2, <2>6, <2>7, <3>1 DEF Talk, AtMostOne
  <2>9. Aimed(proc'[p]) /\ proc[p].pc \notin {"print", "killed"}
    BY <1>1, <2>1, <2>2 DEF Aimed
  <2> QED BY <1>1, <1>5, <2>1, <2>2, <2>4, <2>8, <2>9, TurnStep
<1>6. "ask" \in {"ask", "answer", "failure", "completion"}
  OBVIOUS
<1>7. \/ NoFault /\ turns' = Append(turns, Message(p, s, "ask")) /\ GoWithTurn(p, ok, Len(turns'))
      \/ Fault /\ UNCHANGED turns /\ Go(p, GiveUp(p))
      \/ Fault /\ turns' = Append(turns, Message(p, s, "ask")) /\ GoUnsure(p, GiveUp(p))
  BY <1>1, <1>2, <1>6, PostOutcomes
<1>8. ok \in Over \cup {"whom"} /\ GiveUp(p) \in Over \cup {"whom"} /\ GiveUp(p) # "whom"
  BY <1>3 DEF Over
<1> QED BY <1>4, <1>5, <1>7, <1>8

LEMMA PostAnswerKeeps == ASSUME Inv, NEW p \in Procs, PostAnswer(p) PROVE Inv'
<1> DEFINE s == proc[p].to
<1>1. /\ proc[p].pc = "answer" /\ UNCHANGED <<sessions, files>>
      /\ Post(p, s, "answer", "end", "failure")
  BY DEF PostAnswer, At
<1>2. s \in Sids
  BY <1>1, ProcFields DEF Inv, Aimed, Tells
<1>3. turns \in Seq(TurnType) /\ Talk(p)
  BY DEF Inv, Typed, ServiceTyped, Talks
<1> HIDE DEF s
<1>4. ASSUME NEW x \in {"end", "failure"}
      PROVE  /\ x \in Pcs /\ Onward(proc[p].pc, x) /\ x \notin WritesTo /\ x \notin AskPcs
             /\ proc[p].pc \in FailPcs /\ proc[p].pc \in AnswerPcs /\ x \notin AnswerPcs
  BY <1>1 DEF Pcs, Over, Onward, CreatePcs, AskPcs, AnswerPcs, FailPcs, WritesTo
<1>5. CASE Fault /\ UNCHANGED turns /\ Go(p, "failure")
  <2>1. "failure" \in {"end", "failure"}
    OBVIOUS
  <2> QED BY <1>1, <1>2, <1>4, <1>5, <2>1, GoesOn DEF server, s
<1>6. ASSUME NEW x \in {"end", "failure"}, NoFault \/ Fault,
             turns' = Append(turns, Message(p, s, "answer")),
             \/ x = "end" /\ Go(p, x)
             \/ GoUnsure(p, x)
      PROVE  Inv'
  <2>1. /\ OnlyProc(p) /\ proc'[p].pc = x
        /\ SameAim(proc[p], proc'[p]) /\ SameBook(proc[p], proc'[p])
        /\ proc'[p].child = proc[p].child /\ proc'[p].turn = proc[p].turn
        /\ proc'[p].unsure = proc[p].unsure \/ (GoUnsure(p, x) /\ proc'[p].unsure)
    BY <1>2, <1>4, <1>6, Posted
  <2>2. x = "failure" => proc'[p].unsure
    BY <1>4, <1>6, StepsToUnsure, ProcFields DEF Inv
  <2>3. Message(p, s, "answer") \in TurnType /\ Message(p, s, "answer").of = p
        /\ Message(p, s, "answer").kind = "answer"
    BY <1>2 DEF Message, TurnType, Procs
  <2>4. /\ MessagesOf(p, "answer") = {} /\ MessagesOf(p, "failure") = {}
        /\ proc[p].turn \in DOMAIN turns /\ turns[proc[p].turn].said
    BY <1>1, <1>3 DEF Talk
  <2>5. /\ MessagesOf(p, "answer")' = {Len(turns) + 1} /\ MessagesOf(p, "failure")' = {}
        /\ MessagesOf(p, "completion")' = MessagesOf(p, "completion")
        /\ proc[p].turn \in DOMAIN turns' /\ turns'[proc[p].turn].said
    BY <1>3, <1>6, <2>3, <2>4, MessagesAfter
  <2>6. Talk(p)'
    <3>1. AtMostOne(MessagesOf(p, "completion"))
          /\ (MessagesOf(p, "completion") # {} => proc[p].child # "running")
      BY <1>3 DEF Talk
    <3>2. x \notin Childless \cup {"whom", "fetch", "answer"}
      OBVIOUS
    <3> QED BY <1>4, <2>1, <2>2, <2>5, <3>1, <3>2 DEF Talk, AtMostOne
  <2>7. Aimed(proc'[p])
    BY <1>2, <1>4, <2>1 DEF Aimed, SameAim, s
  <2> QED BY <1>1, <1>4, <1>6, <2>1, <2>3, <2>6, <2>7, TurnStep
<1>7. \/ NoFault /\ turns' = Append(turns, Message(p, s, "answer")) /\ Go(p, "end")
      \/ Fault /\ UNCHANGED turns /\ Go(p, "failure")
      \/ Fault /\ turns' = Append(turns, Message(p, s, "answer")) /\ GoUnsure(p, "failure")
  <2>1. "answer" \in {"ask", "answer", "failure", "completion"} /\ "answer" # "ask"
    OBVIOUS
  <2> QED BY <1>1, <1>2, <2>1, PostOutcomes
<1> QED BY <1>5, <1>6, <1>7

LEMMA PostFailureKeeps == ASSUME Inv, NEW p \in Procs, PostFailure(p) PROVE Inv'
<1> DEFINE s == proc[p].to
<1>1. /\ proc[p].pc = "failure" /\ UNCHANGED <<sessions, files>>
      /\ Post(p, s, "failure", "end", "logged")
  BY DEF PostFailure, At
<1>2. s \in Sids
  BY <1>1, ProcFields DEF Inv, Aimed, Tells
<1>3. turns \in Seq(TurnType) /\ Talk(p)
  BY DEF Inv, Typed, ServiceTyped, Talks
<1> HIDE DEF s
<1>4. ASSUME NEW x \in {"end", "logged"}
      PROVE  /\ x \in Over /\ x \in Pcs /\ Onward(proc[p].pc, x)
             /\ x \notin WritesTo \cup Tells /\ x \notin AskPcs
             /\ proc[p].pc \in FailPcs /\ x \notin FailPcs
  BY <1>1 DEF Pcs, Over, Onward, CreatePcs, AskPcs, AnswerPcs, FailPcs, WritesTo, Tells
<1>5. CASE Fault /\ UNCHANGED turns /\ Go(p, "logged")
  BY <1>1, <1>4, <1>5, Ends DEF server
<1>6. ASSUME NEW x \in {"end", "logged"}, NoFault \/ Fault,
             turns' = Append(turns, Message(p, s, "failure")),
             Go(p, x) \/ GoUnsure(p, x)
      PROVE  Inv'
  <2>1. /\ OnlyProc(p) /\ proc'[p].pc = x
        /\ SameAim(proc[p], proc'[p]) /\ SameBook(proc[p], proc'[p])
        /\ proc'[p].child = proc[p].child /\ proc'[p].turn = proc[p].turn
        /\ proc'[p].unsure = proc[p].unsure \/ proc'[p].unsure
    BY <1>2, <1>4, <1>6, Posted
  <2>2. Message(p, s, "failure") \in TurnType /\ Message(p, s, "failure").of = p
        /\ Message(p, s, "failure").kind = "failure"
    BY <1>2 DEF Message, TurnType, Procs
  <2>3. /\ MessagesOf(p, "failure") = {}
        /\ MessagesOf(p, "answer") # {} => proc[p].unsure
        /\ MessagesOf(p, "answer") # {} =>
             proc[p].turn \in DOMAIN turns /\ turns[proc[p].turn].said
    BY <1>1, <1>3 DEF Talk
  <2>4. /\ MessagesOf(p, "failure")' = {Len(turns) + 1}
        /\ MessagesOf(p, "answer")' = MessagesOf(p, "answer")
        /\ MessagesOf(p, "completion")' = MessagesOf(p, "completion")
        /\ proc[p].turn \in DOMAIN turns =>
             proc[p].turn \in DOMAIN turns' /\ turns'[proc[p].turn] = turns[proc[p].turn]
    <3> DEFINE turn == Message(p, s, "failure")
    <3>1. turn \in TurnType /\ turn.of = p /\ turn.kind = "failure"
          /\ turns' = Append(turns, turn)
      BY <1>6, <2>2
    <3> HIDE DEF turn
    <3>2. MessagesOf(p, "failure")' = MessagesOf(p, "failure") \cup {Len(turns) + 1}
      BY <1>3, <3>1, MessagesAfter
    <3>3. \A k : k # "failure" => MessagesOf(p, k)' = MessagesOf(p, k)
      BY <1>3, <3>1, MessagesAfter
    <3>4. \A t \in DOMAIN turns : t \in DOMAIN turns' /\ turns'[t] = turns[t]
      BY <1>3, <3>1, MessagesAfter
    <3> QED BY <2>3, <3>2, <3>3, <3>4
  <2>5. Talk(p)'
    <3>1. /\ AtMostOne(MessagesOf(p, "completion")) /\ AtMostOne(MessagesOf(p, "answer"))
          /\ MessagesOf(p, "completion") # {} => proc[p].child # "running"
      BY <1>3 DEF Talk
    <3>2. x \notin Childless \cup {"whom", "fetch", "answer", "failure"}
      OBVIOUS
    <3>3. AtMostOne({Len(turns) + 1})
      BY DEF AtMostOne
    <3> QED BY <1>4, <2>1, <2>3, <2>4, <3>1, <3>2, <3>3 DEF Talk
  <2>6. Aimed(proc'[p])
    BY <1>4, <2>1 DEF Aimed
  <2> QED BY <1>1, <1>4, <1>6, <2>1, <2>2, <2>5, <2>6, TurnStep
<1>7. \/ NoFault /\ turns' = Append(turns, Message(p, s, "failure")) /\ Go(p, "end")
      \/ Fault /\ UNCHANGED turns /\ Go(p, "logged")
      \/ Fault /\ turns' = Append(turns, Message(p, s, "failure")) /\ GoUnsure(p, "logged")
  <2>1. "failure" \in {"ask", "answer", "failure", "completion"} /\ "failure" # "ask"
    OBVIOUS
  <2> QED BY <1>1, <1>2, <2>1, PostOutcomes
<1> QED BY <1>5, <1>6, <1>7

LEMMA PostCompletionKeeps == ASSUME Inv, NEW p \in Procs, PostCompletion(p) PROVE Inv'
<1> DEFINE s == proc[p].to
<1>1. /\ proc[p].pc = "tell" /\ UNCHANGED <<sessions, files>>
      /\ Post(p, s, "completion", "end", "logged")
  BY DEF PostCompletion, At
<1>2. s \in Sids
  BY <1>1, ProcFields DEF Inv, Aimed, Tells
<1>3. turns \in Seq(TurnType) /\ Talk(p)
  BY DEF Inv, Typed, ServiceTyped, Talks
<1> HIDE DEF s
<1>4. ASSUME NEW x \in {"end", "logged"}
      PROVE  /\ x \in Over /\ x \in Pcs /\ Onward(proc[p].pc, x)
             /\ x \notin WritesTo \cup Tells /\ x \notin AskPcs
             /\ proc[p].pc \in AskPcs /\ proc[p].pc \in FailPcs
  BY <1>1 DEF Pcs, Over, Onward, CreatePcs, AskPcs, AnswerPcs, FailPcs, WritesTo, Tells
<1>5. CASE Fault /\ UNCHANGED turns /\ Go(p, "logged")
  BY <1>1, <1>4, <1>5, Ends DEF server
<1>6. ASSUME NEW x \in {"end", "logged"}, NoFault \/ Fault,
             turns' = Append(turns, Message(p, s, "completion")),
             Go(p, x) \/ GoUnsure(p, x)
      PROVE  Inv'
  <2>1. /\ OnlyProc(p) /\ proc'[p].pc = x
        /\ SameAim(proc[p], proc'[p]) /\ SameBook(proc[p], proc'[p])
        /\ proc'[p].child = proc[p].child
    BY <1>2, <1>4, <1>6, Posted
  <2>2. Message(p, s, "completion") \in TurnType /\ Message(p, s, "completion").of = p
        /\ Message(p, s, "completion").kind = "completion"
    BY <1>2 DEF Message, TurnType, Procs
  <2>3. /\ MessagesOf(p, "failure") = {} /\ MessagesOf(p, "answer") = {}
        /\ MessagesOf(p, "completion") = {} /\ proc[p].child # "running"
    BY <1>1, <1>3, <1>4 DEF Talk
  <2>4. /\ MessagesOf(p, "completion")' = {Len(turns) + 1}
        /\ MessagesOf(p, "answer")' = {} /\ MessagesOf(p, "failure")' = {}
    BY <1>3, <1>6, <2>2, <2>3, MessagesAfter
  <2>5. Talk(p)'
    <3>1. x \notin Childless \cup {"whom", "fetch", "answer", "failure"}
      OBVIOUS
    <3>2. AtMostOne({Len(turns) + 1}) /\ AtMostOne({})
      BY DEF AtMostOne
    <3> QED BY <1>4, <2>1, <2>3, <2>4, <3>1, <3>2 DEF Talk
  <2>6. Aimed(proc'[p])
    BY <1>4, <2>1 DEF Aimed
  <2>7. proc[p].pc \notin {"print", "killed"}
    BY <1>1
  <2> QED BY <1>1, <1>4, <1>6, <2>1, <2>2, <2>5, <2>6, <2>7, TurnStep
<1>7. \/ NoFault /\ turns' = Append(turns, Message(p, s, "completion")) /\ Go(p, "end")
      \/ Fault /\ UNCHANGED turns /\ Go(p, "logged")
      \/ Fault /\ turns' = Append(turns, Message(p, s, "completion")) /\ GoUnsure(p, "logged")
  <2>1. "completion" \in {"ask", "answer", "failure", "completion"} /\ "completion" # "ask"
    OBVIOUS
  <2> QED BY <1>1, <1>2, <2>1, PostOutcomes
<1> QED BY <1>5, <1>6, <1>7

-----------------------------------------------------------------------------
(* Runners: who is to be told, and what is waited for.                     *)

\* A step that finds out which session to tell.
LEMMA FindsWhom ==
  ASSUME Inv, NEW p \in Procs, NEW x \in {"fetch", "idle"},
         GoWithTo(p, x, discoverSessionId(proc[p].call)),
         UNCHANGED <<server, files>>, NoFault \/ Fault,
         x = "fetch" => proc[p].pc = "whom",
         x = "idle" => proc[p].pc = "schedule" /\ proc[p].child # "running"
  PROVE  Inv'
<1> DEFINE s == discoverSessionId(proc[p].call)
<1>1. s \in Sids
  BY SessionFound DEF Inv
<1>2. x \in Pcs /\ Onward(proc[p].pc, x) /\ x \notin WritesTo
  BY DEF Pcs, Onward, CreatePcs, AskPcs, AnswerPcs, FailPcs, WritesTo
<1> HIDE DEF s
<1>3. /\ OnlyProc(p) /\ proc'[p].pc = x /\ proc'[p].to = s
      /\ proc'[p].target = proc[p].target
      /\ proc'[p].roles = proc[p].roles /\ SameTalk(proc[p], proc'[p])
      /\ SameBook(proc[p], proc'[p])
  <2>1. GoWithTo(p, x, s) /\ s \in {0} \cup Sids
    BY <1>1 DEF s
  <2> QED BY <1>2, <2>1, StepsToTo, ProcFields DEF Inv
<1>4. Aimed(proc'[p]) /\ OneEach(proc'[p].roles)
  BY <1>1, <1>2, <1>3, ProcFields DEF Inv, Aimed
<1> QED BY <1>2, <1>3, <1>4, QuietStep DEF SameTalk

LEMMA StartRespondKeeps == ASSUME Inv, NEW p \in Procs, StartRespond(p) PROVE Inv'
<1>1. proc[p].pc = "whom" /\ UNCHANGED <<server, files>>
  BY DEF StartRespond, At
<1>2. CASE NoFault /\ GoWithTo(p, "fetch", discoverSessionId(proc[p].call))
  BY <1>1, <1>2, FindsWhom
<1>3. CASE Fault /\ Go(p, GiveUp(p))
  BY <1>1, <1>3, Ends, OverIsOver
<1> QED BY <1>2, <1>3 DEF StartRespond, GoWithTo

LEMMA StartReviewKeeps == ASSUME Inv, NEW p \in Procs, StartReview(p) PROVE Inv'
<1>1. proc[p].pc = "schedule" /\ UNCHANGED <<server, files>>
  BY DEF StartReview, At
<1>2. "exit" \in Over
  BY DEF Over
<1>3. CASE NoFault /\ GoWithTo(p, "idle", discoverSessionId(proc[p].call))
  <2>1. proc[p].child # "running"
    BY <1>1 DEF Inv, Talks, Talk
  <2> QED BY <1>1, <1>3, <2>1, FindsWhom
<1>4. CASE Fault /\ Go(p, "exit")
  BY <1>1, <1>2, <1>4, Ends
<1> QED BY <1>3, <1>4 DEF StartReview, GoWithTo

LEMMA FetchConversationKeeps == ASSUME Inv, NEW p \in Procs, FetchConversation(p) PROVE Inv'
<1> DEFINE t == turns[proc[p].turn]
<1>1. proc[p].pc = "fetch" /\ UNCHANGED <<server, files>> /\ (NoFault \/ Fault)
  BY DEF FetchConversation, At
<1>2. PICK x \in {"answer", "logged", "failure"} : Go(p, x) /\ (x = "answer" => t.said)
  BY DEF FetchConversation, extractFinalAssistantMessage
<1>3. x \in Pcs /\ Onward(proc[p].pc, x) /\ x \notin WritesTo
  BY <1>1, <1>2 DEF Pcs, Over, Onward, CreatePcs, AskPcs, AnswerPcs, FailPcs, WritesTo
<1>4. proc[p].to \in Sids
  BY <1>1, ProcFields DEF Inv, Aimed, Tells
<1> QED BY <1>1, <1>2, <1>3, <1>4, GoesOn

\* The command is started, or was not, and is of the session s.
LEMMA ChildKeeps ==
  ASSUME Inv, NEW p \in Procs, NEW x \in {"run", "idle"}, NEW c \in {"running", "ended"},
         NEW s \in Sids, proc[p].pc = "start", UNCHANGED <<server, files>>,
         x = "idle" => c = "ended", NoFault \/ Fault, GoWithChild(p, x, c, s)
  PROVE  Inv'
<1>1. x \in Pcs /\ Onward(proc[p].pc, x) /\ x \notin WritesTo
  BY DEF Pcs, Onward, CreatePcs, AskPcs, AnswerPcs, FailPcs, WritesTo
<1>2. /\ OnlyProc(p) /\ proc'[p].pc = x /\ proc'[p].child = c /\ proc'[p].to = s
      /\ proc'[p].target = proc[p].target
      /\ proc'[p].roles = proc[p].roles /\ proc'[p].turn = proc[p].turn
      /\ proc'[p].unsure = proc[p].unsure /\ SameBook(proc[p], proc'[p])
  <2>1. s \in {0} \cup Sids
    OBVIOUS
  <2>2. ProcsTyped
    BY ProcFields DEF Inv
  <2>3. x \in Pcs
    BY <1>1
  <2> QED BY <2>1, <2>2, <2>3, StepsToChild
<1>3. Aimed(proc'[p]) /\ OneEach(proc'[p].roles)
  BY <1>1, <1>2, ProcFields DEF Inv, Aimed
<1> QED BY <1>1, <1>2, <1>3, QuietStep

LEMMA StartCommandKeeps == ASSUME Inv, NEW p \in Procs, StartCommand(p) PROVE Inv'
<1> DEFINE s == discoverSessionId(proc[p].call)
<1>1. proc[p].pc = "start" /\ UNCHANGED <<server, files>>
  BY DEF StartCommand, At
<1>2. ASSUME NEW x \in {"run", "idle"}, NEW c \in {"running", "ended"},
             x = "idle" => c = "ended", NoFault \/ Fault, GoWithChild(p, x, c, s)
      PROVE  Inv'
  <2>1. s \in Sids
    BY SessionFound DEF Inv
  <2> HIDE DEF s
  <2> QED BY <1>1, <1>2, <2>1, ChildKeeps
<1>3. "exit" \in Over
  BY DEF Over
<1>4. CASE NoFault /\ GoWithChild(p, "run", "running", s)
  BY <1>2, <1>4
<1>5. CASE Fault /\ GoWithChild(p, "idle", "ended", s)
  BY <1>2, <1>5
<1>6. CASE Fault /\ Go(p, "exit")
  BY <1>1, <1>3, <1>6, Ends
<1> QED BY <1>4, <1>5, <1>6 DEF StartCommand, GoWithChild

\* The command of a callback is over.
LEMMA ChildEndsKeeps ==
  ASSUME Inv, NEW p \in Procs, proc[p].pc = "run", EndChild(p),
         UNCHANGED <<server, files, faults>>
  PROVE  Inv'
<1>1. /\ OnlyProc(p)
      /\ proc'[p].child = "ended" /\ proc'[p].pc = "run"
      /\ proc'[p].turn = proc[p].turn /\ proc'[p].unsure = proc[p].unsure
      /\ SameAim(proc[p], proc'[p]) /\ SameBook(proc[p], proc'[p])
  BY ChildEnds, ProcFields DEF Inv
<1>2. Aimed(proc'[p]) /\ OneEach(proc'[p].roles) /\ Onward(proc[p].pc, proc'[p].pc)
  BY <1>1, ProcFields DEF Inv, Aimed, SameAim, Onward
<1> QED BY <1>1, <1>2, QuietStep DEF NoFault

LEMMA CommandEndsKeeps == ASSUME Inv, NEW p \in Procs, CommandEnds(p) PROVE Inv'
  BY ChildEndsKeeps DEF CommandEnds, At, EndChild

LEMMA CommandKillKeeps == ASSUME Inv, NEW p \in Procs, CommandKill(p) PROVE Inv'
  BY ChildEndsKeeps DEF CommandKill, At, EndChild

LEMMA CommandTimeoutKeeps == ASSUME Inv, NEW p \in Procs, CommandTimeout(p) PROVE Inv'
<1>1. proc[p].pc = "run" /\ TimeOut(p) /\ UNCHANGED <<server, files, faults>>
  BY DEF CommandTimeout, At, TimeOut
<1>2. /\ OnlyProc(p) /\ proc'[p].pc = proc[p].pc
      /\ SameAim(proc[p], proc'[p]) /\ SameTalk(proc[p], proc'[p])
      /\ SameBook(proc[p], proc'[p])
  BY <1>1, TimesOut, ProcFields DEF Inv
<1>3. Aimed(proc'[p]) /\ OneEach(proc'[p].roles) /\ Onward(proc[p].pc, proc'[p].pc)
  BY <1>2, ProcFields DEF Inv, Aimed, SameAim, Onward
<1> QED BY <1>1, <1>2, <1>3, QuietStep DEF NoFault, SameTalk

LEMMA CommandClosedKeeps == ASSUME Inv, NEW p \in Procs, CommandClosed(p) PROVE Inv'
<1>1. /\ proc[p].pc = "run" /\ proc[p].child = "ended" /\ Go(p, "idle")
      /\ UNCHANGED <<server, files, faults>>
  BY DEF CommandClosed, At
<1>2. proc[p].to \in Sids
  BY <1>1, ProcFields DEF Inv, Aimed, Tells
<1>3. "idle" \in Pcs /\ Onward(proc[p].pc, "idle") /\ "idle" \notin WritesTo
  BY <1>1 DEF Pcs, Onward, CreatePcs, AskPcs, AnswerPcs, FailPcs, WritesTo
<1> QED BY <1>1, <1>2, <1>3, GoesOn DEF NoFault

\* A runner that waits for its session goes on, or waits again.
LEMMA WaitsKeep ==
  ASSUME Inv, NEW p \in Procs, proc[p].pc \in {"idle", "quiet"},
         NEW x \in {"idle", "quiet", "tell", "send", "logged"}, Go(p, x),
         x = "tell" => proc[p].pc = "idle",
         UNCHANGED <<server, files>>, NoFault \/ Fault
  PROVE  Inv'
<1>1. proc[p].to \in Sids
  BY ProcFields DEF Inv, Aimed, Tells
<1>2. Talk(p)
  BY DEF Inv, Talks
<1>3. proc[p].child # "running"
  BY <1>2 DEF Talk
<1>4. x \in Pcs /\ Onward(proc[p].pc, x) /\ x \notin WritesTo
  BY DEF Pcs, Over, Onward, CreatePcs, AskPcs, AnswerPcs, FailPcs, WritesTo
<1> QED BY <1>1, <1>3, <1>4, GoesOn

LEMMA IdleKeeps == ASSUME Inv, NEW p \in Procs, waitForSessionIdle(p) PROVE Inv'
<1>1. PICK x \in {"quiet", "tell", "logged"} :
        /\ proc[p].pc = "idle" /\ Go(p, x)
        /\ UNCHANGED <<server, files>> /\ (NoFault \/ Fault)
  BY DEF waitForSessionIdle, At
<1> QED BY <1>1, WaitsKeep

LEMMA QuietKeeps == ASSUME Inv, NEW p \in Procs, waitForSessionQuiet(p) PROVE Inv'
<1>1. PICK x \in {"idle", "send", "logged"} :
        /\ proc[p].pc = "quiet" /\ Go(p, x)
        /\ UNCHANGED <<server, files>> /\ (NoFault \/ Fault)
  BY DEF waitForSessionQuiet, At
<1> QED BY <1>1, WaitsKeep

-----------------------------------------------------------------------------
(* Summaries.                                                              *)

SummaryPcs == {"pager", "exclude", "list", "collect", "print"}

\* A step of a summary, or of exclude-me: the service is not asked to change
\* anything, and there are no messages.
LEMMA SummaryStep ==
  ASSUME Inv, NEW p \in Procs, OnlyProc(p), UNCHANGED <<server, file>>,
         NoFault \/ Fault,
         proc[p].pc \in SummaryPcs, proc'[p].pc \in SummaryPcs \cup {"end"},
         SameAim(proc[p], proc'[p]), SameTalk(proc[p], proc'[p]),
         pager' \in Pagers, shown' \in [Readers -> SUBSET Turns],
         Books'
  PROVE  Inv'
<1>1. UNCHANGED <<sessions, turns, file>>
  BY DEF server
<1>2. /\ Onward(proc[p].pc, proc'[p].pc)
      /\ proc'[p].pc \notin WritesTo \cup Tells
      /\ proc'[p].pc \notin Childless \cup {"whom", "fetch", "answer", "failure"}
  BY DEF SummaryPcs, Onward, CreatePcs, AskPcs, AnswerPcs, FailPcs, WritesTo, Tells
<1>3. Rooms'
  BY <1>1, <1>2, RoomsStay DEF Inv
<1>4. ServiceTyped'
  <2>1. faults' \in 0..MaxFaults
    BY DEF Inv, Typed, ServiceTyped, NoFault, Fault
  <2>2. \A q \in Procs : proc'[q].call = proc[q].call
    BY DEF OnlyProc, SameCall
  <2> QED BY <1>1, <2>1, <2>2 DEF Inv, Typed, ServiceTyped
<1>5. FilesTyped' /\ OneEach(file') /\ OneEach(proc'[p].roles)
  BY <1>1, ProcFields DEF Inv, Typed, FilesTyped, OneRole, SameAim
<1>6. Aimed(proc'[p])
  BY <1>2 DEF Aimed
<1>7. Typed'
  BY <1>3, <1>4, <1>5, <1>6, TypedStays DEF Inv
<1>8. Talks'
  BY <1>1, <1>2, TalksStay DEF Inv, SameTalk
<1> QED BY <1>7, <1>8 DEF Inv

\* The types of the files, where nothing writes them.
LEMMA FilesAre == ASSUME Inv PROVE pager \in Pagers /\ shown \in [Readers -> SUBSET Turns]
  BY DEF Inv, Typed, FilesTyped

LEMMA ReadPagerKeeps == ASSUME Inv, NEW p \in Procs, ReadPager(p) PROVE Inv'
<1>1. proc[p].pc = "pager" /\ UNCHANGED <<server, file, pager, shown, faults>>
  BY DEF ReadPager, At, files
<1>2. PICK x \in {"exclude", "list"} : GoWithImage(p, x, pager)
  BY DEF ReadPager, GoWithImage
<1>3. /\ OnlyProc(p)
      /\ proc'[p].image = pager /\ proc'[p].pc = x
      /\ proc'[p].got = proc[p].got /\ SameAim(proc[p], proc'[p])
      /\ SameTalk(proc[p], proc'[p])
  <2>1. x \in Pcs
    BY DEF Pcs
  <2> QED BY <1>2, <2>1, FilesAre, StepsToImage, ProcFields DEF Inv
<1>4. Books'
  <2> SUFFICES ASSUME NEW r \in Readers
               PROVE  /\ pager'.seen[r] \subseteq Due(r)'
                      /\ \A q \in Procs : proc'[q].image.seen[r] \subseteq Due(r)'
    BY DEF Books
  <2>1. Due(r) \subseteq Due(r)'
    BY <1>1, <1>3, DueStays, ProcFields DEF Inv
  <2>2. pager.seen[r] \subseteq Due(r)
    BY DEF Inv, Books
  <2>3. ASSUME NEW q \in Procs PROVE proc'[q].image.seen[r] \subseteq Due(r)
    <3>1. proc[q].image.seen[r] \subseteq Due(r)
      BY DEF Inv, Books
    <3>2. proc'[q].image = pager \/ proc'[q].image = proc[q].image
      BY <1>3 DEF OnlyProc
    <3> QED BY <2>2, <3>1, <3>2
  <2> QED BY <1>1, <2>1, <2>2, <2>3
<1>5. proc[p].pc \in SummaryPcs /\ x \in SummaryPcs
  BY <1>1 DEF SummaryPcs
<1> QED BY <1>1, <1>3, <1>4, <1>5, FilesAre, SummaryStep DEF NoFault

LEMMA ListSessionsKeeps == ASSUME Inv, NEW p \in Procs, ListSessions(p) PROVE Inv'
<1>1. proc[p].pc = "list" /\ UNCHANGED <<server, files>>
  BY DEF ListSessions, At
<1>2. CASE Fault /\ Go(p, "exit")
  <2>1. "exit" \in Over
    BY DEF Over
  <2> QED BY <1>1, <1>2, <2>1, Ends
<1>3. ASSUME NoFault, NEW todo \in SUBSET Sids, GoWithTodo(p, "collect", todo)
      PROVE  Inv'
  <2>1. /\ OnlyProc(p) /\ proc'[p].pc = "collect"
        /\ SameAim(proc[p], proc'[p]) /\ SameTalk(proc[p], proc'[p])
        /\ SameBook(proc[p], proc'[p])
    <3>1. "collect" \in Pcs
      BY DEF Pcs
    <3> QED BY <1>3, <3>1, StepsToTodo, ProcFields DEF Inv
  <2>2. UNCHANGED <<file, pager, shown>>
    BY <1>1 DEF files
  <2>3. Books'
    BY <1>1, <2>1, <2>2, BooksStay DEF Inv
  <2>4. proc[p].pc \in SummaryPcs /\ proc'[p].pc \in SummaryPcs
    BY <1>1, <2>1 DEF SummaryPcs
  <2> QED BY <1>1, <1>3, <2>1, <2>2, <2>3, <2>4, FilesAre, SummaryStep
<1>4. DOMAIN sessions \subseteq Sids
  BY RoomLeft DEF Inv, Typed, ServiceTyped, Sids
<1> DEFINE todo == (DOMAIN sessions \ proc[p].image.excluded)
                     \ IF proc[p].call.knows THEN {proc[p].call.by} ELSE {}
<1>5. CASE NoFault /\ GoWithTodo(p, "collect", todo)
  <2>1. todo \in SUBSET Sids
    BY <1>4
  <2> HIDE DEF todo
  <2> QED BY <1>3, <1>5, <2>1
<1> QED BY <1>2, <1>5 DEF ListSessions, GoWithTodo

LEMMA CollectTurnsKeeps == ASSUME Inv, NEW p \in Procs, CollectTurns(p) PROVE Inv'
<1>1. proc[p].pc = "collect" /\ UNCHANGED <<server, files>>
  BY DEF CollectTurns, At
<1>2. CASE Fault /\ Go(p, "exit")
  <2>1. "exit" \in Over
    BY DEF Over
  <2> QED BY <1>1, <1>2, <2>1, Ends
<1>3. ASSUME NoFault, NEW got \in SUBSET Turns, NEW todo \in SUBSET Sids, Collect(p, got, todo)
      PROVE  Inv'
  <2>1. /\ OnlyProc(p)
        /\ proc'[p].got = got /\ proc'[p].todo = todo
        /\ proc'[p].pc = proc[p].pc /\ proc'[p].image = proc[p].image
        /\ SameAim(proc[p], proc'[p]) /\ SameTalk(proc[p], proc'[p])
    BY <1>3, StepsToGot, ProcFields DEF Inv
  <2>2. UNCHANGED <<file, pager, shown>>
    BY <1>1 DEF files
  <2>3. Books'
    <3> SUFFICES ASSUME NEW r \in Readers
                 PROVE  /\ pager'.seen[r] \subseteq Due(r)'
                        /\ \A q \in Procs : proc'[q].image.seen[r] \subseteq Due(r)'
      BY DEF Books
    <3>1. Due(r) \subseteq Due(r)'
      BY <1>1, <2>1, <2>2, DueStays, ProcFields DEF Inv
    <3>2. \A q \in Procs : proc'[q].image = proc[q].image
      BY <2>1 DEF OnlyProc
    <3> QED BY <2>2, <3>1, <3>2 DEF Inv, Books
  <2>4. proc[p].pc \in SummaryPcs /\ proc'[p].pc \in SummaryPcs
    BY <1>1, <2>1 DEF SummaryPcs
  <2> QED BY <1>1, <1>3, <2>1, <2>2, <2>3, <2>4, FilesAre, SummaryStep
<1>4. CASE Fault /\ proc[p].todo # {} /\ Go(p, "exit")
  BY <1>2, <1>4
<1>5. ASSUME NoFault, NEW s \in proc[p].todo,
             LET room == LimitTurns - Cardinality(proc[p].got)
                 got  == proc[p].got \cup First(Fresh(p, s), room)
             IN  proc' = [proc EXCEPT ![p].got = got,
                             ![p].todo = IF Cardinality(got) >= LimitTurns
                                         THEN {} ELSE @ \ {s}]
      PROVE  Inv'
  <2> DEFINE room == LimitTurns - Cardinality(proc[p].got)
             got  == proc[p].got \cup First(Fresh(p, s), room)
             todo == IF Cardinality(got) >= LimitTurns THEN {} ELSE proc[p].todo \ {s}
  <2>1. proc[p].got \in SUBSET Turns /\ proc[p].todo \in SUBSET Sids
    BY ProcFields DEF Inv, ProcType
  <2>2. First(Fresh(p, s), room) \subseteq DOMAIN turns
    BY DEF First, Fresh, TurnsOf
  <2>3. DOMAIN turns \subseteq Turns
    BY RoomLeft DEF Inv, Typed, ServiceTyped, Turns
  <2>4. got \in SUBSET Turns /\ todo \in SUBSET Sids
    BY <2>1, <2>2, <2>3
  <2>5. Collect(p, got, todo)
    <3>1. proc \in [Procs -> ProcType]
      BY DEF Inv, Typed, ProcsTyped
    <3>2. proc' = [proc EXCEPT ![p] = [proc[p] EXCEPT !.got = got, !.todo = todo]]
      BY <1>5, <3>1, Zenon
    <3> QED BY <3>2, Zenon DEF Collect
  <2> HIDE DEF got, todo
  <2> QED BY <1>3, <1>5, <2>4, <2>5
<1> QED BY <1>4, <1>5 DEF CollectTurns

LEMMA ExcludeMeKeeps == ASSUME Inv, NEW p \in Procs, ExcludeMe(p) PROVE Inv'
<1> DEFINE s == discoverSessionId(proc[p].call)
<1>1. /\ proc[p].pc = "exclude" /\ UNCHANGED <<server, file, shown, faults>> /\ Go(p, "end")
      /\ pager' = [proc[p].image EXCEPT !.excluded = @ \cup {s}]
  BY DEF ExcludeMe, At
<1>2. s \in Sids /\ proc[p].image \in Pagers
  BY SessionFound, ProcFields DEF Inv, ProcType
<1> HIDE DEF s
<1>3. pager' \in Pagers /\ pager'.seen = proc[p].image.seen
  BY <1>1, <1>2 DEF Pagers
<1>4. /\ OnlyProc(p) /\ proc'[p].pc = "end"
      /\ SameAim(proc[p], proc'[p]) /\ SameTalk(proc[p], proc'[p])
      /\ SameBook(proc[p], proc'[p])
  <2>1. "end" \in Pcs
    BY DEF Pcs, Over
  <2> QED BY <1>1, <2>1, StepsTo, ProcFields DEF Inv, Go
<1>5. Books'
  <2> SUFFICES ASSUME NEW r \in Readers
               PROVE  /\ pager'.seen[r] \subseteq Due(r)'
                      /\ \A q \in Procs : proc'[q].image.seen[r] \subseteq Due(r)'
    BY DEF Books
  <2>1. Due(r) \subseteq Due(r)'
    BY <1>1, <1>4, DueStays, ProcFields DEF Inv
  <2>2. \A q \in Procs : proc'[q].image = proc[q].image
    BY <1>4 DEF OnlyProc, SameBook
  <2> QED BY <1>3, <2>1, <2>2 DEF Inv, Books
<1>6. proc[p].pc \in SummaryPcs
  BY <1>1 DEF SummaryPcs
<1> QED BY <1>1, <1>3, <1>4, <1>5, <1>6, FilesAre, SummaryStep DEF NoFault

\* The reader whom a summary is for.
LEMMA ReaderIs == ASSUME Inv, NEW p \in Procs PROVE getReaderId(proc[p].call) \in Readers
<1>1. proc[p].call.by \in Sids
  BY ProcFields DEF Inv, CallType
<1> QED BY <1>1 DEF getReaderId, Readers, Sids

LEMMA WritePagerKeeps == ASSUME Inv, NEW p \in Procs, WritePager(p) PROVE Inv'
<1> DEFINE me == getReaderId(proc[p].call)
<1>1. /\ proc[p].pc = "collect" /\ UNCHANGED <<server, file, shown, faults>> /\ Go(p, "print")
      /\ pager' = [proc[p].image EXCEPT !.seen[me] = @ \cup proc[p].got]
  BY DEF WritePager, At
<1>2. /\ me \in Readers /\ proc[p].image \in Pagers
      /\ proc[p].got \in SUBSET Turns
  BY ReaderIs, ProcFields DEF Inv, ProcType
<1> HIDE DEF me
<1>3. /\ pager' \in Pagers
      /\ pager'.seen[me] = proc[p].image.seen[me] \cup proc[p].got
      /\ \A r \in Readers \ {me} : pager'.seen[r] = proc[p].image.seen[r]
  BY <1>1, <1>2 DEF Pagers
<1>4. /\ OnlyProc(p) /\ proc'[p].pc = "print"
      /\ SameAim(proc[p], proc'[p]) /\ SameTalk(proc[p], proc'[p])
      /\ SameBook(proc[p], proc'[p])
  <2>1. "print" \in Pcs
    BY DEF Pcs
  <2> QED BY <1>1, <2>1, StepsTo, ProcFields DEF Inv, Go
<1>5. Books'
  <2> SUFFICES ASSUME NEW r \in Readers
               PROVE  /\ pager'.seen[r] \subseteq Due(r)'
                      /\ \A q \in Procs : proc'[q].image.seen[r] \subseteq Due(r)'
    BY DEF Books
  <2>1. Due(r) \subseteq Due(r)'
    BY <1>1, <1>4, DueStays, ProcFields DEF Inv
  <2>2. \A q \in Procs : proc'[q].image = proc[q].image
    BY <1>4 DEF OnlyProc, SameBook
  <2>3. proc[p].image.seen[r] \subseteq Due(r)
    BY DEF Inv, Books
  <2>4. CASE r = me
    <3>1. getReaderId(proc'[p].call) = me /\ proc'[p].got = proc[p].got
      BY <1>4 DEF OnlyProc, SameCall, SameBook, me, getReaderId
    <3>2. proc[p].got \subseteq Due(r)'
      BY <1>4, <2>4, <3>1 DEF Due
    <3> QED BY <1>3, <2>1, <2>2, <2>3, <2>4, <3>2 DEF Inv, Books
  <2>5. CASE r # me
    BY <1>3, <2>1, <2>2, <2>3, <2>5 DEF Inv, Books
  <2> QED BY <2>4, <2>5
<1>6. proc[p].pc \in SummaryPcs /\ proc'[p].pc \in SummaryPcs
  BY <1>1, <1>4 DEF SummaryPcs
<1> QED BY <1>1, <1>3, <1>4, <1>5, <1>6, FilesAre, SummaryStep DEF NoFault

LEMMA PrintSummaryKeeps == ASSUME Inv, NEW p \in Procs, PrintSummary(p) PROVE Inv'
<1> DEFINE me == getReaderId(proc[p].call)
<1>1. /\ proc[p].pc = "print" /\ UNCHANGED <<server, file, pager, faults>> /\ Go(p, "end")
      /\ shown' = [shown EXCEPT ![me] = @ \cup proc[p].got]
  BY DEF PrintSummary, At
<1>2. me \in Readers /\ proc[p].got \in SUBSET Turns
  BY ReaderIs, ProcFields DEF Inv, ProcType
<1> HIDE DEF me
<1>3. /\ shown' \in [Readers -> SUBSET Turns]
      /\ shown'[me] = shown[me] \cup proc[p].got
      /\ \A r \in Readers : shown[r] \subseteq shown'[r]
  BY <1>1, <1>2, FilesAre
<1>4. /\ OnlyProc(p) /\ proc'[p].pc = "end"
      /\ SameAim(proc[p], proc'[p]) /\ SameTalk(proc[p], proc'[p])
      /\ SameBook(proc[p], proc'[p])
  <2>1. "end" \in Pcs
    BY DEF Pcs, Over
  <2> QED BY <1>1, <2>1, StepsTo, ProcFields DEF Inv, Go
<1>5. Books'
  <2> SUFFICES ASSUME NEW r \in Readers
               PROVE  /\ pager'.seen[r] \subseteq Due(r)'
                      /\ \A q \in Procs : proc'[q].image.seen[r] \subseteq Due(r)'
    BY DEF Books
  <2>1. me = r => proc[p].got \subseteq shown'[r]
    BY <1>3
  <2>2. Due(r) \subseteq Due(r)'
    BY <1>1, <1>3, <1>4, <2>1, DueStays, ProcFields DEF Inv, me
  <2>3. \A q \in Procs : proc'[q].image = proc[q].image
    BY <1>4 DEF OnlyProc, SameBook
  <2> QED BY <1>1, <2>2, <2>3 DEF Inv, Books
<1>6. proc[p].pc \in SummaryPcs
  BY <1>1 DEF SummaryPcs
<1> QED BY <1>1, <1>3, <1>4, <1>5, <1>6, FilesAre, SummaryStep DEF NoFault

-----------------------------------------------------------------------------
(* Turns, which agents end.                                                *)

\* A turn changes, and is still the message that it was.
LEMMA TurnChanges ==
  ASSUME Inv, NEW t \in DOMAIN turns, NEW new \in TurnType,
         new.of = turns[t].of, new.kind = turns[t].kind, turns[t].said => new.said,
         turns' = [turns EXCEPT ![t] = new],
         UNCHANGED <<sessions, file, pager, proc, shown>>, NoFault \/ Fault
  PROVE  Inv'
<1>1. turns \in Seq(TurnType)
  BY DEF Inv, Typed, ServiceTyped
<1>2. turns' \in Seq(TurnType) /\ Len(turns') = Len(turns) /\ DOMAIN turns' = DOMAIN turns
  BY <1>1, ExceptSeq
<1>3. turns'[t] = new /\ \A u \in DOMAIN turns : u # t => turns'[u] = turns[u]
  BY <1>1
<1>4. Typed'
  <2>1. Rooms'
    BY <1>2 DEF Inv, Typed, Rooms, Where
  <2>2. faults' \in 0..MaxFaults
    BY DEF Inv, Typed, ServiceTyped, NoFault, Fault
  <2>3. ServiceTyped'
    BY <1>2, <2>2 DEF Inv, Typed, ServiceTyped
  <2>4. ProcsTyped' /\ FilesTyped' /\ OneRole' /\ \A q \in Procs : Aimed(proc'[q])
    BY DEF Inv, Typed, ProcsTyped, FilesTyped, OneRole
  <2> QED BY <2>1, <2>3, <2>4 DEF Typed
<1>5. Talks'
  <2> SUFFICES ASSUME NEW q \in Procs PROVE Talk(q)'
    BY DEF Talks
  <2>1. \A k : MessagesOf(q, k)' = MessagesOf(q, k)
    BY <1>2, <1>3 DEF MessagesOf
  <2>2. \A u \in DOMAIN turns : turns[u].said => turns'[u].said
    BY <1>3, Zenon
  <2>3. proc'[q] = proc[q] /\ Talk(q)
    BY DEF Inv, Talks
  <2> QED BY <1>2, <2>1, <2>2, <2>3 DEF Talk
<1>6. Books'
  BY DEF Inv, Books, Due, getReaderId
<1> QED BY <1>4, <1>5, <1>6 DEF Inv

LEMMA SayKeeps == ASSUME Inv, NEW t \in DOMAIN turns, Say(t) PROVE Inv'
<1> DEFINE new == [turns[t] EXCEPT !.said = TRUE]
<1>1. turns[t] \in TurnType
  BY DEF Inv, Typed, ServiceTyped
<1>2. new \in TurnType /\ new.of = turns[t].of /\ new.kind = turns[t].kind /\ new.said
  BY <1>1, Zenon DEF TurnType
<1>3. turns' = [turns EXCEPT ![t] = new]
  BY Zenon DEF Say
<1>4. UNCHANGED <<sessions, file, pager, proc, shown>> /\ NoFault
  BY DEF Say, NoFault
<1> HIDE DEF new
<1> QED BY <1>2, <1>3, <1>4, TurnChanges

\* A turn that is over, or dropped, has another status.
LEMMA StatusKeeps ==
  ASSUME Inv, NEW t \in DOMAIN turns, NEW status \in {"ended", "dropped"},
         turns' = [turns EXCEPT ![t].status = status],
         UNCHANGED <<sessions, file, pager, proc, shown>>, NoFault \/ Fault
  PROVE  Inv'
<1> DEFINE new == [turns[t] EXCEPT !.status = status]
<1>1. turns[t] \in TurnType
  BY DEF Inv, Typed, ServiceTyped
<1>2. /\ new \in TurnType /\ new.of = turns[t].of /\ new.kind = turns[t].kind
      /\ new.said = turns[t].said
  BY <1>1, Zenon DEF TurnType
<1>3. turns' = [turns EXCEPT ![t] = new]
  BY Zenon
<1> HIDE DEF new
<1> QED BY <1>2, <1>3, TurnChanges

LEMMA AgentsKeep == ASSUME Inv, Agents PROVE Inv'
<1>1. ASSUME NEW t \in DOMAIN turns, EndTurn(t) PROVE Inv'
  BY <1>1, StatusKeeps DEF EndTurn, NoFault
<1>2. ASSUME NEW t \in DOMAIN turns, Drop(t) PROVE Inv'
  BY <1>2, StatusKeeps DEF Drop, Fault
<1> QED BY <1>1, <1>2, SayKeeps, CommandEndsKeeps DEF Agents

-----------------------------------------------------------------------------
(* The invariant.                                                          *)

LEMMA ToCallTyped == ASSUME NEW c \in CallType PROVE ToCall(c) \in ProcType
<1>1. [s \in Sids |-> NoRole] \in RoleFiles
  BY DEF RoleFiles
<1>2. [seen |-> [r \in Readers |-> {}], excluded |-> {}] \in Pagers
  BY DEF Pagers
<1>3. "none" \in Pcs
  BY DEF Pcs
<1> QED BY <1>1, <1>2, <1>3 DEF ToCall, ProcType

LEMMA InitInv == Init => Inv
<1> SUFFICES ASSUME Init PROVE Inv
  OBVIOUS
<1>1. PICK st \in Starts :
          /\ sessions = [s \in DOMAIN st.executors |->
                            [executor |-> st.executors[s], name |-> NoRole]]
          /\ turns = [s \in DOMAIN st.executors |->
                         [session |-> s, kind |-> "user", of |-> 0,
                          status |-> st.status[s], said |-> FALSE]]
          /\ proc = [p \in Procs |-> ToCall(st.calls[p])]
  BY DEF Init
<1> DEFINE n == Len(st.executors)
<1>2. /\ n \in Nat /\ DOMAIN st.executors = 1..n
      /\ \A s \in 1..n : st.executors[s] \in Executors /\ st.status[s] \in {"running", "ended"}
      /\ n + MaxCalls <= MaxSessions /\ n + 3 * MaxCalls <= MaxTurns
      /\ \A p \in Procs : st.calls[p] \in CallType /\ st.calls[p].by \in 1..n
  <2>1. /\ st.executors \in Seq(Executors)
        /\ st.status \in [DOMAIN st.executors -> {"running", "ended"}]
        /\ st.calls \in [Procs -> CallType]
        /\ \A p \in Procs : st.calls[p].by \in DOMAIN st.executors
        /\ n + MaxCalls <= MaxSessions /\ n + 3 * MaxCalls <= MaxTurns
    BY Zenon
  <2>2. n \in Nat /\ DOMAIN st.executors = 1..n
    BY <2>1
  <2>3. \A s \in 1..n : st.executors[s] \in Executors /\ st.status[s] \in {"running", "ended"}
    BY <2>1, <2>2
  <2> QED BY <2>1, <2>2, <2>3
<1> HIDE DEF n
<1>3. \A s \in 1..n : s \in Sids
  BY <1>2 DEF Sids
<1>4. sessions \in Seq(SessionType) /\ Len(sessions) = n
  <2>1. \A s \in 1..n : [executor |-> st.executors[s], name |-> NoRole] \in SessionType
    BY <1>2 DEF SessionType
  <2>2. sessions = [s \in 1..n |-> [executor |-> st.executors[s], name |-> NoRole]]
    BY <1>1, <1>2
  <2> DEFINE el(s) == [executor |-> st.executors[s], name |-> NoRole]
  <2>3. sessions = [s \in 1..n |-> el(s)] /\ \A s \in 1..n : el(s) \in SessionType
    BY <2>1, <2>2
  <2> HIDE DEF el
  <2> QED BY <1>2, <2>3
<1>5. turns \in Seq(TurnType) /\ Len(turns) = n
  <2>1. \A s \in 1..n :
          [session |-> s, kind |-> "user", of |-> 0, status |-> st.status[s], said |-> FALSE]
            \in TurnType
    BY <1>2, <1>3 DEF TurnType
  <2> DEFINE el(s) == [session |-> s, kind |-> "user", of |-> 0,
                       status |-> st.status[s], said |-> FALSE]
  <2>2. turns = [s \in 1..n |-> el(s)] /\ \A s \in 1..n : el(s) \in TurnType
    BY <1>1, <1>2, <2>1
  <2> HIDE DEF el
  <2> QED BY <1>2, <2>2
<1>6. \A p \in Procs :
        /\ proc[p] \in ProcType /\ proc[p].pc = "none" /\ proc[p].call.by \in 1..n
        /\ proc[p].roles = [s \in Sids |-> NoRole]
        /\ \A r \in Readers : proc[p].image.seen[r] = {}
  BY <1>1, <1>2, ToCallTyped DEF ToCall
<1>7. ProcsTyped
  BY <1>1, <1>6 DEF ProcsTyped
<1>8. ServiceTyped
  BY <1>2, <1>4, <1>5, <1>6 DEF ServiceTyped, Init
<1>9. FilesTyped /\ OneRole
  BY <1>6 DEF Init, FilesTyped, OneRole, OneEach, RoleFiles, Pagers
<1>10. \A p \in Procs : Aimed(proc[p])
  BY <1>6 DEF Aimed, WritesTo, Tells
<1>11. Rooms
  <2>1. \A S \in {CreatePcs, AskPcs, AnswerPcs, FailPcs} : Cardinality(Where(S)) = MaxCalls
    <3>1. \A S \in {CreatePcs, AskPcs, AnswerPcs, FailPcs} : Where(S) = Procs
      BY <1>6 DEF Where, CreatePcs, AskPcs, AnswerPcs, FailPcs
    <3> QED BY <3>1, ProcsFinite
  <2>2. Cardinality(Where(CreatePcs)) = MaxCalls /\ Cardinality(Where(AskPcs)) = MaxCalls
        /\ Cardinality(Where(AnswerPcs)) = MaxCalls /\ Cardinality(Where(FailPcs)) = MaxCalls
    BY <2>1
  <2> QED BY <1>2, <1>4, <1>5, <2>2 DEF Rooms
<1>12. Talks
  <2> SUFFICES ASSUME NEW p \in Procs PROVE Talk(p)
    BY DEF Talks
  <2>1. \A t \in DOMAIN turns : turns[t].of = 0
    BY <1>1, <1>2
  <2>2. \A k : MessagesOf(p, k) = {}
    BY <2>1 DEF MessagesOf, Procs
  <2>3. proc[p].pc = "none" /\ proc[p].child = "none"
    BY <1>1, <1>6 DEF ToCall
  <2> QED BY <2>2, <2>3 DEF Talk, AtMostOne
<1>13. Books
  BY <1>6 DEF Init, Books
<1> QED BY <1>7, <1>8, <1>9, <1>10, <1>11, <1>12, <1>13 DEF Inv, Typed

LEMMA StepInv == Inv /\ [Next]_vars => Inv'
<1> SUFFICES ASSUME Inv, [Next]_vars PROVE Inv'
  OBVIOUS
<1>1. ASSUME NEW p \in Procs, Command(p) PROVE Inv'
  BY <1>1, RegisterSelfKeeps, RegisterReadKeeps, RegisterWriteKeeps, FindRoleKeeps,
     GetSessionKeeps, CreateSessionKeeps, NameSessionKeeps, PostAskKeeps, ReadPagerKeeps,
     ExcludeMeKeeps, ListSessionsKeeps, CollectTurnsKeeps, WritePagerKeeps, PrintSummaryKeeps
  DEF Command
<1>2. ASSUME NEW p \in Procs, Runner(p) PROVE Inv'
  BY <1>2, StartRespondKeeps, FetchConversationKeeps, PostAnswerKeeps, PostFailureKeeps,
     StartCommandKeeps, CommandTimeoutKeeps, CommandKillKeeps, CommandClosedKeeps,
     PostCompletionKeeps, StartReviewKeeps, IdleKeeps, QuietKeeps
  DEF Runner
<1>3. CASE UNCHANGED vars
  <2>1. UNCHANGED <<sessions, turns, file, pager, proc, shown, faults>>
    BY <1>3 DEF vars
  <2>2. Typed'
    BY <2>1 DEF Inv, Typed, ProcsTyped, ServiceTyped, FilesTyped, OneRole, Rooms, Where
  <2>3. Talks'
    <3>1. \A q, k : MessagesOf(q, k)' = MessagesOf(q, k)
      BY <2>1 DEF MessagesOf
    <3>2. ASSUME NEW q \in Procs PROVE Talk(q)'
      <4>1. Talk(q)
        BY DEF Inv, Talks
      <4> QED BY <2>1, <3>1, <4>1 DEF Talk
    <3> QED BY <3>2 DEF Talks
  <2>4. Books'
    BY <2>1 DEF Inv, Books, Due
  <2> QED BY <2>2, <2>3, <2>4 DEF Inv
<1> QED BY <1>1, <1>2, <1>3, AgentsKeep, InvokeKeeps, KillKeeps DEF Next

LEMMA InvHolds == Spec => []Inv
  BY InitInv, StepInv, PTL DEF Spec

-----------------------------------------------------------------------------
(* What holds, for any calls by any agents.                                *)

\* Every variable keeps its type, no more sessions and turns are asked for
\* than each call may ask for (a send creates one session, and sends one
\* message, its answer and a notice of failure), and a role leads to one
\* session, however register and send processes write over the file.
THEOREM TypeCorrect == Spec => []TypeOK
  BY InvHolds, TypedIsTypeOK, PTL DEF Inv

\* A message sent with --respond is answered once, by what was said in its
\* turn; the notice that it failed comes once, and beside an answer only if
\* the runner of respondRunner was told of an error for that answer; and a
\* callback tells of its command once, when the command is over.
THEOREM ToldAtMostOnce == Spec => []ToldOnce
  BY InvHolds, TalksGiveToldOnce, PTL DEF Inv

\* What the file of full_summary says a reader has seen was shown to that
\* reader, or was put together by a summary of theirs that is about to be
\* printed or was killed: no process that writes the file over another's
\* change, and no limit of turns, passes a turn over.
THEOREM SeenIsShown == Spec => []SeenWereShown
  BY InvHolds, BooksGiveSeenWereShown, PTL DEF Inv

=============================================================================
