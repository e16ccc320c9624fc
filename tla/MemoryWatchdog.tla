--------------------------- MODULE MemoryWatchdog ---------------------------
(***************************************************************************)
(* The memory watchdog (src/scripts/memory-watchdog.mjs): a loop that      *)
(* reads how much memory the host and each process use, and tells a        *)
(* channel when the host or a process is over its threshold for some       *)
(* checks, when it has recovered, and, for the host only, when it grows    *)
(* or stays high.  What has been told is noted before the message is sent, *)
(* and a message that fails ends the check: nothing is sent again, and     *)
(* what the check had still to do is left undone.                          *)
(*                                                                         *)
(* A check reads once, at its start.  Its parts are steps of their own     *)
(* where a message is waited for.                                          *)
(***************************************************************************)
EXTENDS Integers, FiniteSets, Functions, FiniteSetsExt

CONSTANTS
    Procs,           \* processes, by pid and command
    MaxLevel,        \* the host's used memory goes from 0 to this
    Threshold,       \* MEMORY_WATCHDOG_TOTAL_THRESHOLD_PERCENT
    GrowthDelta,     \* MEMORY_WATCHDOG_TOTAL_GROWTH_DELTA_PERCENT
    Reminder,        \* MEMORY_WATCHDOG_TOTAL_REMINDER_SECONDS, in intervals
    TriggerStreak,   \* MEMORY_WATCHDOG_TRIGGER_STREAK
    ResolveStreak,   \* MEMORY_WATCHDOG_RESOLVE_STREAK
    MaxFaults,       \* bound on the readings and messages that fail
    Host             \* the host, among what messages are about

Levels   == 0..MaxLevel
Lists    == SUBSET Procs           \* the processes over their threshold
Subjects == Procs \cup {Host}

ASSUME WatchdogAssumption ==
    /\ Host \notin Procs
    /\ MaxLevel \in Nat /\ Threshold \in Nat /\ MaxFaults \in Nat
    /\ GrowthDelta \in Nat \ {0} /\ Reminder \in Nat \ {0}
    /\ TriggerStreak \in Nat \ {0} /\ ResolveStreak \in Nat \ {0}

VARIABLES
    level, over,    \* what the check has read
    total,          \* activeTotalAlert
    alerts,         \* processAlerts: the processes that have an entry, and it
    since,          \* intervals since lastNotificationAtMs
    pc, left,       \* where the check is, and the processes it has to look at
    message,        \* the message that is being sent
    told,           \* what the channel was told last of each subject
    unsure,         \* subjects whose last message failed
    faults

watchdogVars == <<level, over, total, alerts, since, pc, left, message, told, unsure, faults>>

States == {"alert", "resolve"}  \* active, or not

Entry == [state : States, breach : 0..TriggerStreak, clear : 0..ResolveStreak]
New   == [state |-> "resolve", breach |-> 0, clear |-> 0]
Totals == [state : States, breach : 0..TriggerStreak,
           clear : 0..ResolveStreak, last : Levels]
Entries == UNION {[ps -> Entry] : ps \in SUBSET Procs}

(* Streaks are compared with their limits only: they stop there.           *)
More(n, limit) == IF n < limit THEN n + 1 ELSE limit
Breached(e) == [state |-> e.state, breach |-> More(e.breach, TriggerStreak), clear |-> 0]
Cleared(e)  == [state |-> e.state, breach |-> 0, clear |-> More(e.clear, ResolveStreak)]

WatchdogInit ==
    /\ level = 0 /\ over = {}
    /\ total = [state |-> "resolve", breach |-> 0, clear |-> 0, last |-> 0]
    /\ alerts = [p \in {} |-> New]
    /\ since = 0
    /\ pc = "sleep" /\ left = {}
    /\ message = [of |-> Host, kind |-> "none"]
    /\ told = [s \in Subjects |-> "resolve"]
    /\ unsure = {}
    /\ faults = 0

Fault == faults < MaxFaults /\ faults' = faults + 1

isActive == total.state = "alert"

(* An interval, or many if messages took long.  It matters while an alert  *)
(* is active.                                                              *)
TimePasses ==
    since' \in IF isActive THEN {More(since, Reminder), Reminder} ELSE {since}

(* A check begins, after the wait since the last one.                      *)
Read ==
    /\ pc = "sleep"
    /\ level' \in Levels /\ over' \in Lists
    /\ TimePasses
    /\ pc' = "host" /\ left' = over'
    /\ UNCHANGED <<total, alerts, message, told, unsure, faults>>

(* The list of processes cannot be had: the next check comes later.        *)
ReadFails ==
    /\ pc = "sleep" /\ Fault
    /\ TimePasses
    /\ UNCHANGED <<level, over, total, alerts, pc, left, message, told, unsure>>

-----------------------------------------------------------------------------
(* handleTotalMemoryAlert.                                                 *)

isBreaching == level > Threshold

Streaks ==
    [state  |-> total.state,
     breach |-> IF isBreaching THEN More(total.breach, TriggerStreak) ELSE 0,
     clear  |-> IF isBreaching THEN 0 ELSE More(total.clear, ResolveStreak),
     last   |-> total.last]

Sending(s, kind) == message' = [of |-> s, kind |-> kind]
NoMessage        == UNCHANGED message

(* Faulty reminderIsDue: reminders stop when the host has stopped growing. *)
FaultyReminder == total.last < level

reminderIsDue == since >= Reminder
hasGrownMaterially == level >= total.last + GrowthDelta

Activate ==
    /\ ~isActive /\ Streaks.breach >= TriggerStreak
    /\ total' = [Streaks EXCEPT !.state = "alert", !.last = level]
    /\ since' = 0
    /\ Sending(Host, "alert") /\ pc' = "sendHost"

Grow ==
    /\ isActive /\ isBreaching /\ hasGrownMaterially
    /\ total' = [Streaks EXCEPT !.last = level]
    /\ since' = 0
    /\ Sending(Host, "alert") /\ pc' = "sendHost"

Remind ==
    /\ isActive /\ isBreaching /\ ~hasGrownMaterially /\ reminderIsDue
    /\ total' = Streaks
    /\ since' = 0
    /\ Sending(Host, "alert") /\ pc' = "sendHost"

Recover ==
    /\ isActive /\ ~isBreaching /\ Streaks.clear >= ResolveStreak
    /\ total' = [Streaks EXCEPT !.state = "resolve", !.last = 0]
    /\ since' = 0
    /\ Sending(Host, "resolve") /\ pc' = "sendHost"

Quiet ==
    /\ ~ \/ ~isActive /\ Streaks.breach >= TriggerStreak
         \/ isActive /\ isBreaching /\ (hasGrownMaterially \/ reminderIsDue)
         \/ isActive /\ ~isBreaching /\ Streaks.clear >= ResolveStreak
    /\ total' = Streaks
    /\ UNCHANGED since
    /\ NoMessage /\ pc' = "over"

HandleTotal ==
    /\ pc = "host"
    /\ Activate \/ Grow \/ Remind \/ Recover \/ Quiet
    /\ UNCHANGED <<level, over, alerts, left, told, unsure, faults>>

-----------------------------------------------------------------------------
(* sendMattermostMessage and postJson.  After a message the check goes on; *)
(* one that fails, though it may have arrived, ends it.                    *)

After == [sendHost |-> "over", sendOver |-> "over", sendGone |-> "gone"]

Delivered == [told EXCEPT ![message.of] = message.kind]

Sent ==
    /\ pc \in DOMAIN After
    /\ told' = Delivered
    /\ unsure' = unsure \ {message.of}
    /\ pc' = After[pc]
    /\ alerts' = IF pc = "sendGone"
                 THEN Restrict(alerts, DOMAIN alerts \ {message.of}) ELSE alerts
    /\ UNCHANGED <<level, over, total, since, left, message, faults>>

NotificationFails ==
    /\ pc \in DOMAIN After /\ Fault
    /\ told' \in {told, Delivered}
    /\ unsure' = unsure \cup {message.of}
    /\ pc' = "sleep" /\ left' = {}
    /\ UNCHANGED <<level, over, total, alerts, since, message>>

-----------------------------------------------------------------------------
(* handleProcessAlerts: those over the threshold, in some order, and then  *)
(* the other entries.                                                      *)

EntryOf(p) == IF p \in DOMAIN alerts THEN alerts[p] ELSE New
WithEntry(p, e) == [q \in DOMAIN alerts \cup {p} |-> IF q = p THEN e ELSE alerts[q]]

HandleOver(p) ==
    LET e == Breached(EntryOf(p))
        opens == e.state = "resolve" /\ e.breach >= TriggerStreak
    IN  /\ pc = "over" /\ p \in left
        /\ left' = left \ {p}
        /\ \/ /\ opens
              /\ alerts' = WithEntry(p, [e EXCEPT !.state = "alert"])
              /\ Sending(p, "alert") /\ pc' = "sendOver"
           \/ /\ ~opens
              /\ alerts' = WithEntry(p, e)
              /\ NoMessage /\ UNCHANGED pc
        /\ UNCHANGED <<level, over, total, since, told, unsure, faults>>

AllOverHandled ==
    /\ pc = "over" /\ left = {}
    /\ pc' = "gone" /\ left' = DOMAIN alerts \ over
    /\ UNCHANGED <<level, over, total, alerts, since, message, told, unsure, faults>>

(* Faulty HandleGone: an entry is given up without a word.                 *)
FaultyGone(p) ==
    LET e == Cleared(alerts[p])
    IN  /\ pc = "gone" /\ p \in left
        /\ left' = left \ {p}
        /\ alerts' = IF e.clear >= ResolveStreak
                     THEN Restrict(alerts, DOMAIN alerts \ {p}) ELSE WithEntry(p, e)
        /\ NoMessage /\ UNCHANGED pc
        /\ UNCHANGED <<level, over, total, since, told, unsure, faults>>

HandleGone(p) ==
    LET e == Cleared(alerts[p])
    IN  /\ pc = "gone" /\ p \in left
        /\ left' = left \ {p}
        /\ \/ /\ e.clear < ResolveStreak
              /\ alerts' = WithEntry(p, e)
              /\ NoMessage /\ UNCHANGED pc
           \/ /\ e.clear >= ResolveStreak /\ e.state = "alert"
              /\ alerts' = WithEntry(p, [e EXCEPT !.state = "resolve"])
              /\ Sending(p, "resolve") /\ pc' = "sendGone"
           \/ /\ e.clear >= ResolveStreak /\ e.state = "resolve"
              /\ alerts' = Restrict(alerts, DOMAIN alerts \ {p})
              /\ NoMessage /\ UNCHANGED pc
        /\ UNCHANGED <<level, over, total, since, told, unsure, faults>>

CheckDone ==
    /\ pc = "gone" /\ left = {}
    /\ pc' = "sleep"
    /\ UNCHANGED <<level, over, total, alerts, since, left, message, told, unsure, faults>>

(* The watchdog is started anew: what it knew is gone.                     *)
WatchdogRestart ==
    /\ Fault
    /\ total' = [state |-> "resolve", breach |-> 0, clear |-> 0, last |-> 0]
    /\ alerts' = [p \in {} |-> New] /\ since' = 0
    /\ pc' = "sleep" /\ left' = {}
    /\ told' \in IF pc \in DOMAIN After THEN {told, Delivered} ELSE {told}
    /\ unsure' = Subjects
    /\ UNCHANGED <<level, over, message>>

Step ==
    \/ Read \/ HandleTotal \/ Sent
    \/ \E p \in Procs : HandleOver(p) \/ HandleGone(p)
    \/ AllOverHandled \/ CheckDone

WatchdogNext == Step \/ ReadFails \/ NotificationFails \/ WatchdogRestart

(* The loop goes on by itself: its timer fires, and a request comes back.  *)
WatchdogSpec == WatchdogInit /\ [][WatchdogNext]_watchdogVars /\ WF_watchdogVars(Step)

-----------------------------------------------------------------------------
(* Properties.                                                             *)

(* Every variable has its type; a process is looked at once in a check.    *)
WatchdogTypeOK ==
    /\ level \in Levels /\ over \in Lists
    /\ total \in Totals
    /\ alerts \in Entries
    /\ since \in 0..Reminder
    /\ pc \in {"sleep", "host", "over", "gone"} \cup DOMAIN After
    /\ left \in SUBSET (IF pc \in {"gone", "sendGone"} THEN DOMAIN alerts \ over ELSE over)
    /\ message \in [of : Subjects, kind : {"none", "alert", "resolve"}]
    /\ told \in [Subjects -> States]
    /\ unsure \in SUBSET Subjects
    /\ faults \in 0..MaxFaults

Recorded(s) == IF s = Host THEN total.state ELSE EntryOf(s).state
Waiting(s) == pc \in DOMAIN After /\ message.of = s

(* The channel knows what the watchdog has on record: an alert that it was *)
(* told of is active, and one that it was not told of is not, whichever    *)
(* checks were cut short and whichever processes have gone; except for     *)
(* subjects whose own last message failed, or from before a restart.       *)
ToldUnlessFailed ==
    \A s \in Subjects :
        s \notin unsure /\ ~Waiting(s) => told[s] = Recorded(s)

(* Once it stays over the threshold, the host is told of in the end, even  *)
(* if messages fail, for reminders follow; and an alert is made of every   *)
(* process that stays over its own, whatever happens to other messages.    *)
KeptHighIsTold ==
    /\ <>[](level > Threshold) => <>[](told[Host] = "alert" /\ Host \notin unsure)
    /\ \A p \in Procs : <>[](p \in over) => <>[](Recorded(p) = "alert")

=============================================================================
