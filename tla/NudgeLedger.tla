----------------------------- MODULE NudgeLedger -----------------------------
(***************************************************************************)
(* What the nudge daemon promises, whatever it polls, remembers, loses and *)
(* writes: there is a ledger of turns; a turn on it is never nudged again, *)
(* and no turn comes on it, or leaves it, but by a nudge that was taken.   *)
(*                                                                         *)
(* A nudge for a turn that is not on the ledger may be given twice: the    *)
(* daemon does not hear of every nudge that is taken, and may fail to      *)
(* write one down.                                                         *)
(***************************************************************************)
EXTENDS Sequences

VARIABLES
    nudges,   \* the turns nudged, one after the other
    taken,    \* those that were prompted to go on by a nudge
    ledger    \* those that count as nudged from now on

ledgerVars == <<nudges, taken, ledger>>

Init == nudges = <<>> /\ taken = {} /\ ledger = {}

Nudge(t) ==
    /\ t \notin ledger
    /\ nudges' = Append(nudges, t)
    /\ UNCHANGED <<taken, ledger>>

Take(k) ==
    /\ taken' = taken \cup {nudges[k]}
    /\ UNCHANGED <<nudges, ledger>>

\* More than one at a time, if some could not be written before.
Enter(ts) ==
    /\ ts \subseteq taken
    /\ ledger' = ledger \cup ts
    /\ UNCHANGED <<nudges, taken>>

Next ==
    \/ nudges' # <<>> /\ Nudge(nudges'[Len(nudges')])
    \/ \E k \in DOMAIN nudges : Take(k)
    \/ \E ts \in SUBSET taken : Enter(ts)

Spec == Init /\ [][Next]_ledgerVars
=============================================================================
