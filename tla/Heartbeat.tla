----------------------------- MODULE Heartbeat ------------------------------
(***************************************************************************)
(* The timing of heartbeatLoop (network/MasterServer.cpp): when it PINGs,  *)
(* when it removes an entry, and how long it sleeps, in milliseconds.  One *)
(* entry is enough: the loop treats each by itself, and Work bounds a turn *)
(* over all of them.  Races over descriptor numbers and the order of the   *)
(* steps of a removal are the subject of MasterServer.                     *)
(*                                                                         *)
(* The node is any peer that answers every PING, until it falls silent.    *)
(***************************************************************************)
EXTENDS Integers

CONSTANTS
    Interval,   \* cfg_.heartbeatInterval, 2000
    Timeout,    \* cfg_.heartbeatTimeout, 6000
    Work,       \* the longest one turn of the loop takes, without its sleep
    Jitter,     \* the longest it oversleeps
    Delay,      \* the longest from a PING to the handling of its PONG
    Horizon     \* bound: when the clock stops

ASSUME HeartbeatAssumption ==
    /\ Interval \in Nat /\ Timeout \in Nat
    /\ Work \in Nat /\ Jitter \in Nat /\ Delay \in Nat
    /\ Horizon \in Nat

VARIABLES
    now,         \* the steady clock
    hbPc,        \* "ping", "check", "reap", "rest" or "sleep"
    start,       \* when this turn of the loop began
    cutoff,      \* now of the loop, taken before its second snapshot
    wake,        \* when sleep_for ends at the earliest
    entry,       \* "none", "held" or "reaped"
    lastSeen,    \* of the entry
    answering,   \* the node still answers
    unanswered   \* when the PINGs were sent that the node has to answer

loopVars == <<hbPc, start, cutoff, wake>>
nodeVars == <<entry, lastSeen, answering, unanswered>>
vars == <<now, loopVars, nodeVars>>

Later(a, b) == IF a >= b THEN a ELSE b

TypeOK ==
    /\ now \in 0..Horizon
    /\ hbPc \in {"ping", "check", "reap", "rest", "sleep"}
    /\ start \in 0..now /\ cutoff \in 0..now
    /\ wake \in Nat
    /\ entry \in {"none", "held", "reaped"}
    /\ lastSeen \in 0..now
    /\ answering \in BOOLEAN
    /\ unanswered \subseteq 0..now

Init ==
    /\ now = 0
    /\ hbPc = "sleep"
    /\ start = 0 /\ cutoff = 0 /\ wake = 0
    /\ entry = "none" /\ lastSeen = 0
    /\ answering = TRUE /\ unanswered = {}

-----------------------------------------------------------------------------
(* The loop.                                                               *)

Wake ==
    /\ hbPc = "sleep" /\ now >= wake
    /\ hbPc' = "ping"
    /\ start' = now
    /\ UNCHANGED <<now, cutoff, wake, nodeVars>>

\* The first snapshot, and a PING to everyone in it.
Ping ==
    /\ hbPc = "ping"
    /\ hbPc' = "check"
    /\ unanswered' = IF entry = "held" /\ answering THEN unanswered \cup {now} ELSE unanswered
    /\ UNCHANGED <<now, start, cutoff, wake, entry, lastSeen, answering>>

Check ==
    /\ hbPc = "check"
    /\ hbPc' = "reap"
    /\ cutoff' = now
    /\ UNCHANGED <<now, start, wake, nodeVars>>

\* Mutant: an entry that is exactly Timeout old goes.
ReapAtTimeout ==
    /\ hbPc = "reap"
    /\ hbPc' = "rest"
    /\ entry' = IF entry = "held" /\ cutoff - lastSeen >= Timeout THEN "reaped" ELSE entry
    /\ UNCHANGED <<now, start, cutoff, wake, lastSeen, answering, unanswered>>

\* The second snapshot, and the removals.
Reap ==
    /\ hbPc = "reap"
    /\ hbPc' = "rest"
    /\ entry' = IF entry = "held" /\ cutoff - lastSeen > Timeout THEN "reaped" ELSE entry
    /\ UNCHANGED <<now, start, cutoff, wake, lastSeen, answering, unanswered>>

\* Mutant: a whole interval, whatever the turn has taken.
RestFullInterval ==
    /\ hbPc = "rest"
    /\ hbPc' = "sleep"
    /\ wake' = now + Interval
    /\ UNCHANGED <<now, start, cutoff, nodeVars>>

\* Mutant: the clock itself is taken for the time elapsed.
RestByTheClock ==
    /\ hbPc = "rest"
    /\ hbPc' = "sleep"
    /\ wake' = Interval - now
    /\ UNCHANGED <<now, start, cutoff, nodeVars>>

\* Sleep for what is left of the interval, if anything is.
Rest ==
    /\ hbPc = "rest"
    /\ hbPc' = "sleep"
    /\ wake' = Later(start + Interval, now)
    /\ UNCHANGED <<now, start, cutoff, nodeVars>>

-----------------------------------------------------------------------------
(* The entry and its node.                                                 *)

\* acceptLoop inserts the entry.
Insert ==
    /\ entry = "none"
    /\ entry' = "held" /\ lastSeen' = now
    /\ UNCHANGED <<now, loopVars, answering, unanswered>>

\* The handler of a PONG; it refreshes the entry if there still is one.
Pong ==
    /\ answering
    /\ \E p \in unanswered : unanswered' = unanswered \ {p}
    /\ lastSeen' = IF entry = "held" THEN now ELSE lastSeen
    /\ UNCHANGED <<now, loopVars, entry, answering>>

\* The handler of a RESOURCE_REPORT.
Report ==
    /\ answering
    /\ entry = "held"
    /\ lastSeen' = now
    /\ UNCHANGED <<now, loopVars, entry, answering, unanswered>>

FallSilent ==
    /\ answering /\ entry = "held"
    /\ answering' = FALSE
    /\ unanswered' = {}
    /\ UNCHANGED <<now, loopVars, entry, lastSeen>>

-----------------------------------------------------------------------------
\* Time passes, as far as the bounds on the loop and on the node let it.
Tick ==
    /\ now < Horizon
    /\ hbPc # "sleep" => now < start + Work
    /\ hbPc = "sleep" => now < wake + Jitter
    /\ \A p \in unanswered : now < p + Delay
    /\ now' = now + 1
    /\ UNCHANGED <<loopVars, nodeVars>>

Terminated == now = Horizon /\ UNCHANGED vars

Next ==
    \/ Wake \/ Ping \/ Check \/ Reap \/ Rest
    \/ Insert \/ Pong \/ Report \/ FallSilent
    \/ Tick \/ Terminated

Spec == Init /\ [][Next]_vars

-----------------------------------------------------------------------------
(* Properties                                                              *)

\* The longest from the beginning of a turn of heartbeatLoop to the end of
\* the next.
Beat == Later(Interval, Work) + Jitter + Work

\* heartbeatLoop, line 307: a node that answers every PING within Delay is
\* never removed, provided that the time-out leaves room for one whole turn
\* and one answer.
LiveNodeKept == Beat + Delay <= Timeout /\ entry = "reaped" => ~answering

\* heartbeatLoop, lines 303-321: an entry does not outlive the time-out by
\* more than one turn.
SilentReapedInTime == entry = "held" => now - lastSeen <= Timeout + Beat

=============================================================================
