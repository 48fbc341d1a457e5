-------------------------- MODULE HeartbeatProofs ---------------------------
(* For every interval, time-out and bound on delays: a node that answers   *)
(* in time is kept, and one that does not is removed in time.              *)
EXTENDS Heartbeat, TLAPS

\* The latest time at which the loop will PING, unless it has in this turn.
PingDue ==
    IF hbPc = "sleep" THEN wake + Jitter + Work
    ELSE IF hbPc = "ping" THEN start + Work
    ELSE start + Beat

\* The latest time at which the loop will next remove what is too old.
ReapDue ==
    IF hbPc = "sleep" THEN wake + Jitter + Work
    ELSE IF hbPc = "rest" THEN start + Beat
    ELSE start + Work

\* What Tick leaves of the bounds on the loop.
LoopInTime ==
    /\ hbPc # "sleep" => now <= start + Work
    /\ hbPc = "sleep" => now <= wake + Jitter /\ wake <= start + Later(Interval, Work)
    /\ hbPc \in {"reap", "rest"} => start <= cutoff

AnswersInTime == \A p \in unanswered : now <= p + Delay

\* An answering node has been heard of no longer than Beat before its oldest
\* open PING, or before the next one.
HeardOf ==
    entry = "held" /\ answering =>
        \/ unanswered = {} /\ PingDue <= lastSeen + Beat
        \/ \E p \in unanswered : p <= lastSeen + Beat

\* An entry that is held has passed the last look at its age.
NotYetOld == entry = "held" => ReapDue <= lastSeen + Timeout + Beat

TimeInv == TypeOK /\ LoopInTime /\ AnswersInTime /\ HeardOf /\ NotYetOld /\ LiveNodeKept

\* Neither due time is more than one Beat away.
LEMMA DueSoon ==
    ASSUME TypeOK, LoopInTime
    PROVE  /\ Beat \in Nat /\ Beat >= Work
           /\ PingDue \in Int /\ PingDue <= start + Beat
           /\ ReapDue \in Int /\ ReapDue <= start + Beat
           /\ now <= PingDue /\ now <= ReapDue
  BY HeartbeatAssumption DEF TypeOK, LoopInTime, PingDue, ReapDue, Beat, Later

LEMMA InitTime == Init => TimeInv
  BY HeartbeatAssumption
  DEF Init, TimeInv, TypeOK, LoopInTime, AnswersInTime, HeardOf, NotYetOld, LiveNodeKept, Later

LEMMA StepTime == TimeInv /\ [Next]_vars => TimeInv'
<1> SUFFICES ASSUME TimeInv, [Next]_vars
             PROVE  TimeInv'
  OBVIOUS
<1> USE HeartbeatAssumption
<1>1. TypeOK /\ LoopInTime /\ AnswersInTime /\ HeardOf /\ NotYetOld /\ LiveNodeKept
  BY DEF TimeInv
<1>2. /\ Beat \in Nat /\ Beat >= Work
      /\ PingDue \in Int /\ PingDue <= start + Beat
      /\ ReapDue \in Int /\ ReapDue <= start + Beat
      /\ now <= PingDue /\ now <= ReapDue
  BY <1>1, DueSoon
<1>3. Beat' = Beat
  BY DEF Beat, Later
<1>4. CASE Wake
  <2>1. TypeOK'
    BY <1>1, <1>4 DEF TypeOK, Wake, loopVars, nodeVars
  <2>2. LoopInTime' /\ AnswersInTime' /\ LiveNodeKept'
    BY <1>1, <1>3, <1>4 DEF TypeOK, LoopInTime, AnswersInTime, LiveNodeKept, Wake, nodeVars
  <2>3. PingDue' <= PingDue /\ ReapDue' <= ReapDue /\ PingDue' \in Int /\ ReapDue' \in Int
    BY <1>1, <1>4 DEF TypeOK, LoopInTime, PingDue, ReapDue, Wake
  <2>4. HeardOf' /\ NotYetOld'
    BY <1>1, <1>2, <1>3, <1>4, <2>3 DEF TypeOK, HeardOf, NotYetOld, Wake, nodeVars
  <2> QED
    BY <2>1, <2>2, <2>4 DEF TimeInv
<1>5. CASE Ping
  <2>1. TypeOK'
    BY <1>1, <1>5 DEF TypeOK, Ping
  <2>2. LoopInTime' /\ AnswersInTime' /\ LiveNodeKept'
    BY <1>1, <1>3, <1>5 DEF TypeOK, LoopInTime, AnswersInTime, LiveNodeKept, Ping
  <2>3. ReapDue' = ReapDue /\ PingDue = start + Work
    BY <1>5 DEF ReapDue, PingDue, Ping
  <2>4. NotYetOld'
    BY <1>1, <1>3, <1>5, <2>3 DEF NotYetOld, Ping
  <2>5. HeardOf'
    <3>1. SUFFICES ASSUME entry = "held", answering
                   PROVE  \E p \in unanswered' : p <= lastSeen + Beat
      BY <1>3, <1>5 DEF HeardOf, Ping
    <3>2. unanswered' = unanswered \cup {now}
      BY <1>5, <3>1 DEF Ping
    <3>3. CASE unanswered = {} /\ PingDue <= lastSeen + Beat
      BY <1>1, <1>2, <2>3, <3>2, <3>3 DEF TypeOK
    <3>4. CASE \E p \in unanswered : p <= lastSeen + Beat
      BY <3>2, <3>4
    <3> QED
      BY <1>1, <3>1, <3>3, <3>4 DEF HeardOf
  <2> QED
    BY <2>1, <2>2, <2>4, <2>5 DEF TimeInv
<1>6. CASE Check
  <2>1. TypeOK' /\ LoopInTime' /\ AnswersInTime' /\ LiveNodeKept'
    BY <1>1, <1>3, <1>6 DEF TypeOK, LoopInTime, AnswersInTime, LiveNodeKept, Check, nodeVars
  <2>2. PingDue' = PingDue /\ ReapDue' = ReapDue
    BY <1>3, <1>6 DEF PingDue, ReapDue, Check
  <2>3. HeardOf' /\ NotYetOld'
    BY <1>1, <1>3, <1>6, <2>2 DEF HeardOf, NotYetOld, Check, nodeVars
  <2> QED
    BY <2>1, <2>3 DEF TimeInv
<1>7. CASE Reap
  <2>1. TypeOK' /\ LoopInTime' /\ AnswersInTime'
    BY <1>1, <1>7 DEF TypeOK, LoopInTime, AnswersInTime, Reap
  <2>2. PingDue' = PingDue /\ ReapDue' = start + Beat
    BY <1>3, <1>7 DEF PingDue, ReapDue, Reap
  <2>3. HeardOf'
    BY <1>1, <1>3, <1>7, <2>2 DEF HeardOf, Reap
  <2>4. NotYetOld'
    BY <1>1, <1>2, <1>3, <1>7, <2>2 DEF TypeOK, LoopInTime, NotYetOld, Reap
  <2>5. LiveNodeKept'
    <3>1. SUFFICES ASSUME entry = "held", answering, cutoff - lastSeen > Timeout, Beat + Delay <= Timeout
                   PROVE  FALSE
      BY <1>1, <1>3, <1>7 DEF LiveNodeKept, Reap
    <3>2. cutoff <= now
      BY <1>1 DEF TypeOK
    <3>3. CASE unanswered = {} /\ PingDue <= lastSeen + Beat
      BY <1>1, <1>2, <3>1, <3>2, <3>3 DEF TypeOK
    <3>4. CASE \E p \in unanswered : p <= lastSeen + Beat
      BY <1>1, <1>2, <3>1, <3>2, <3>4 DEF TypeOK, AnswersInTime
    <3> QED
      BY <1>1, <3>1, <3>3, <3>4 DEF HeardOf
  <2> QED
    BY <2>1, <2>3, <2>4, <2>5 DEF TimeInv
<1>8. CASE Rest
  <2>1. TypeOK' /\ LoopInTime' /\ AnswersInTime' /\ LiveNodeKept'
    BY <1>1, <1>3, <1>8 DEF TypeOK, LoopInTime, AnswersInTime, LiveNodeKept, Rest, Later, nodeVars
  <2>2. PingDue' <= PingDue /\ ReapDue' <= ReapDue /\ PingDue' \in Int /\ ReapDue' \in Int
    BY <1>1, <1>8 DEF TypeOK, LoopInTime, PingDue, ReapDue, Rest, Beat, Later
  <2>3. HeardOf' /\ NotYetOld'
    BY <1>1, <1>2, <1>3, <1>8, <2>2 DEF TypeOK, HeardOf, NotYetOld, Rest, nodeVars
  <2> QED
    BY <2>1, <2>3 DEF TimeInv
<1>9. ASSUME Insert \/ Pong \/ Report
      PROVE  TimeInv'
  <2>1. UNCHANGED <<now, loopVars, answering>> /\ unanswered' \subseteq unanswered
    BY <1>9 DEF Insert, Pong, Report
  <2>2. TypeOK'
    <3>1. lastSeen' \in 0..now /\ entry' \in {"none", "held", "reaped"}
      BY <1>1, <1>9 DEF TypeOK, Insert, Pong, Report
    <3> QED
      BY <1>1, <2>1, <3>1 DEF TypeOK, loopVars
  <2>3. LoopInTime' /\ AnswersInTime' /\ LiveNodeKept'
    BY <1>1, <1>3, <1>9, <2>1
    DEF LoopInTime, AnswersInTime, LiveNodeKept, loopVars, Insert, Pong, Report
  <2>4. PingDue' = PingDue /\ ReapDue' = ReapDue
    BY <1>3, <2>1 DEF PingDue, ReapDue, loopVars
  <2>5. entry' = "held" => lastSeen' = now
    BY <1>9 DEF Insert, Pong, Report
  <2>6. start <= now /\ now \in Nat /\ start \in Nat /\ unanswered' \subseteq 0..now
    BY <1>1, <2>1 DEF TypeOK
  <2>7. HeardOf' /\ NotYetOld'
    BY <1>2, <1>3, <2>4, <2>5, <2>6 DEF HeardOf, NotYetOld
  <2> QED
    BY <2>2, <2>3, <2>7 DEF TimeInv
<1>10. CASE FallSilent
  <2>1. TypeOK' /\ LoopInTime' /\ AnswersInTime' /\ LiveNodeKept' /\ HeardOf'
    BY <1>1, <1>10 DEF TypeOK, LoopInTime, AnswersInTime, LiveNodeKept, HeardOf, FallSilent, loopVars
  <2>2. ReapDue' = ReapDue
    BY <1>3, <1>10 DEF ReapDue, FallSilent, loopVars
  <2>3. NotYetOld'
    BY <1>1, <1>3, <1>10, <2>2 DEF NotYetOld, FallSilent
  <2> QED
    BY <2>1, <2>3 DEF TimeInv
<1>11. CASE Tick
  <2>1. TypeOK'
    BY <1>1, <1>11 DEF TypeOK, Tick, loopVars, nodeVars
  <2>2. LoopInTime' /\ AnswersInTime' /\ LiveNodeKept'
    BY <1>1, <1>3, <1>11
    DEF TypeOK, LoopInTime, AnswersInTime, LiveNodeKept, Tick, loopVars, nodeVars
  <2>3. PingDue' = PingDue /\ ReapDue' = ReapDue
    BY <1>3, <1>11 DEF PingDue, ReapDue, Tick, loopVars
  <2>4. HeardOf' /\ NotYetOld'
    BY <1>1, <1>3, <1>11, <2>3 DEF HeardOf, NotYetOld, Tick, nodeVars
  <2> QED
    BY <2>1, <2>2, <2>4 DEF TimeInv
<1>12. CASE Terminated \/ UNCHANGED vars
  <2>1. UNCHANGED vars
    BY <1>12 DEF Terminated
  <2>2. TypeOK' /\ LoopInTime' /\ AnswersInTime' /\ LiveNodeKept'
    BY <1>1, <1>3, <2>1
    DEF TypeOK, LoopInTime, AnswersInTime, LiveNodeKept, vars, loopVars, nodeVars
  <2>3. PingDue' = PingDue /\ ReapDue' = ReapDue
    BY <1>3, <2>1 DEF PingDue, ReapDue, vars, loopVars
  <2>4. HeardOf' /\ NotYetOld'
    BY <1>1, <1>3, <2>1, <2>3 DEF HeardOf, NotYetOld, vars, nodeVars
  <2> QED
    BY <2>2, <2>4 DEF TimeInv
<1> QED
  BY <1>4, <1>5, <1>6, <1>7, <1>8, <1>9, <1>10, <1>11, <1>12 DEF Next

\* The bounds on the loop and on the answers hold at all times.
LEMMA Timing == Spec => []TimeInv
<1> QED
  BY InitTime, StepTime, PTL DEF Spec

\* heartbeatLoop: every variable keeps its type, so the loop never asks for a
\* negative sleep, however long a turn has taken.
THEOREM HeartbeatTypeCorrect == Spec => []TypeOK
<1>1. TimeInv => TypeOK
  BY DEF TimeInv
<1> QED
  BY <1>1, Timing, PTL

\* heartbeatLoop, line 307: no node that answers in time is removed.
THEOREM LiveKept == Spec => []LiveNodeKept
<1>1. TimeInv => LiveNodeKept
  BY DEF TimeInv
<1> QED
  BY <1>1, Timing, PTL

\* heartbeatLoop, lines 303-321: no entry outlives the time-out by more than
\* one turn.
THEOREM SilentReaped == Spec => []SilentReapedInTime
<1>1. TimeInv => SilentReapedInTime
  <2>1. SUFFICES ASSUME TimeInv, entry = "held"
                 PROVE  now - lastSeen <= Timeout + Beat
    BY DEF SilentReapedInTime
  <2>2. TypeOK /\ LoopInTime /\ NotYetOld
    BY <2>1 DEF TimeInv
  <2>3. Beat \in Nat /\ ReapDue \in Int /\ now <= ReapDue
    BY <2>2, DueSoon
  <2> QED
    BY <2>1, <2>2, <2>3, HeartbeatAssumption DEF TypeOK, NotYetOld
<1> QED
  BY <1>1, Timing, PTL

-----------------------------------------------------------------------------
(* The pace of the loop.                                                   *)

\* `wake` is 0 before the first turn only, unless Interval is.
Paced == hbPc = "sleep" => wake = 0 \/ wake >= start + Interval

TurnStep ==
    hbPc = "sleep" /\ hbPc' = "ping" /\ wake # 0 =>
        /\ start' - start >= Interval
        /\ start' - start <= Later(Interval, Work) + Jitter

TurnsPaced == [][TurnStep]_vars

LEMMA PacedNext ==
    ASSUME TypeOK, Paced, [Next]_vars
    PROVE  Paced'
<1>1. Interval \in Nat /\ start \in Nat /\ now \in Nat /\ wake \in Nat
  BY HeartbeatAssumption DEF TypeOK
<1>2. CASE Rest
  BY <1>1, <1>2 DEF Rest, Paced, Later
<1>3. CASE Wake \/ Ping \/ Check \/ Reap
  BY <1>3 DEF Wake, Ping, Check, Reap, Paced
<1>4. CASE UNCHANGED loopVars
  BY <1>4 DEF Paced, loopVars
<1>5. CASE Insert \/ Pong \/ Report \/ FallSilent \/ Tick \/ UNCHANGED vars
  BY <1>4, <1>5 DEF Insert, Pong, Report, FallSilent, Tick, vars
<1> QED
  BY <1>2, <1>3, <1>5 DEF Next, Terminated

LEMMA TurnNext ==
    ASSUME TimeInv, Paced, [Next]_vars
    PROVE  TurnStep
<1> SUFFICES ASSUME hbPc = "sleep", hbPc' = "ping", wake # 0
             PROVE  /\ start' - start >= Interval
                    /\ start' - start <= Later(Interval, Work) + Jitter
  BY DEF TurnStep
<1>1. /\ Interval \in Nat /\ Work \in Nat /\ Jitter \in Nat
      /\ start \in Nat /\ now \in Nat /\ wake \in Nat
      /\ now <= wake + Jitter /\ wake <= start + Later(Interval, Work)
      /\ wake >= start + Interval
  BY HeartbeatAssumption DEF TimeInv, TypeOK, LoopInTime, Paced
<1>2. Later(Interval, Work) \in Nat
  BY <1>1 DEF Later
<1>3. now >= wake /\ start' = now
  BY DEF Next, Wake, Ping, Check, Reap, Rest, Insert, Pong, Report, FallSilent, Tick,
         Terminated, vars, loopVars
<1> QED
  BY <1>1, <1>2, <1>3

\* heartbeatLoop, lines 274 and 317-320: after the first, a turn begins no
\* sooner than Interval after the one before, however short that was, and no
\* later than the longest turn or the interval and the oversleeping after it:
\* nodes are not flooded with PINGs, and the delays of turns do not add up.
THEOREM Paces == Spec => TurnsPaced
<1>1. Init => Paced
  BY DEF Init, Paced
<1>2. TimeInv /\ Paced /\ [Next]_vars => Paced' /\ TurnStep
  BY PacedNext, TurnNext DEF TimeInv
<1> QED
  BY <1>1, <1>2, Timing, PTL DEF Spec, TurnsPaced

=============================================================================
