---------------------------- MODULE TaskExecutor ----------------------------
(***************************************************************************)
(* What the thread pool promises to the code that calls enqueue: tasks     *)
(* start in the order they were accepted, at most Width of them at a time, *)
(* each at most once; a task accepted before the pool was closed is never  *)
(* abandoned; a task accepted later may be.  Nothing is said of locks,     *)
(* condition variables or threads.                                         *)
(***************************************************************************)
EXTENDS Naturals, Sequences, FiniteSets

CONSTANTS Task,   \* the calls of enqueue that may be made
          Width   \* how many tasks may run at once

VARIABLES backlog,    \* accepted and not started, in order of acceptance
          active,     \* started and not finished
          finished,   \* run to the end, by a value or by an exception
          late,       \* accepted after the pool was closed
          state       \* "open", "closed", or "gone" once destroyed

abstractVars == <<backlog, active, finished, late, state>>

Queued == {backlog[i] : i \in DOMAIN backlog}

AbstractInit ==
    /\ backlog = <<>>
    /\ active = {} /\ finished = {} /\ late = {}
    /\ state = "open"

Submit(t) ==
    /\ state # "gone"
    /\ t \notin Queued \cup active \cup finished
    /\ backlog' = Append(backlog, t)
    /\ late' = IF state = "closed" THEN late \cup {t} ELSE late
    /\ UNCHANGED <<active, finished, state>>

Start ==
    /\ backlog # <<>>
    /\ Cardinality(active) < Width
    /\ active' = active \cup {Head(backlog)}
    /\ backlog' = Tail(backlog)
    /\ UNCHANGED <<finished, late, state>>

Finish(t) ==
    /\ t \in active
    /\ active' = active \ {t}
    /\ finished' = finished \cup {t}
    /\ UNCHANGED <<backlog, late, state>>

Close ==
    /\ state = "open"
    /\ state' = "closed"
    /\ UNCHANGED <<backlog, active, finished, late>>

\* The end of the pool: everything accepted in time has finished.
Vanish ==
    /\ state = "closed"
    /\ active = {}
    /\ Queued \subseteq late
    /\ state' = "gone"
    /\ backlog' = <<>>
    /\ UNCHANGED <<active, finished, late>>

AbstractNext ==
    \/ \E t \in Task : Submit(t) \/ Finish(t)
    \/ Start
    \/ Close
    \/ Vanish

AbstractFairness == WF_abstractVars(Start) /\ \A t \in Task : WF_abstractVars(Finish(t))

AbstractSafety == AbstractInit /\ [][AbstractNext]_abstractVars
AbstractSpec == AbstractSafety /\ AbstractFairness

=============================================================================
