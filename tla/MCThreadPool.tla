---------------------------- MODULE MCThreadPool ----------------------------
(* Two workers, as in the smallest pool the master builds, and tasks whose *)
(* number exceeds the workers', so that the queue holds more than the      *)
(* workers can take and a task may arrive after each step of stop().       *)
EXTENDS ThreadPool, TLC

CONSTANTS w1, w2, t1, t2, t3

MCWorker == {w1, w2}
MCTask == {t1, t2, t3}

=============================================================================
