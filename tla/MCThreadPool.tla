---------------------------- MODULE MCThreadPool ----------------------------
(* Model values for ThreadPool; workers are numbered.                      *)
EXTENDS ThreadPool

CONSTANTS t1, t2, t3, p1, p2

MCTasks == {t1, t2, t3}
MCProducers == {p1, p2}
=============================================================================
