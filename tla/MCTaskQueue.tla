---------------------------- MODULE MCTaskQueue ----------------------------
(* Two tasks (a pair is enough for one to wait behind the other), one foreign
   thread besides the worker's own, which may also act as the main thread. *)
EXTENDS TaskQueue
CONSTANTS t1, t2, t3, p1, w
MCTasks == {t1, t2}
MCTasks3 == {t1, t2, t3}
MCPosters == {p1}
MCStoppers == {p1, w}
=============================================================================
