------------------------------ MODULE TaskList ------------------------------
(***************************************************************************)
(* The task queue of a worker as its users see it: src/util/taskqueue.h    *)
(* without its steps, which TaskQueue looks at.  A queue is a sequence of  *)
(* tasks without repetition.                                               *)
(***************************************************************************)
EXTENDS Naturals, Sequences, SequencesExt

(* fftask_post(): a task that is queued already stays where it is. *)
Posted(queue, task) == IF Contains(queue, task) THEN queue ELSE Append(queue, task)

(* The tasks are posted one after the other, in some order. *)
AllPosted(queue, tasks) == queue \o SetToSeq(tasks \ Range(queue))

(* fftask_del() *)
Deleted(queue, task) ==
    IF Contains(queue, task) THEN RemoveAt(queue, CHOOSE i \in DOMAIN queue : queue[i] = task)
    ELSE queue
=============================================================================
