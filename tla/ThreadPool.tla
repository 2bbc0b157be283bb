----------------------------- MODULE ThreadPool -----------------------------
(***************************************************************************)
(* The pool of threads for reading and writing files                       *)
(* (src/util/ffthpool.c): its ring of tasks (Ring), the threads that are   *)
(* created as tasks come, the semaphore that wakes them, the references to *)
(* a task, and the end of it all in ffthpool_free().                       *)
(*                                                                         *)
(* A user (a worker's thread, for any number of file readers and writers)  *)
(* makes a task with one reference of its own, adds it, goes on, and gives *)
(* its reference back when it has the result; a reader or writer that is   *)
(* closed meanwhile leaves that to the task's handler.                     *)
(***************************************************************************)
EXTENDS Ring, FiniteSets

CONSTANTS
    MaxThreads,   \* conf.maxthreads (2 in core/file.c)
    Budget,       \* bound: tasks made
    CreateFails   \* whether ffthd_create() may fail

(* Threads of the pool are numbered as they are created, tasks as they are made. *)
ASSUME PoolAssumption ==
    /\ MaxThreads \in Nat \ {0} /\ Readers = 1 .. MaxThreads
    /\ Budget \in Nat /\ Items = 1 .. Budget /\ CreateFails \in BOOLEAN

VARIABLES
    at,        \* at[p]: where user p is in ffthpool_add(), thread p in
               \* ffthpool_loop()
    nthreads,  \* p->threads.len
    sem,       \* the semaphore's value
    stop,      \* p->stop
    main,      \* where the main thread is in ffthpool_free()
    joined,    \* threads it has joined, or given up on:
    late,      \* they were busy for 5 seconds
    task       \* the tasks made so far

end == <<stop, main, joined, late>>
pool == <<at, nthreads, sem, end, task>>
vars == <<ring, pool>>

(* ref: its counter; owner: the user's reference is "held", has been left to
   the handler ("left"), or is given back ("gone"); added: how ffthpool_add()
   ended (until then "pending"); runs: how often its handler has run. *)
NewTask == [ref |-> 2, owner |-> "held", added |-> "pending", runs |-> 0, freed |-> FALSE]

Idle == [pc |-> "idle", t |-> NoItem, empty |-> FALSE]

(* Slip of ffthpool_add(): no reference is taken for the ring. *)
OneReference == [NewTask EXCEPT !.ref = 1]

(* ffthpool_task_new() and the reference that ffthpool_add() takes. *)
MadeTask == NewTask

(* ffthpool_task_free() *)
Drop(k) == [k EXCEPT !.ref = @ - 1, !.freed = (k.ref = 1)]

Init ==
    /\ RingInit
    /\ at = [p \in Procs |-> IF p \in Writers THEN Idle ELSE [Idle EXCEPT !.pc = "none"]]
    /\ nthreads = 0 /\ sem = 0 /\ stop = FALSE /\ main = "run" /\ joined = {} /\ late = {}
    /\ task = <<>>

-----------------------------------------------------------------------------
(* ffthpool_add(), by user p. *)

(* ffthpool_task_new(), ring_empty() and the reference for the ring. *)
Add(p) ==
    /\ at[p].pc = "idle" /\ main = "run" /\ Len(task) < Budget
    /\ LET t == Len(task) + 1
       IN  /\ task' = Append(task, MadeTask)
           /\ at' = [at EXCEPT ![p] = [pc |-> "write", t |-> t, empty |-> (r = wtail)]]
           /\ BeginWrite(p, t)
    /\ UNCHANGED <<nthreads, sem, end>>

(* ffring_write() goes on. *)
Writing(p) ==
    /\ at[p].pc = "write"
    /\ WriteStep(p) /\ call'[p].pc # "refused"
    /\ at' = [at EXCEPT ![p].pc = IF call'[p].pc = "written" THEN "decide" ELSE "write"]
    /\ UNCHANGED <<nthreads, sem, end, task>>

(* ffring_write() has failed: both references are given back. *)
Refused(p) ==
    /\ at[p].pc = "write"
    /\ WriteCheck(p) /\ call'[p].pc = "refused"
    /\ task' = [task EXCEPT ![at[p].t] = [Drop(Drop(@)) EXCEPT !.owner = "gone", !.added = "refused"]]
    /\ at' = [at EXCEPT ![p] = Idle]
    /\ UNCHANGED <<nthreads, sem, end>>

(* Slip of ffthpool_add(): the first thread is forgotten. *)
DecideIfWaiting(p) ==
    /\ at[p].pc = "decide"
    /\ at' = [at EXCEPT ![p].pc = IF ~at[p].empty /\ nthreads < MaxThreads THEN "thread" ELSE "post"]
    /\ UNCHANGED <<ring, nthreads, sem, end, task>>

(* The task is in the ring: whether one more thread is called for. *)
Decide(p) ==
    /\ at[p].pc = "decide"
    /\ at' = [at EXCEPT ![p].pc =
                IF (~at[p].empty \/ nthreads = 0) /\ nthreads < MaxThreads THEN "thread" ELSE "post"]
    /\ UNCHANGED <<ring, nthreads, sem, end, task>>

(* tp_newthread(), under its lock. *)
NewThread(p) ==
    /\ at[p].pc = "thread"
    /\ IF nthreads = MaxThreads
       THEN at' = [at EXCEPT ![p].pc = "post"] /\ UNCHANGED nthreads
       ELSE /\ nthreads' = nthreads + 1
            /\ at' = [at EXCEPT ![p].pc = "post", ![nthreads + 1].pc = "loop"]
    /\ UNCHANGED <<ring, sem, end, task>>

(* tp_newthread() fails: so does ffthpool_add(), although the task is in the
   ring.  Its user gives its reference back. *)
NoThread(p) ==
    /\ at[p].pc = "thread" /\ CreateFails /\ nthreads < MaxThreads
    /\ task' = [task EXCEPT ![at[p].t] = [Drop(@) EXCEPT !.owner = "gone", !.added = "failed"]]
    /\ at' = [at EXCEPT ![p] = Idle]
    /\ UNCHANGED <<ring, nthreads, sem, end>>

(* ffsem_post() *)
Post(p) ==
    /\ at[p].pc = "post"
    /\ sem' = sem + 1
    /\ task' = [task EXCEPT ![at[p].t].added = "yes"]
    /\ at' = [at EXCEPT ![p] = Idle]
    /\ UNCHANGED <<ring, nthreads, end>>

(* The user takes the result of a task that has run (fr_thpool_result(),
   fw_thpool_result()). *)
Collect(t) ==
    /\ task[t].owner = "held" /\ task[t].added = "yes" /\ task[t].runs > 0
    /\ main = "run"
    /\ task' = [task EXCEPT ![t] = [Drop(@) EXCEPT !.owner = "gone"]]
    /\ UNCHANGED <<ring, at, nthreads, sem, end>>

(* The file is closed while its task is pending. *)
Leave(t) ==
    /\ task[t].owner = "held" /\ task[t].added = "yes" /\ task[t].runs = 0
    /\ main = "run"
    /\ task' = [task EXCEPT ![t].owner = "left"]
    /\ UNCHANGED <<ring, at, nthreads, sem, end>>

-----------------------------------------------------------------------------
(* ffthpool_loop(), by thread h. *)

Goto(h, pc) == at' = [at EXCEPT ![h].pc = pc]

(* while (!p->stop) *)
Loop(h) ==
    /\ at[h].pc = "loop"
    /\ IF stop THEN Goto(h, "exit") /\ UNCHANGED ring
       ELSE Goto(h, "read") /\ BeginRead(h)
    /\ UNCHANGED <<nthreads, sem, end, task>>

(* ffring_read() goes on. *)
Reading(h) ==
    /\ at[h].pc = "read"
    /\ ReadStep(h)
    /\ at' = CASE call'[h].pc = "empty" -> [at EXCEPT ![h].pc = "wait"]
               [] call'[h].pc = "read" -> [at EXCEPT ![h].pc = "handler", ![h].t = call'[h].item]
               [] OTHER -> at
    /\ UNCHANGED <<nthreads, sem, end, task>>

(* ffsem_wait() *)
Wait(h) ==
    /\ at[h].pc = "wait" /\ sem > 0
    /\ sem' = sem - 1
    /\ Goto(h, "loop")
    /\ UNCHANGED <<ring, nthreads, end, task>>

(* t->handler(t), which gives back its user's reference if the file has been
   closed meanwhile. *)
Handler(h) ==
    /\ at[h].pc = "handler"
    /\ LET k == [task[at[h].t] EXCEPT !.runs = @ + 1]
       IN  task' = [task EXCEPT ![at[h].t] = IF k.owner = "left" THEN [Drop(k) EXCEPT !.owner = "gone"] ELSE k]
    /\ Goto(h, "free")
    /\ UNCHANGED <<ring, nthreads, sem, end>>

(* ffthpool_task_free(t) *)
FreeTask(h) ==
    /\ at[h].pc = "free"
    /\ task' = [task EXCEPT ![at[h].t] = Drop(@)]
    /\ at' = [at EXCEPT ![h] = [Idle EXCEPT !.pc = "loop"]]
    /\ UNCHANGED <<ring, nthreads, sem, end>>

-----------------------------------------------------------------------------
(* ffthpool_free(), by the main thread when the program stops: all tracks have
   been freed, and their files closed. *)
Stop ==
    /\ main = "run"
    /\ \A p \in Writers : at[p].pc = "idle"
    /\ \A t \in 1 .. Len(task) : task[t].owner # "held"
    /\ stop' = TRUE /\ main' = "post"
    /\ UNCHANGED <<ring, at, nthreads, sem, joined, late, task>>

(* Slip of ffthpool_free(): one post, as if it woke all who wait. *)
WakeOne ==
    /\ main = "post"
    /\ sem' = sem + 1
    /\ main' = "join"
    /\ UNCHANGED <<ring, at, nthreads, stop, joined, late, task>>

(* One ffsem_post() for each thread. *)
WakeAll ==
    /\ main = "post"
    /\ sem' = sem + nthreads
    /\ main' = "join"
    /\ UNCHANGED <<ring, at, nthreads, stop, joined, late, task>>

(* ffthd_join(), in the order of their creation: a thread whose handler takes
   longer than 5 seconds is given up on. *)
Join ==
    /\ main = "join" /\ Cardinality(joined) < nthreads
    /\ LET h == Cardinality(joined) + 1
       IN  /\ joined' = joined \cup {h}
           /\ \/ at[h].pc = "exit" /\ UNCHANGED late
              \/ at[h].pc = "handler" /\ late' = late \cup {h}
    /\ UNCHANGED <<ring, at, nthreads, sem, stop, main, task>>

(* The pool's memory is freed, if no thread is left. *)
FreePool ==
    /\ main = "join" /\ Cardinality(joined) = nthreads
    /\ main' = IF late = {} THEN "freed" ELSE "kept"
    /\ UNCHANGED <<ring, at, nthreads, sem, stop, joined, late, task>>

-----------------------------------------------------------------------------
UserStep(p) == Writing(p) \/ Refused(p) \/ Decide(p) \/ NewThread(p) \/ NoThread(p) \/ Post(p)

ThreadStep(h) == Loop(h) \/ Reading(h) \/ Wait(h) \/ Handler(h) \/ FreeTask(h)

MainStep == WakeAll \/ Join \/ FreePool

Terminated ==
    /\ main \in {"freed", "kept"} /\ \A h \in 1 .. nthreads : at[h].pc = "exit"
    /\ UNCHANGED vars

Next ==
    \/ \E p \in Writers : Add(p) \/ UserStep(p)
    \/ \E t \in 1 .. Len(task) : Collect(t) \/ Leave(t)
    \/ \E h \in Readers : ThreadStep(h)
    \/ Stop \/ MainStep
    \/ Terminated

(* A runnable thread runs, and a handler ends. *)
Fairness ==
    /\ \A p \in Writers : WF_vars(UserStep(p))
    /\ \A h \in Readers : WF_vars(ThreadStep(h))
    /\ WF_vars(MainStep)

SafeSpec == Init /\ [][Next]_vars
Spec == SafeSpec /\ Fairness

-----------------------------------------------------------------------------
UserPcs == {"idle", "write", "decide", "thread", "post"}
ThreadPcs == {"none", "loop", "read", "wait", "handler", "free", "exit"}
AtType == [pc : UserPcs \cup ThreadPcs, t : Items \cup {NoItem}, empty : BOOLEAN]

TaskType ==
    [ref : 0 .. 2, owner : {"held", "left", "gone"}, added : {"pending", "yes", "refused", "failed"},
     runs : 0 .. 1, freed : BOOLEAN]

(* The pool's state is well typed: no handler runs twice and no counter goes
   below zero. *)
TypeOK ==
    /\ RingTypeOK
    /\ at \in [Procs -> AtType]
    /\ \A p \in Writers : at[p].pc \in UserPcs
    /\ \A h \in Readers : at[h].pc \in ThreadPcs
    /\ nthreads \in 0 .. MaxThreads /\ sem \in 0 .. Budget + MaxThreads
    /\ stop \in BOOLEAN /\ main \in {"run", "post", "join", "freed", "kept"}
    /\ late \subseteq joined /\ joined \subseteq 1 .. nthreads
    /\ task \in Seq(TaskType) /\ Len(task) <= Budget

InRing(t) ==
    \/ \E p \in Writers : at[p].pc = "write" /\ at[p].t = t
    \/ \E i \in 1 .. Len(Complete) : Complete[i] = t

(* ffthpool_task.ref: a task has one reference for its user, until it takes the
   result or, if it has closed the file, its handler is done; and one for the
   ring and then the thread that runs it.  It is freed with the last of them,
   whoever gives it up: not before its handler has returned, and not never. *)
TaskRefs ==
    \A t \in 1 .. Len(task) :
        LET user == IF task[t].owner = "gone" THEN 0 ELSE 1
            ringOrThread == IF InRing(t) \/ \E h \in Readers : at[h].t = t THEN 1 ELSE 0
        IN  task[t].ref = user + ringOrThread /\ (task[t].freed <=> task[t].ref = 0)

(* A task that was added does not lie in the ring while all threads of the pool
   wait for the semaphore and none of them is about to be woken. *)
NoTaskSleeps ==
    \A i \in 1 .. Len(Complete) :
        task[Complete[i]].added = "yes" =>
            stop \/ sem > 0 \/ \E h \in 1 .. nthreads : at[h].pc # "wait"

(* ffthpool_add() that succeeds is a promise: unless the program stops, the
   task's handler is run. *)
EveryTaskRuns ==
    \A t \in Items :
        (t <= Len(task) /\ task[t].added = "yes") ~> (stop \/ (t <= Len(task) /\ task[t].runs = 1))

(* ffthpool_free() comes to an end: every thread sees the flag, the ones that
   sleep and the ones that are about to, and is joined; and the pool's memory
   is freed only when no thread is left to use it. *)
StopFrees ==
    stop ~> \/ main = "kept" /\ late # {}
            \/ main = "freed" /\ \A h \in 1 .. nthreads : at[h].pc = "exit"
=============================================================================
