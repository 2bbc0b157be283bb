------------------------------ MODULE TaskQueue ------------------------------
(***************************************************************************)
(* The task queue of one worker (src/util/taskqueue.h) and the event loop  *)
(* of the thread that drains it (src/core/core-work.h).                    *)
(*                                                                         *)
(* Any thread may post a task.  fftask_post() links the task under the     *)
(* queue's lock and tells whether the queue was empty; only then does the  *)
(* poster signal the worker's kernel queue, in a second step after the     *)
(* lock is released.  The worker sleeps in ffkqu_wait(); for every event   *)
(* it gets it calls the event's handler and then fftask_run(), which takes *)
(* at most MaxRun tasks off the queue and calls their handlers.  A handler *)
(* runs on the worker's thread and may itself post, delete or stop.        *)
(***************************************************************************)
EXTENDS Naturals, Sequences

CONSTANTS
    Tasks,          \* fftask objects
    Posters,        \* threads other than the worker's own
    WThread,        \* the worker's thread
    Stoppers,       \* threads that may play the main thread's part in FMED_STOP
    NoTask,         \* a null fftask pointer
    MaxRun,         \* fftaskmgr.max_run (64 in the code)
    PostBudget      \* bound: how many calls of fftask_post() a behaviour has

Threads == Posters \cup {WThread}

ASSUME ThreadAssumption == WThread \notin Posters /\ Stoppers \subseteq Threads
ASSUME TaskAssumption == NoTask \notin Tasks
ASSUME RunAssumption == MaxRun \in Nat \ {0} /\ PostBudget \in Nat

VARIABLES
    tasks,    \* fftaskmgr.tasks, first to last
    kqsig,    \* the kernel queue's user event is signalled and not consumed
    sig,      \* sig[th]: th is about to call ffkqu_post()
    stopped,  \* fmed->stopped
    loop,     \* where the worker's thread is in work_loop() and fftask_run()
    evs,      \* events of the last ffkqu_wait() not yet handled
    n,        \* fftask_run(): how many more tasks may be run
    it,       \* fftask_run(): the item read from the list
    gaveUp,   \* history: the last fftask_run() hit MaxRun with tasks left
    posted    \* number of posts so far, bounded by PostBudget

queue == <<tasks, posted>>
worker == <<loop, evs, n, it, gaveUp>>
vars == <<tasks, kqsig, sig, stopped, loop, evs, n, it, gaveUp, posted>>

Events == {"posted", "other"}   \* w->evposted; timers, signals and I/O

TypeOK ==
    /\ tasks \in Seq(Tasks)
    /\ kqsig \in BOOLEAN
    /\ sig \in [Threads -> BOOLEAN]
    /\ stopped \in BOOLEAN
    /\ loop \in {"head", "wait", "event", "pick", "unlink", "handler", "exit"}
    /\ evs \subseteq Events
    /\ n \in 0 .. MaxRun
    /\ it \in Tasks \cup {NoTask}
    /\ gaveUp \in BOOLEAN
    /\ posted \in 0 .. PostBudget

(* fftask_active(): the item is linked into the list. *)
Active(t) == \E i \in 1 .. Len(tasks) : tasks[i] = t

(* fflist_rm(): s without its i-th item. *)
RemoveItem(s, i) == [j \in 1 .. Len(s) - 1 |-> IF j < i THEN s[j] ELSE s[j + 1]]

(* A thread that is free to call into the core: the worker's own thread only
   while it is inside a task's handler. *)
CanCall(th) == ~sig[th] /\ (th = WThread => loop = "handler")

Init ==
    /\ tasks = <<>>
    /\ kqsig = FALSE
    /\ sig = [th \in Threads |-> FALSE]
    /\ stopped = FALSE
    /\ loop = "head"
    /\ evs = {}
    /\ n = 0
    /\ it = NoTask
    /\ gaveUp = FALSE
    /\ posted = 0

-----------------------------------------------------------------------------
(* Slips of fftask_post() that its properties must notice: the queue tested for
   emptiness after the insertion; no test that the task is queued already. *)
PostTestsEmptyLate(th, t) ==
    /\ CanCall(th) /\ posted < PostBudget /\ posted' = posted + 1
    /\ tasks' = IF Active(t) THEN tasks ELSE Append(tasks, t)
    /\ UNCHANGED <<sig, kqsig, stopped, worker>>

PostTwice(th, t) ==
    /\ CanCall(th) /\ posted < PostBudget /\ posted' = posted + 1
    /\ tasks' = Append(tasks, t)
    /\ sig' = [sig EXCEPT ![th] = (tasks = <<>>)]
    /\ UNCHANGED <<kqsig, stopped, worker>>

(* fftask_post() and the first half of its callers: nothing happens to a task
   that is queued already, and only the post that finds the queue empty goes
   on to signal the worker. *)
Post(th, t) ==
    /\ CanCall(th)
    /\ posted < PostBudget
    /\ posted' = posted + 1
    /\ IF Active(t)
       THEN UNCHANGED <<tasks, sig>>
       ELSE /\ tasks' = Append(tasks, t)
            /\ sig' = [sig EXCEPT ![th] = (tasks = <<>>)]
    /\ UNCHANGED <<kqsig, stopped, worker>>

(* ffkqu_post(&w->kqpost, &w->evposted), after a post or from FMED_STOP. *)
Signal(th) ==
    /\ sig[th]
    /\ sig' = [sig EXCEPT ![th] = FALSE]
    /\ kqsig' = TRUE
    /\ UNCHANGED <<queue, stopped, worker>>

(* fftask_del() by the worker's thread, the queue's "one reader/deleter". *)
Delete(t) ==
    /\ CanCall(WThread)
    /\ \E i \in 1 .. Len(tasks) : tasks[i] = t /\ tasks' = RemoveItem(tasks, i)
    /\ UNCHANGED <<kqsig, sig, stopped, worker, posted>>

(* Slip of FMED_STOP: the workers are not woken. *)
StopSilently(th) ==
    /\ th \in Stoppers /\ CanCall(th) /\ ~stopped /\ stopped' = TRUE
    /\ UNCHANGED <<queue, sig, kqsig, worker>>

(* FMED_STOP: the flag first, then the signal that makes the worker see it. *)
Stop(th) ==
    /\ th \in Stoppers
    /\ CanCall(th)
    /\ ~stopped
    /\ stopped' = TRUE
    /\ sig' = [sig EXCEPT ![th] = TRUE]
    /\ UNCHANGED <<queue, kqsig, worker>>

-----------------------------------------------------------------------------
(* while (!fmed->stopped) *)
LoopHead ==
    /\ loop = "head"
    /\ loop' = IF stopped THEN "exit" ELSE "wait"
    /\ UNCHANGED <<queue, kqsig, sig, stopped, evs, n, it, gaveUp>>

(* ffkqu_wait() with an infinite timeout: it returns the user event when it is
   signalled, and any event of another source at any time. *)
Wait ==
    /\ loop = "wait"
    /\ \E ready \in SUBSET Events :
        /\ ready # {}
        /\ "posted" \in ready => kqsig
        /\ evs' = ready
    /\ loop' = "event"
    /\ UNCHANGED <<queue, kqsig, sig, stopped, n, it, gaveUp>>

AfterRun == IF evs = {} THEN "head" ELSE "event"

(* ffkev_call(): the handler of the user event consumes the signal, a signal
   that arrived since ffkqu_wait() returned included; then fftask_run(). *)
Event ==
    /\ loop = "event"
    /\ \E e \in evs :
        /\ evs' = evs \ {e}
        /\ kqsig' = (kqsig /\ e # "posted")
    /\ n' = MaxRun
    /\ loop' = "pick"
    /\ UNCHANGED <<queue, sig, stopped, it, gaveUp>>

(* The loop head of fftask_run(): the first item is read without the lock. *)
Pick ==
    /\ loop = "pick"
    /\ IF n = 0 \/ tasks = <<>>
       THEN loop' = AfterRun /\ gaveUp' = (tasks # <<>>) /\ UNCHANGED it
       ELSE loop' = "unlink" /\ it' = Head(tasks) /\ UNCHANGED gaveUp
    /\ UNCHANGED <<queue, kqsig, sig, stopped, evs, n>>

(* Unlink the item read before under the lock; its handler starts. *)
Unlink ==
    /\ loop = "unlink"
    /\ \E i \in 1 .. Len(tasks) : tasks[i] = it /\ tasks' = RemoveItem(tasks, i)
    /\ loop' = "handler"
    /\ UNCHANGED <<kqsig, sig, stopped, evs, n, it, gaveUp, posted>>

(* task->handler(task->param) returns. *)
Return ==
    /\ loop = "handler"
    /\ ~sig[WThread]
    /\ n' = n - 1
    /\ loop' = "pick"
    /\ UNCHANGED <<queue, kqsig, sig, stopped, evs, it, gaveUp>>

WorkerStep == LoopHead \/ Wait \/ Event \/ Pick \/ Unlink \/ Return

(* The worker's thread has left work_loop() and every poster is idle. *)
Terminated == loop = "exit" /\ (\A th \in Threads : ~sig[th]) /\ UNCHANGED vars

Next ==
    \/ WorkerStep
    \/ \E th \in Threads : Signal(th) \/ Stop(th) \/ (\E t \in Tasks : Post(th, t))
    \/ \E t \in Tasks : Delete(t)
    \/ Terminated

(* A runnable thread runs; the kernel delivers a signalled event; handlers
   return.  Nothing makes a thread post, delete or stop, or an event of
   another source arrive. *)
Fairness ==
    /\ WF_vars(LoopHead \/ Event \/ Pick \/ Unlink \/ Return)
    /\ WF_vars(Wait /\ kqsig)
    /\ \A th \in Threads : WF_vars(Signal(th))

SafeSpec == Init /\ [][Next]_vars
Spec == SafeSpec /\ Fairness

-----------------------------------------------------------------------------
(* A worker that has gone back to sleep leaves tasks behind only if its last
   fftask_run() gave up after MaxRun tasks: in every other case a signal is
   on its way.  (fftask_post(), xtask(), work_loop()) *)
NoStrandedTask ==
    (loop \in {"head", "wait"} /\ tasks # <<>>)
        => kqsig \/ (\E th \in Threads : sig[th]) \/ gaveUp

(* The item that fftask_run() unlinks is still the first of the list although
   it was read before the lock was taken: tasks run first in, first out. *)
RunsInOrder == [][Unlink => it = Head(tasks) /\ tasks' = Tail(tasks)]_vars

(* No task is linked twice: a task posted again before it ran runs once. *)
LinkedOnce == \A i, j \in 1 .. Len(tasks) : tasks[i] = tasks[j] => i = j

(* taskqueue.h:22-24, "Queue of arbitrary length containing tasks. First in,
   first out. One reader/deleter, multiple writers": with the task whose handler
   runs as the one that has been taken, whatever the threads do is what a Fifo
   allows, so that each post runs once, in the order of the posts. *)
Promise == INSTANCE Fifo WITH
    Items <- Tasks, NoItem <- NoTask, Readers <- {WThread}, Deleters <- {WThread},
    Capacity <- PostBudget, items <- tasks,
    taken <- [r \in {WThread} |-> IF loop = "handler" THEN it ELSE NoTask]
ImplementsFifo == Promise!Spec

(* Every task that is posted is run, or deleted, unless the program stops. *)
EveryTaskRuns == \A t \in Tasks : Active(t) ~> (~Active(t) \/ stopped)

(* FMED_STOP makes the worker leave its loop even if it is about to sleep. *)
StopEndsLoop == stopped ~> (loop = "exit")

(* The loop neither leaves a task behind nor misses the stop. *)
LoopGoesOn == EveryTaskRuns /\ StopEndsLoop
=============================================================================
