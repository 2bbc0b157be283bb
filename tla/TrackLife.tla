------------------------------ MODULE TrackLife ------------------------------
(***************************************************************************)
(* The life of tracks: trk_cmd(), trk_onstop(), trk_fin(), trk_free() and   *)
(* the outline of trk_process() of src/core/track.c.                       *)
(*                                                                         *)
(* A track runs as a task of a worker: the main thread (worker 0), or      *)
(* another one if it was started with FMED_TRACK_XSTART.  It runs until a  *)
(* filter has to wait for something outside; whoever completes that        *)
(* operation posts the task again.  Stopping is a task of the same worker, *)
(* freeing always is a task of the main thread.  The filters of a track    *)
(* are abstracted to one that works for a while, waits, fails or ends      *)
(* (TrackChain looks inside), and posting a task to its signal and wake-up *)
(* (TaskQueue looks inside).                                               *)
(***************************************************************************)
EXTENDS Naturals, Sequences, FiniteSets, SequencesExt, TaskList

CONSTANTS
    Tracks,
    Parallel,     \* tracks started with FMED_TRACK_XSTART
    Playbacks,    \* tracks of type FMED_TRK_TYPE_PLAYBACK
    MaxPauses     \* bound: FMED_TRACK_PAUSE commands

ASSUME LifeAssumption ==
    /\ IsFiniteSet(Tracks) /\ Parallel \subseteq Tracks /\ Playbacks \subseteq Tracks
    /\ MaxPauses \in Nat

VARIABLES
    st,        \* fm_trk.state; "none" before trk_create(), "freed" after trk_free()
    fstop,     \* FMED_FSTOP
    q,         \* q[th]: the tasks queued for a worker, <<task, track>>
    run,       \* run[th]: what the worker's thread is doing
    op,        \* op[t]: a filter's operation is going on outside
    stop_sig,  \* FMED_TRACK_STOPALL_EXIT was given
    exited,    \* core->sig(FMED_STOP) was called
    pauses,    \* FMED_TRACK_PAUSE commands given
    asked,     \* history: the track was told to stop
    finished   \* history: trk_fin() was called

told == <<asked, pauses>>
vars == <<st, fstop, q, run, op, stop_sig, exited, told, finished>>

Threads == {"main", "worker"}
Tasks == {"tsk", "tsk_stop", "tsk_main"} \X Tracks

(* t->wid *)
Worker(t) == IF t \in Parallel THEN "worker" ELSE "main"

Idle == [at |-> "idle"]
Inside(th, t) == run[th].at # "idle" /\ run[th].t = t
Exists(t) == st[t] \notin {"none", "freed"}

(* g->trks *)
Live == {t \in Tracks : st[t] \in {"ACTIVE", "PAUSED", "ERR"}}

ListIsEmpty(t) == Live = {}

(* No track but t is in the list. *)
LastOne(t) == Live \subseteq {t}

TypeOK ==
    /\ st \in [Tracks -> {"none", "STOPPED", "ACTIVE", "PAUSED", "ERR", "freed"}]
    /\ fstop \in [Tracks -> BOOLEAN] /\ op \in [Tracks -> BOOLEAN]
    /\ asked \in [Tracks -> BOOLEAN] /\ finished \in [Tracks -> BOOLEAN]
    /\ q \in [Threads -> Seq(Tasks)] /\ \A th \in Threads : IsInjective(q[th])
    /\ run \in [Threads -> {Idle} \cup [at : {"process", "onstop"}, t : Tracks,
                                       nested : BOOLEAN, len : Nat]]
    /\ stop_sig \in BOOLEAN /\ exited \in BOOLEAN
    /\ pauses \in 0 .. MaxPauses

Init ==
    /\ st = [t \in Tracks |-> "none"]
    /\ fstop = [t \in Tracks |-> FALSE] /\ op = fstop
    /\ asked = fstop /\ finished = fstop
    /\ q = [th \in Threads |-> <<>>] /\ run = [th \in Threads |-> Idle]
    /\ stop_sig = FALSE /\ exited = FALSE
    /\ pauses = 0

-----------------------------------------------------------------------------
PostTo(queues, th, task) == [queues EXCEPT ![th] = Posted(@, task)]

WokenIfIdle(queues, t) ==
    IF \E th \in Threads : Inside(th, t) THEN queues ELSE PostTo(queues, Worker(t), <<"tsk", t>>)

(* FMED_TRACK_WAKE *)
Woken(queues, t) == PostTo(queues, Worker(t), <<"tsk", t>>)

(* trk_process() is entered: core_job_enter() notes the length of the queue. *)
Enter(th, t, nested, queues) ==
    [run EXCEPT ![th] = [at |-> "process", t |-> t, nested |-> nested, len |-> Len(queues[Worker(t)])]]

(* trk_process() returns: to the worker's loop, or to trk_onstop(). *)
Left(th) == IF run[th].nested THEN [run EXCEPT ![th].at = "onstop"] ELSE [run EXCEPT ![th] = Idle]

(* The main thread calls a command of a track between two of its tasks. *)
MainIsFree == run["main"] = Idle

(* trk_create() *)
Create(t) ==
    /\ MainIsFree /\ st[t] = "none"
    /\ st' = [st EXCEPT ![t] = "STOPPED"]
    /\ UNCHANGED <<fstop, q, run, op, stop_sig, exited, told, finished>>

(* FMED_TRACK_START, FMED_TRACK_XSTART: the track is active and its task
   posted, or its filters cannot be added and it is freed at once. *)
Start(t) ==
    /\ MainIsFree /\ Exists(t) /\ st[t] = "STOPPED" /\ ~asked[t]
    /\ \/ /\ st' = [st EXCEPT ![t] = "ACTIVE"]
          /\ q' = Woken(q, t)
          /\ UNCHANGED exited
       \/ /\ st' = [st EXCEPT ![t] = "freed"]
          /\ exited' = (exited \/ (stop_sig /\ LastOne(t)))
          /\ UNCHANGED q
    /\ UNCHANGED <<fstop, run, op, stop_sig, told, finished>>

(* FMED_TRACK_STOP, and trk_stop() *)
Stop(t) ==
    /\ MainIsFree /\ Exists(t) /\ ~asked[t]
    /\ q' = PostTo(q, Worker(t), <<"tsk_stop", t>>)
    /\ asked' = [asked EXCEPT ![t] = TRUE]
    /\ UNCHANGED <<st, fstop, run, op, stop_sig, exited, pauses, finished>>

(* FMED_TRACK_STOPALL_EXIT: given once, it stops all tracks and the last one
   that is freed ends the program; given again, or without tracks, it ends the
   program at once. *)
StopAllExit ==
    /\ MainIsFree /\ ~exited
    /\ IF Live = {} \/ stop_sig
       THEN exited' = TRUE /\ UNCHANGED <<stop_sig, q, asked>>
       ELSE /\ stop_sig' = TRUE
            /\ q' = [th \in Threads |->
                        AllPosted(q[th], {<<"tsk_stop", t>> : t \in {u \in Live : Worker(u) = th}})]
            /\ asked' = [t \in Tracks |-> asked[t] \/ t \in Live]
            /\ UNCHANGED exited
    /\ UNCHANGED <<st, fstop, run, op, pauses, finished>>

(* FMED_TRACK_PAUSE, for one track or for all; the state is set whatever it
   was. *)
Pause(t) ==
    /\ MainIsFree /\ t \in Live /\ pauses < MaxPauses
    /\ st' = [st EXCEPT ![t] = "PAUSED"]
    /\ pauses' = pauses + 1
    /\ UNCHANGED <<fstop, q, run, op, stop_sig, exited, asked, finished>>

(* FMED_TRACK_UNPAUSE: trk_process() is called here and now, by the main thread. *)
Unpause(t) ==
    /\ MainIsFree /\ t \in Live /\ st[t] = "PAUSED"
    /\ st' = [st EXCEPT ![t] = "ACTIVE"]
    /\ run' = Enter("main", t, FALSE, q)
    /\ UNCHANGED <<fstop, q, op, stop_sig, exited, told, finished>>

(* The operation that a filter waits for is complete: FMED_TRACK_WAKE, called by
   a thread of the pool, a timer or a device. *)
Complete(t) ==
    /\ op[t]
    /\ op' = [op EXCEPT ![t] = FALSE]
    /\ q' = Woken(q, t)
    /\ UNCHANGED <<st, fstop, run, stop_sig, exited, told, finished>>

-----------------------------------------------------------------------------
(* A worker takes the next task: trk_process(). *)
RunTask(th) ==
    /\ run[th] = Idle /\ q[th] # <<>> /\ Head(q[th])[1] = "tsk"
    /\ q' = [q EXCEPT ![th] = Tail(@)]
    /\ run' = Enter(th, Head(q[th])[2], FALSE, q')
    /\ UNCHANGED <<st, fstop, op, stop_sig, exited, told, finished>>

(* trk_onstop(): a paused track is made to go on so that its filters can end. *)
RunStop(th) ==
    /\ run[th] = Idle /\ q[th] # <<>> /\ Head(q[th])[1] = "tsk_stop"
    /\ q' = [q EXCEPT ![th] = Tail(@)]
    /\ LET t == Head(q[th])[2]
       IN /\ fstop' = [fstop EXCEPT ![t] = TRUE]
          /\ IF st[t] = "PAUSED"
             THEN st' = [st EXCEPT ![t] = "ACTIVE"] /\ run' = Enter(th, t, TRUE, q')
             ELSE /\ run' = [Enter(th, t, TRUE, q') EXCEPT ![th].at = "onstop"]
                  /\ UNCHANGED st
    /\ UNCHANGED <<op, stop_sig, exited, told, finished>>

(* trk_fin() *)
Finish(t) ==
    /\ q' = PostTo(q, "main", <<"tsk_main", t>>)
    /\ finished' = [finished EXCEPT ![t] = TRUE]

(* The end of trk_onstop(). *)
AfterStop(th) ==
    /\ run[th].at = "onstop"
    /\ IF st[run[th].t] # "ACTIVE" THEN Finish(run[th].t) ELSE UNCHANGED <<q, finished>>
    /\ run' = [run EXCEPT ![th] = Idle]
    /\ UNCHANGED <<st, fstop, op, stop_sig, exited, told>>

WithoutMain(queues, t) == [queues EXCEPT !["main"] = Deleted(@, <<"tsk_main", t>>)]

(* The queues without the tasks of a track: FMED_TASK_DEL, FMED_TASK_XDEL. *)
Without(queues, t) ==
    LET rest == [queues EXCEPT !["main"] = Deleted(@, <<"tsk_main", t>>)]
    IN [rest EXCEPT ![Worker(t)] = Deleted(Deleted(@, <<"tsk", t>>), <<"tsk_stop", t>>)]

(* trk_free(), on the main thread only: the track's tasks are deleted, its filters
   closed and so their operations cancelled. *)
RunFree ==
    /\ run["main"] = Idle /\ q["main"] # <<>> /\ Head(q["main"])[1] = "tsk_main"
    /\ LET t == Head(q["main"])[2]
       IN /\ q' = Without(q, t)
          /\ op' = [op EXCEPT ![t] = FALSE]
          /\ st' = [st EXCEPT ![t] = "freed"]
          /\ exited' = (exited \/ (stop_sig /\ LastOne(t)))
    /\ UNCHANGED <<fstop, run, stop_sig, told, finished>>

-----------------------------------------------------------------------------
(* trk_process() *)
StopsAtOnce(t) == fstop[t] /\ t \in Playbacks
(* core_job_shouldyield(): the worker's queue has changed since trk_process()
   was entered. *)
ShouldYield(th, t) == Len(q[Worker(t)]) # run[th].len

CallsFilter(th) ==
    /\ run[th].at = "process"
    /\ LET t == run[th].t IN st[t] = "ACTIVE" /\ ~StopsAtOnce(t) /\ ~ShouldYield(th, t)

(* trk_process() leaves before it calls a filter. *)
Leave(th) ==
    /\ run[th].at = "process"
    /\ LET t == run[th].t
       IN \/ /\ st[t] = "ERR" \/ (st[t] = "ACTIVE" /\ StopsAtOnce(t))
             /\ Finish(t)
          \/ /\ st[t] = "PAUSED"
             /\ UNCHANGED <<q, finished>>
          \/ /\ st[t] = "ACTIVE" /\ ~StopsAtOnce(t) /\ ShouldYield(th, t)
             /\ q' = Woken(q, t)
             /\ UNCHANGED finished
    /\ run' = Left(th)
    /\ UNCHANGED <<st, fstop, op, stop_sig, exited, told>>

(* A playback device has failed: it sets FMED_FSTOP (FMED_TRACK_STOPPED) and
   trk_process() goes on.  A filter that merely has it go on changes nothing
   here. *)
DeviceFails(th) ==
    /\ CallsFilter(th) /\ run[th].t \in Playbacks
    /\ fstop' = [fstop EXCEPT ![run[th].t] = TRUE]
    /\ UNCHANGED <<st, q, run, op, stop_sig, exited, told, finished>>

(* A filter waits for an operation of its own (FMED_RASYNC); or it is a playback
   device that the user wants paused. *)
Waits(th) ==
    /\ CallsFilter(th)
    /\ LET t == run[th].t
       IN \/ /\ op' = [op EXCEPT ![t] = TRUE]
             /\ UNCHANGED <<st, pauses>>
          \/ /\ t \in Playbacks /\ pauses < MaxPauses
             /\ st' = [st EXCEPT ![t] = "PAUSED"]
             /\ pauses' = pauses + 1
             /\ UNCHANGED op
    /\ run' = Left(th)
    /\ UNCHANGED <<fstop, q, stop_sig, exited, asked, finished>>

(* The last filter of the chain ends, or one asks for the end (FMED_RFIN). *)
Ends(th) ==
    /\ CallsFilter(th)
    /\ Finish(run[th].t)
    /\ run' = Left(th)
    /\ UNCHANGED <<st, fstop, op, stop_sig, exited, told>>

(* A filter fails: FMED_RERR; the track finishes in the state ERR. *)
Fails(th) ==
    /\ CallsFilter(th)
    /\ st' = [st EXCEPT ![run[th].t] = "ERR"]
    /\ Finish(run[th].t)
    /\ run' = Left(th)
    /\ UNCHANGED <<fstop, op, stop_sig, exited, told>>

Step(th) ==
    \/ RunTask(th) \/ RunStop(th) \/ AfterStop(th) \/ Leave(th)
    \/ DeviceFails(th) \/ Waits(th) \/ Ends(th) \/ Fails(th)

(* No track is left, and no more can be started. *)
Terminated == (\A t \in Tracks : st[t] = "freed") /\ exited /\ UNCHANGED vars

Next ==
    \/ StopAllExit \/ RunFree
    \/ \E t \in Tracks : Create(t) \/ Start(t) \/ Stop(t) \/ Pause(t) \/ Unpause(t) \/ Complete(t)
    \/ \E th \in Threads : Step(th)
    \/ Terminated

EndsStopped(t) == \E th \in Threads : run[th].at = "process" /\ run[th].t = t /\ fstop[t] /\ Ends(th)

(* Workers run their tasks and filters return; operations outside complete;
   filters that see FMED_FSTOP do not wait for ever instead of ending.  Nothing
   makes the user start, stop or pause a track, and nothing but a stop makes a
   track end. *)
Spec ==
    /\ Init /\ [][Next]_vars
    /\ \A th \in Threads : WF_vars(Step(th))
    /\ WF_vars(RunFree)
    /\ \A t \in Tracks : WF_vars(Complete(t)) /\ SF_vars(EndsStopped(t))

-----------------------------------------------------------------------------
(* After trk_free() nothing refers to the track any more: no task in a queue, no
   thread inside one of its functions, no operation that will wake it. *)
NothingLeftOfFreed ==
    \A t \in Tracks : st[t] = "freed" =>
        /\ \A th \in Threads : ~Inside(th, t)
                               /\ \A i \in DOMAIN q[th] : q[th][i][2] # t
        /\ ~op[t]

(* An active track that no thread is working on will be woken: its task is
   queued, or an operation is going on whose completion posts it.  In
   particular a completion while trk_process() runs is not lost, and neither
   is one that a paused track has slept through. *)
WakeIsNotLost ==
    \A t \in Tracks :
        (st[t] = "ACTIVE" /\ ~finished[t] /\ \A th \in Threads : ~Inside(th, t))
            => op[t] \/ Contains(q[Worker(t)], <<"tsk", t>>)

(* A track that was told to stop is freed, started or not, paused or waiting,
   unless it is paused again afterwards. *)
StopEnds == \A t \in Tracks : asked[t] ~> st[t] \in {"freed", "PAUSED"}

(* FMED_TRACK_STOPALL_EXIT ends the program when the last track is freed, unless
   a track is paused again, or started, after the command. *)
ExitHappens ==
    stop_sig ~> (exited \/ \E t \in Live : st[t] = "PAUSED" \/ ~asked[t])

(* Both: a stop reaches its track, and the last track ends the program. *)
StopsComeThrough == StopEnds /\ ExitHappens

(* "Finish processing for the track": once trk_fin() was called no filter of the
   track is called again. *)
NoCallAfterFin == \A th \in Threads : CallsFilter(th) => ~finished[run[th].t]

(* core_job_enter() asserts that trk_process() runs on the thread of the track's
   worker. *)
OnOwnThread == \A th \in Threads : run[th].at = "process" => Worker(run[th].t) = th
=============================================================================
