----------------------------- MODULE PhoneChain -----------------------------
(***************************************************************************)
(* The track of the phone's application: android/fmedia/src/main/c, that is *)
(* track.h, worker.h, ctl.h, file-read.h, file-write.h and the functions of *)
(* fmedia-jni.c that create tracks.  The filters of src/ are the desktop's  *)
(* (module TrackOpen), the processor that walks the chain is another one:   *)
(*   - the filters share one input and one output, t->ti.data_in and        *)
(*     data_out: what a filter does not take at once is gone;               *)
(*   - a filter that has ended leaves the chain at once, and is closed only *)
(*     with the track; its place in the pool is not used again;             *)
(*   - a recording runs on the worker thread and is freed after the         *)
(*     application's call of FMED_TRACK_STOP, which may come at any time,   *)
(*     whether the recording is running, has ended or is just ending;       *)
(*   - other tracks run inside FMED_TRACK_START on the caller's thread.     *)
(***************************************************************************)
EXTENDS TrackOpen, FiniteSets, SequencesExt

CONSTANT Options        \* the options of the tracks, see TrackOpen and PhoneFilters

VARIABLES
    conf,     \* the track's options; they stay
    pool,     \* t->filters_pool: all filters ever added
    active,   \* t->filters: the chain, as places in the pool
    cur,      \* t->cur; 0 is -1
    data,     \* t->ti.data_in, in units of audio data
    fwd,      \* FMED_FFWD
    state,    \* t->state
    error,    \* t->ti.error is set
    pc,       \* where trk_process() or trk_close() is; "idle": it does not run
    task,     \* t->worker is in the worker's queue
    app,      \* the application's side of a recording
    files,    \* what is stored under the output's name, and under name.tmp
    left,     \* units still in the source
    sunk,     \* units that are written to the output file
    dropped,  \* history: units that filters have given up
    asyncs    \* times that the track has waited with nothing done

chainVars == <<pool, active, cur, data, fwd>>
units == <<left, sunk, dropped>>
vars == <<conf, chainVars, state, error, pc, task, app, files, units, asyncs>>

-----------------------------------------------------------------------------
(* Fmedia_convert(): what has been put into the chain for the output's extension;
   .mp3 only as a copy of .mp3, which fmt.mp3 adds the filter for. *)
Converter(c) == If(~(Set(c, "copy") /\ c.out = "mp3.out"), <<c.out>>)

(* Fmedia_meta() *)
MetaFilters == <<"core.file", "detector", "ctl">>

(* Fmedia_convert() *)
ConvertFilters(c) ==
    <<"core.file", "detector", "until", "ctl", "autoconv">> \o Converter(c) \o <<"core.filew">>

(* Fmedia_recStart() *)
RecFilters(c) ==
    <<"mon", "aaudio.in">> \o If(Set(c, "until"), <<"until">>) \o <<"ctl">>
    \o If(Set(c, "gain"), <<"gain">>) \o <<"autoconv", c.out, "core.filew">>

(* qu_load_file() *)
ExpandFilters(c) == <<"core.file">> \o If(Set(c, "zstd"), <<"zstd">>) \o <<"m3u">>

(* que_export() of src/core/queue.c, built for the phone. *)
ExportFilters(c) == <<"m3u.out">> \o If(Set(c, "zstd"), <<"zstd">>) \o <<"pl-aow", "core.filew">>

PhoneFilters(c) ==
    CASE c.type = "METAINFO" -> MetaFilters
      [] c.type = "CONVERT" -> ConvertFilters(c)
      [] c.type = "REC" -> RecFilters(c)
      [] c.type = "EXPAND" -> ExpandFilters(c)
      [] c.type = "PLIST" -> ExportFilters(c)

(* FMED_FILTER_BYNAME: mods_filter_byname() knows these. *)
Known ==
    {"core.file", "core.filew", "ctl", "mon", "aaudio.in", "detector", "until", "gain",
     "autoconv", "conv", "soxr", "mp3", "mp3.copy", "mp4", "flac", "ogg", "opus.meta",
     "vorbis.meta", "flac.out", "mp4.out", "aac.decode", "alac.decode", "flac.decode",
     "mpeg.decode", "aac.encode", "flac.encode", "m3u", "m3u.out", "pl-aow", "zstd"}

(* file-read.h: a block for each call, and the end; a file that is not there or
   cannot be read. *)
FileRead(f, t) == Fails(f, t) \cup {IF t.left > 0 THEN OneUnit(f, "DATA") ELSE Says(f, "DONE")}

(* file-write.h: keeps what has not filled its buffer, and writes the rest; at the
   end of the input everything. *)
FileWrite(f, t) ==
    IF ~f.ctx /\ Set(t.c, "exists") /\ ~Set(t.c, "overwrite") THEN {NotOpened(f)}
    ELSE Fails(f, t) \cup
         IF t.first THEN {[Says(f, "DONE") EXCEPT !.in = 0, !.held = 0]}
         ELSE {[Says(f, "MORE") EXCEPT !.in = 0, !.held = k] : k \in 0 .. Has(f)}

(* ctl.h: only .mp3 and .mp4 streams are copied, and .mp4 not into .mp3. *)
Ctl(f, t) ==
    IF Set(t.c, "copy") /\ (t.c.in \notin {"mp3", "mp4"} \/ (t.c.in = "mp4" /\ t.c.out = "mp3.out"))
    THEN {NotOpened(f)}
    ELSE {Passes(f, OnLast(t, "DONE", "OK"))}

(* rectrk_mon in fmedia-jni.c: there to be closed. *)
Mon(f, t) == {Says(f, "DONE")}

(* A packet is shorter than a second, so that soxr takes all of it: what it left in
   data_in would be lost.  m3u-write.h does not look into the lists inside the list,
   and leaves the chain if the list is empty. *)
PhoneAnswers(f, t) ==
    CASE f.kind = "core.file" -> FileRead(f, t)
      [] f.kind = "core.filew" -> FileWrite(f, t)
      [] f.kind = "ctl" -> Ctl(f, t)
      [] f.kind = "mon" -> Mon(f, t)
      [] f.kind = "aaudio.in" -> AaiIn(f, t)
      [] f.kind = "soxr" -> {a \in Soxr(f, t) : a.in = 0 \/ a.code = "ERR"}
      [] f.kind = "m3u.out" ->
           IF t.left = 0 THEN {Skipped(f)} ELSE {a \in M3uWrite(f, t) : a.code # "ASYNC"}
      [] OTHER -> FilterAnswers(f, t)

Sources == {"core.file", "aaudio.in", "m3u.out"}

-----------------------------------------------------------------------------
(* Slip: the pool has been counted for a chain without an encoder. *)
FewerFilters == 11
MaxFilters == 12

NewFilter(kind) ==
    [kind |-> kind, ctx |-> FALSE, skip |-> FALSE, fin |-> FALSE, newdata |-> FALSE,
     in |-> 0, held |-> 0, step |-> 0]

IsRec == conf.type = "REC"
(* FMED_FSTOP: the state is looked at before each call. *)
Stopping == state \in {"STOP", "STOPPING"}

TypeOK ==
    /\ conf \in Options
    /\ Len(pool) \in 1 .. MaxFilters
    /\ ToSet(active) \subseteq DOMAIN pool /\ cur \in 0 .. Len(active)
    /\ {data, left, sunk, dropped} \subseteq 0 .. conf.units
    /\ {fwd, error, task} \subseteq BOOLEAN
    /\ state \in {"RUNNING", "FINISHED", "STOP", "STOPPING"}
    /\ pc \in {"idle", "call", "fin", "close", "free", "freed"}
    /\ app.stop \in {"no", "inTime", "late"} /\ app.told \in BOOLEAN
    /\ files.name \in {"none", "old", "part", "whole"} /\ files.tmp \in {"none", "part"}
    /\ asyncs \in 0 .. conf.waits

(* FMED_TRACK_START makes the first call; FMED_TRACK_XSTART gives the track to the
   worker. *)
Started ==
    /\ cur = 1
    /\ pc = (IF IsRec THEN "idle" ELSE "call") /\ task = IsRec

(* trk_create() and the FMED_TRACK_FILT_ADD commands of the one who creates it. *)
Init ==
    /\ conf \in Options
    /\ LET kinds == PhoneFilters(conf)
       IN /\ pool = [i \in DOMAIN kinds |-> NewFilter(kinds[i])]
          /\ active = [i \in DOMAIN kinds |-> i]
    /\ Started
    /\ data = 0 /\ fwd = FALSE
    /\ state = "RUNNING" /\ error = FALSE
    /\ app = [stop |-> "no", told |-> FALSE]
    /\ files = [name |-> IF Set(conf, "exists") THEN "old" ELSE "none", tmp |-> "none"]
    /\ left = conf.units /\ sunk = 0 /\ dropped = 0 /\ asyncs = 0

-----------------------------------------------------------------------------
(* trk_filter_add(): FMED_TRACK_FILT_ADD puts each filter directly after the
   current one, FMED_TRACK_FILT_ADDPREV directly before it. *)
WithAdded(add, new) ==
    IF add.place = "after"
    THEN SubSeq(active, 1, cur) \o Reverse(new) \o SubSeq(active, cur + 1, Len(active))
    ELSE SubSeq(active, 1, cur - 1) \o new \o SubSeq(active, cur, Len(active))

(* No room in the pool, or no filter of that name: the filter that wanted to add it
   fails. *)
CannotAdd(kinds) == Len(pool) + Len(kinds) > MaxFilters \/ ~(ToSet(kinds) \subseteq Known)

(* Slip: the position stays where the filter was that has ended. *)
RemainingShifted(ch, p, code) ==
    CASE code = "DONE" -> [chain |-> RemoveAt(ch, p), at |-> p]
      [] code = "LASTOUT" -> [chain |-> SubSeq(ch, p + 1, Len(ch)), at |-> 0]
      [] OTHER -> [chain |-> ch, at |-> p]

(* What is left of the chain, and of the position in it, when the filter has
   answered (trk_filter_handle_result()), before the cursor moves. *)
Remaining(ch, p, code) ==
    CASE code = "DONE" -> [chain |-> RemoveAt(ch, p), at |-> p - 1]
      [] code = "LASTOUT" -> [chain |-> SubSeq(ch, p + 1, Len(ch)), at |-> 0]
      [] OTHER -> [chain |-> ch, at |-> p]

Forward == {"DONE", "LASTOUT", "OK", "DATA"}

(* Where the cursor goes, and what trk_process() does next: an error if the first
   filter wants more, the end if no filter is left; a last filter that gives
   something out is called again. *)
Moved(q, code) ==
    CASE code \in Forward /\ q.chain = <<>> -> [at |-> 0, r |-> "FIN"]
      [] code \in Forward /\ q.chain # <<>> ->
           IF q.at = Len(q.chain) THEN [at |-> q.at, r |-> "MORE"] ELSE [at |-> q.at + 1, r |-> "DATA"]
      [] code = "MORE" -> IF q.at = 1 THEN [at |-> 1, r |-> "ERR"] ELSE [at |-> q.at - 1, r |-> "MORE"]
      [] code \in {"ASYNC", "FIN"} -> [at |-> q.at, r |-> code]
      [] OTHER -> [at |-> q.at, r |-> "ERR"]

NextPc(r) == CASE r \in {"MORE", "DATA"} -> "call" [] r = "ASYNC" -> "idle" [] OTHER -> "fin"

Track == [first |-> cur = 1, stop |-> Stopping, left |-> left, c |-> conf]

Seen == state' = IF state = "STOP" THEN "STOPPING" ELSE state

(* Slip: a filter that has answered OK is not passed by when more is wanted. *)
PassedByNever(f) == FALSE
(* trk_filter_run(): a filter that has answered OK is passed by on the way back. *)
PassedBy(f) == f.skip /\ cur # 1

SkipBack ==
    /\ pc = "call" /\ PassedBy(pool[active[cur]])
    /\ pool' = [pool EXCEPT ![active[cur]].skip = FALSE]
    /\ cur' = cur - 1 /\ data' = 0 /\ fwd' = FALSE
    /\ Seen
    /\ UNCHANGED <<conf, active, error, pc, task, app, files, units, asyncs>>

(* The filter's own fields after its call. *)
AfterCall(f, a) ==
    [f EXCEPT !.ctx = a.opened = "yes", !.skip = a.code = "OK", !.step = a.step, !.held = a.held,
              !.fin = f.kind = "core.filew" /\ a.code = "DONE"]

(* fo_open(): an old file is overwritten in place, or name.tmp is written. *)
Opened(f, a) ==
    IF f.kind # "core.filew" \/ f.ctx \/ a.opened # "yes" THEN files
    ELSE IF Set(conf, "tmp") THEN [files EXCEPT !.tmp = "part"] ELSE [files EXCEPT !.name = "part"]

Amount(set) == MapThenSumSet(LAMBDA s : pool[s].held, set)

(* What the filter gives up, and with FMED_RLASTOUT all filters before it. *)
GivenUp(a, before) ==
    a.lost + (IF a.code \in {"DONE", "LASTOUT"} THEN a.in + a.held ELSE 0)
           + (IF a.code = "LASTOUT" THEN Amount(before) ELSE 0)

Idle(f, a) == a.code = "ASYNC" /\ left > 0

(* One call of the current filter (trk_filter_run(), trk_filter_handle_result() and
   the loop of trk_process()). *)
Answered(f, a) ==
    LET n == Len(a.add.kinds)
        new == [k \in 1 .. n |-> Len(pool) + k]
        ch == IF n = 0 THEN active ELSE WithAdded(a.add, new)
        p == IF a.add.place = "before" THEN cur + n ELSE cur
        q == Remaining(ch, p, a.code)
        m == Moved(q, a.code)
    IN /\ pool' = [pool EXCEPT ![active[cur]] = AfterCall(f, a)]
                  \o [k \in 1 .. n |-> NewFilter(a.add.kinds[k])]
       /\ active' = q.chain /\ cur' = m.at
       /\ data' = CASE m.r = "DATA" -> a.out [] m.r = "MORE" -> 0 [] OTHER -> a.in
       /\ fwd' = CASE m.r = "DATA" -> TRUE [] m.r = "MORE" -> FALSE [] OTHER -> fwd
       /\ left' = IF f.kind \in Sources THEN left - a.out ELSE left
       /\ sunk' = IF f.kind = "core.filew" THEN sunk + Has(f) - Has(a) - a.lost ELSE sunk
       /\ dropped' = dropped + GivenUp(a, {active[i] : i \in 1 .. cur - 1})
       /\ pc' = NextPc(IF a.opened = "null" THEN "ERR" ELSE m.r)
       /\ error' = (error \/ m.r = "ERR" \/ a.opened = "null")
       /\ files' = Opened(f, a)
       /\ asyncs' = IF Idle(f, a) THEN asyncs + 1 ELSE asyncs

FailedCall ==
    /\ pc' = "fin" /\ error' = TRUE
    /\ UNCHANGED <<chainVars, files, units, asyncs>>

Call ==
    /\ pc = "call" /\ ~PassedBy(pool[active[cur]])
    /\ \E f \in {[pool[active[cur]] EXCEPT !.in = data, !.newdata = fwd]} :
       \E a \in PhoneAnswers(f, Track) :
          /\ Idle(f, a) => asyncs < conf.waits
          /\ IF CannotAdd(a.add.kinds) THEN FailedCall ELSE Answered(f, a)
    /\ Seen
    /\ UNCHANGED <<conf, task, app>>

-----------------------------------------------------------------------------
(* Slip: the track's end does not look whether the user has stopped it. *)
FinishBlindly ==
    /\ pc = "fin"
    /\ state' = "FINISHED" /\ pc' = "close"
    /\ UNCHANGED <<conf, chainVars, error, task, app, files, units, asyncs>>

(* The end of trk_process(): the track waits for FMED_TRACK_STOP, with its filters
   closed, or it is freed at once if that has come already. *)
Finish ==
    /\ pc = "fin"
    /\ IF state = "RUNNING" THEN state' = "FINISHED" /\ pc' = "close"
                            ELSE pc' = "free" /\ UNCHANGED state
    /\ UNCHANGED <<conf, chainVars, error, task, app, files, units, asyncs>>

Open == {s \in DOMAIN pool : pool[s].ctx}

(* Slip: a file that is not complete stays. *)
FileClosedOnly(f) ==
    IF f.fin THEN [name |-> "whole", tmp |-> "none"] ELSE files

(* fo_close() *)
FileClosed(f) ==
    IF ~f.fin THEN [files EXCEPT !.name = "none"]
    ELSE IF Set(conf, "tmp") THEN [name |-> "whole", tmp |-> "none"]
    ELSE [files EXCEPT !.name = "whole"]

(* rectrk_close(): Callback.on_finish() is for a track that has ended itself. *)
Told(f) == IF f.kind = "mon" /\ state = "FINISHED" THEN [app EXCEPT !.told = TRUE] ELSE app

(* trk_filters_close(): the filters are closed in the order of the pool, so that
   the application is told before the file is closed. *)
CloseFilter ==
    /\ pc \in {"close", "free"} /\ Open # {}
    /\ LET s == CHOOSE s \in Open : \A x \in Open : s <= x
           f == pool[s]
       IN /\ pool' = [pool EXCEPT ![s].ctx = FALSE]
          /\ files' = IF f.kind = "core.filew" THEN FileClosed(f) ELSE files
          /\ app' = Told(f)
    /\ UNCHANGED <<conf, active, cur, data, fwd, state, error, pc, task, units, asyncs>>

(* trk_process() returns; or trk_close() deletes the task and frees the track. *)
Closed ==
    /\ pc \in {"close", "free"} /\ Open = {}
    /\ IF pc = "close" THEN pc' = "idle" /\ UNCHANGED task
                       ELSE pc' = "freed" /\ task' = FALSE
    /\ UNCHANGED <<conf, chainVars, state, error, app, files, units, asyncs>>

(* wrk_loop(): the worker runs the task, trk_process(). *)
RunTask ==
    /\ task /\ pc = "idle"
    /\ task' = FALSE
    /\ pc' = IF state = "FINISHED" THEN "free" ELSE "call"
    /\ UNCHANGED <<conf, chainVars, state, error, app, files, units, asyncs>>

(* audio_oncapt(), on a thread of the system: with recv_events the device's event
   wakes the track whatever the track is doing. *)
Event ==
    /\ ~task /\ \E s \in Open : pool[s].kind = "aaudio.in"
    /\ task' = TRUE
    /\ UNCHANGED <<conf, chainVars, state, error, pc, app, files, units, asyncs>>

(* FMED_TRACK_STOP after FMED_TRACK_START has returned: trk_close(); for a list that
   has been saved nobody calls it. *)
StopSync ==
    /\ ~IsRec /\ pc = "idle" /\ conf.type # "PLIST"
    /\ pc' = "free"
    /\ UNCHANGED <<conf, chainVars, state, error, task, app, files, units, asyncs>>

(* Fmedia_recStop(): FMED_TRACK_STOP of a recording, once, by the user or when the
   application has been told of the end.  A running track is only marked; one that
   waits for this has its task put into the queue. *)
RecStop ==
    /\ IsRec /\ app.stop = "no"
    /\ app' = [app EXCEPT !.stop = IF state = "RUNNING" THEN "inTime" ELSE "late"]
    /\ state' = IF state = "RUNNING" THEN "STOP" ELSE state
    /\ task' = IF state = "FINISHED" /\ pc # "freed" THEN TRUE ELSE task
    /\ UNCHANGED <<conf, chainVars, error, pc, files, units, asyncs>>

Terminated ==
    /\ pc = "freed" \/ (pc = "idle" /\ ~task /\ Open = {})
    /\ UNCHANGED vars

Goes == SkipBack \/ Call \/ Finish \/ CloseFilter \/ Closed \/ RunTask \/ Event \/ StopSync
Next == Goes \/ RecStop \/ Terminated

(* trk_process() and trk_close() run on, the worker runs its task, the device goes on
   recording, and the caller of FMED_TRACK_START stops the track when it returns.
   Nobody has to stop a recording. *)
Spec == Init /\ [][Next]_vars /\ WF_vars(Goes)

-----------------------------------------------------------------------------
(* No data is lost between the filters although they share one input and one output:
   each unit that the source gave is in a filter of the chain, on its way to the next
   one, in the file, or given up by a filter that has ended the stream early. *)
DataIsConserved ==
    pc = "call" => left + Amount(ToSet(active)) + data + sunk + dropped = conf.units

(* The 12 places of the pool, none of which is used twice, are enough for all that
   the filters of a chain add to it. *)
PoolSuffices ==
    pc = "call" =>
        \A a \in PhoneAnswers([pool[active[cur]] EXCEPT !.in = data, !.newdata = fwd], Track) :
            Len(pool) + Len(a.add.kinds) <= MaxFilters

(* When a track is over, what is found under the output's name is complete, or it is
   gone: all that the source gave is in it, but for what a filter gave up.  There is a
   complete file after each conversion that reports success. *)
Over == pc \in {"idle", "freed"} /\ ~task /\ Open = {}
FileIsWhole ==
    /\ Over => files.name # "part"
    /\ files.name = "whole" => left + sunk + dropped = conf.units
    /\ Over /\ conf.type = "CONVERT" /\ ~error => files.name = "whole"

(* The application is told that a recording has ended unless it has stopped the
   recording itself in time, and never after that. *)
ToldUnlessStopped ==
    /\ app.stop = "inTime" => ~app.told
    /\ IsRec /\ Over => app.told = (app.stop # "inTime")

(* A track comes to its end with every filter closed and is freed; a recording when
   it has been stopped.  (A list that has been saved is closed, but never freed.) *)
TrackEnds ==
    (IsRec => app.stop # "no") ~>
        (Open = {} /\ (pc = "freed" \/ (conf.type = "PLIST" /\ pc = "idle")))

-----------------------------------------------------------------------------
(* A recording that has ended is kept for FMED_TRACK_STOP ("waiting for
   FMED_TRACK_STOP"), so that the application's handle of it is valid until then.
   It does not hold: an event of the device that comes before the device is closed
   leaves a task behind, which frees the track. *)
KeptUntilStopped == IsRec /\ app.stop = "no" => pc \notin {"free", "freed"}

(* A list that cannot be saved stays as it was.  It does not hold: fo_close() removes
   the list and leaves name.tmp behind. *)
OldListIsKept == conf.type = "PLIST" /\ Set(conf, "exists") => files.name \in {"old", "whole"}
=============================================================================
