# fmedia: specifications of its core

fmedia is an audio player, recorder and converter.  Everything it does is done
by *tracks*.  A track is a chain of filters (a file reader, a format parser, a
decoder, audio filters, an encoder, a file writer or a playback device) and a
processor that moves data through them.  Tracks run as tasks on worker threads,
file I/O runs on a pool of threads, and a queue starts one track after another.

This directory holds TLA+ specifications of those parts, the TLC configurations
that check them on small instances, and proofs that TLAPS checks for all
instances.  Paths below are relative to the repository's `src/` unless they say
otherwise.

To check a run: `tlc -workers 2 -config MCTaskQueue.cfg MCTaskQueue`.
To check the proofs: `tlapm TaskQueueProofs.tla`, and likewise the other modules whose
name ends in `Proofs`.

Contents: [inventory](#inventory), [how the parts interact](#how-the-parts-interact),
[modules](#modules) (one section each, with its runs, bounds and fairness),
[what is proved](#what-is-proved), [findings](#findings),
[what is not modelled](#what-is-not-modelled), [plan](#plan).

## Inventory

Each row: what the component keeps, what it does, what is hard about it, and
when it is correct.

| Component | State | Operations | Hard behaviours | Correct when | Module |
|---|---|---|---|---|---|
| **Task queue and worker loop**: `util/taskqueue.h`, `core/core-work.h`, `core/core.c` (signals) | a list of tasks under a spin lock, a kernel queue with one user event for each worker, `fmed->stopped` | post, delete, run, stop, the event loop; assigning workers to jobs; timers | posts from any thread; the first item is read without the lock; only the post that finds the queue empty signals | no posted task is left behind by a worker that sleeps; each runs once, in order; a stop ends the loop | `TaskQueue` |
| **Track filter chain**: `core/track.c` (`trk_process()`, `filt_*()`, `fflist_curshift()`) | a list of filters in a fixed array, a cursor, data in flight, the part cut off by a split | call a filter, move by its return code, add, close and unlink filters | the order of the filters' answers; filters that add filters; splits; reuse of array slots | no data lost or repeated; ended filters are not called; the loop ends | `TrackChain`, `TrackOpen`, `Answers` |
| **Track life cycle**: `core/track.c` (`trk_cmd()`, `trk_onstop()`, `trk_fin()`, `trk_free()`) | the state of each track, three tasks for each, the list of tracks, `stop_sig` | create, start, stop, stop all and exit, pause, unpause, wake, finish, free | commands, wake-ups and the end of a track meet in any order, on two threads | no wake-up lost; a stop ends a track; nothing refers to a freed one; the program ends | `TrackLife` |
| **Buffered file writer**: `util/fffilewrite.c`, `core/file-out.c` | two buffers, a cursor, the pending write, flags shared with the pool | write, seek, flush, background write, close | the pool's thread and the user's share flags, only some under the lock; failures arrive late | a file reported complete is whole; a waiting user is woken; freed once | `FileWrite` |
| **Mixer**: `afilter/mixer.c`, `que_mix()` of `core/queue-track.h` | one shared block, an offset for each input, counts of inputs and of filled ones | open, add data, pass on, clear, close, fail | inputs wait for the mixer and the mixer for inputs; they end at different times | inputs stay in step; a block is complete when passed on; nobody waits for ever | `Mixer` |
| **Playback queue**: `core/queue.c`, `queue-entry.h`, `queue-track.h`, `plist/m3u-read.h` | lists of entries with reference counts, an index and a filtered list, cursors, error counts | add, remove, clear, play, next, random, repeat, expand, sort, filter, convert in parallel | removal of an entry that a track uses; the end of a track is posted as a task, and commands come before it | entries are freed once and with the last reference; the lists agree; no pointer dangles; the queue goes on or ends | `Queue` |
| **Buffered file reader**: `util/fffileread.c`, `core/file.c` | buffers that are a cache, one pending read | read at an offset, close | close while a read is pending; failures; seeks against the cache | what is returned is what the file holds; the track is answered; freed once | `FileRead` |
| **Thread pool**: `util/ffthpool.c`, `util/ring.h` | a lock-free multi-producer multi-consumer ring, threads, a semaphore, references to tasks | add a task, run it, create threads, stop | compare-and-swap steps of several threads; the ring full or empty; threads that cannot be created | each task runs exactly once and is freed; the pool comes down | `Ring`, `ThreadPool` |
| **Audio output and capture**: `adev/*` | one audio buffer for all tracks (`mod->usedby`), one timer | open, write, drain, hand over, clear, close later | a new track takes the buffer of an old one; the timer wakes or closes | the buffer is used by one track at a time; the one that lost it ends | `AudioOut`; capture: `AudioFilters` |
| **Modules, configuration**: `core/core.c`, `core-mod.h`, `core-conf.c` | the list of modules and their settings | load once on demand; read the configuration | modules loaded by tracks of several workers | each is loaded once | candidate |
| **PCM filters**: `afilter/*` | small state for each filter | convert, split, stop at a position or level, buffer | filters that end the stream, keep data, add converters, cut the chain | what is given up is said so; the next filter is told the end once | `AudioFilters` |
| **Containers, codecs**: `format/*`, `acodec/*`, `dfilter/*` | adapters around libraries that are not in the repository | parse, decode, encode; add a decoder or an encoder; headers before data | what is held back at the end of the input; ends found by the parser and by the file | all data goes on before the end does | `Formats`, `Codecs`, `CodecLibs` |
| **Network input**: `net/*`, `util/ffhttp-client.c` | for each track one request: its connection, timer, buffers and counters; the state of the metadata in the stream; the copy that is being saved | resolve, connect, send, receive, parse, reconnect, follow a redirect; take the metadata out; begin and end a copy | the network fails, is silent or answers late at any moment; a request that begins anew in the middle of a response; two tracks that point to one another | no gap and no repetition in a response; every wait is limited; the copies hold what was played; the track ends | `HttpClient`, `NetStream` |
| **Playlists**: `plist/*` | a cursor in the queue | parse, add to the queue | the reader's own entry goes while it reads | | M3U in the queue: `Queue`; all as filters: `Formats`, `AudioFilters` |
| **Graphical interface**: `gui-gtk/*`, `gui-winapi/*`, `util/gui-gtk/*`, `util/gui-winapi/*` | tabs, rows and their selection on the thread of the windows; the lists and tracks on the main thread; messages and tasks between them | show a list, add, remove, delete from the disk, copy to the next list, convert, play; explorer; save and load the lists; close | two threads agree on rows and lists by index only, while the user goes on; the main thread waits for messages, the windows are closed at any time | the rows are those of the list; what is done is done to what the user meant; the lists are saved; the program ends | `Gui`, `GuiGtk`, `GuiWin` |
| **Other interfaces**: `main.c`, `tui.c`, `core/globcmd.c`, `http-ctl` | the user's state | issue commands | | | the commands are inputs of `TrackLife`, `Queue` and `AudioOut` |
| **Phone application, native part**: `android/fmedia/src/main/c` | a track's chain in a pool of filters, its state, one worker with its queue | build the chain for showing, converting, recording, loading, saving; process; stop | all filters share one input; a recording ends on the worker while the user stops it; the device wakes it at any time | no data lost; a file is whole or gone; the application is told of an end that it did not cause | `PhoneChain` |
| **Handle waiter** (Windows): `util/ffwohandler.c` | handles of one waiting thread | add, remove, wait | a handshake between remover and waiting thread | | candidate |

`PROJECT.json` lists the same components with the files of each, and the hazards
of the code at the lines where they bite, with the properties that would notice
them.

## How the parts interact

* *Posting.*  `FMED_TRACK_WAKE` posts the track's task to its worker's queue
  (`core->cmd(FMED_TASK_XPOST)`), from any thread.  `TaskQueue` shows what a post
  guarantees: the task will run, after those posted before it, once.  `Fifo` states
  that promise; `TaskQueue` is proved to implement it, and `TrackLife`, `Queue` and
  `Mixer` take a sequence of tasks with just these guarantees (module `TaskList` for the first and the last).
* *Waiting.*  A filter that has to wait returns `FMED_RASYNC`; `trk_process()`
  returns to the worker's loop, and a callback of the pool, a timer or a device
  with their callbacks; `TrackLife` shows that no wake-up is lost wherever the track
  is; `TrackChain` shows that the chain goes on from where it was.
* *Background I/O.*  The file reader and writer add tasks to the pool, whose
  threads call back.  `ThreadPool` shows what becomes of a task, over `Ring`, which
  again implements `Fifo`; `FileWrite` and `FileRead` take from it that a task that was
  added is run some time, and that adding one may fail, also after it is in the ring
  (`lost` in both: such a task may be run or not).
* *Ending.*  `trk_process()` finishes a track by a task on the main thread, which
  frees it, closing its filters.  `fffilewrite_free()` may then leave an object to
  a pending write, `fffileread_free()` to a pending read; `mix_in_close()` tells the
  mixer.  The first filter of a track of the queue posts `CMD_TRKFIN` when it is closed,
  and that task starts what comes next (`Queue`).
* *Copying.*  `net.icy` starts a track for each title of a stream and gives it the
  data by direct calls; either of the two may end first and tells the other by clearing its
  pointer (`NetStream`).
* *Interfaces.*  The user's commands are posted to the main thread as tasks, and what they
  change is shown by messages to the thread of the windows (`Gui`).  A playing track has a filter
  of the interface in its chain, which shows its progress.
* *On the phone* the filters of `src/` are driven by another processor, `android/.../track.h`
  (`PhoneChain`), which runs inside the application's call; only a recording has a worker.
* *Taking over.*  A track that starts playing takes the audio buffer from the one that
  plays, which finds out at its next turn and stops (`AudioOut`).

## Modules

Every module starts with a comment that says what it models; each definition
names the function it stands for.  Common conventions: a variable has the name of
the field it models, those marked *history* exist only for the properties; one
action is what the code does between two points where another thread can see or
change something it uses; the `MC` modules only give finite sets; definitions
called "slip" or placed right before the one they vary (`PostTwice`, `NeverElsewhere`,
`ReadyButOne`...) are plausible mistakes that no specification uses.  Each
property of a run fails if one of them takes the place of the correct definition,
so that it is known to depend on the code (`PROJECT.json`, "mutants").

### TaskQueue

One worker: its list of tasks, its kernel event and its loop, and the threads
that post.  `Post` is `fftask_post()` under its lock, `Signal` the later
`ffkqu_post()`; `LoopHead`, `Wait`, `Event`, `Pick`, `Unlink` and `Return` are the
steps of `work_loop()` and `fftask_run()`.  `Pick` and `Unlink` are apart because
`fftask_run()` reads the first item before it takes the lock.  `Stop` is
`FMED_STOP`, given by a thread that plays the main thread's part.  A handler of a
task may post, delete and stop, as `trk_process()` and others do.

*Run `worker_queue`*: two tasks, one other thread and the worker, `max_run` 5, four
posts.  Two tasks are enough for one to wait behind the other; four posts let each
be posted again while it is queued, unlinked or running; `max_run` is larger than
the number of posts because of the finding below.  It checks:
`NoStrandedTask` (a sleeping worker with tasks has a signal on its way),
`ImplementsFifo` (the refinement of `Fifo`, below), `LoopGoesOn` (`EveryTaskRuns` and `StopEndsLoop`).

*Refinement.*  `Fifo` is the promise of `taskqueue.h:22`: an item is put at the end
once, taken from the front by the one reader, or deleted by it while it runs another.
The mapping shows the list as it is, and the item as taken from its unlinking to the
end of its handler: `Post` is `Put` or nothing (the task is linked already), `Unlink`
is `Take`, `Return` is `Finish`; the lock-free look at the first item, the
signals, events and stops are no step at all.

With more tasks than `max_run` a task may be left behind; see the findings.

*Fairness*: each step of the worker's thread and each started `ffkqu_post()` is
taken (threads are scheduled, handlers return); `ffkqu_wait()` returns if its event
is signalled.  No fairness for posting, stopping, or events of other sources: the
queue must not depend on them.

### TrackChain, TrackOpen and the filters

A track's chain in four layers:

* `Answers` says what a filter can do in one call: its return code (`enum FMED_R`), how
  much it gives out, what it leaves of its input and keeps itself, what it gives up for
  good (`lost`), and the filters it adds.  `Says`, `Passes`, `Takes`, `Gives`, `Cuts` and
  `Buffered` are the forms that return statements take in the filters.
* `AudioFilters` (the ends of chains, the capture of eight audio systems, the audio
  filters), `Formats` (readers and writers of files, playlists, compression) and `Codecs`
  have one operator for each filter: the set of its answers, translated from its `open()`
  and `process()`.  A codec is two layers in the code too: `CodecLibs` has the adapters of
  `acodec/alib3-bridge`, each with what it keeps from one call to the next and the reports
  it can make for a packet, for samples and at the end; `Codecs` has the filters that turn
  these reports into answers.
* `TrackOpen` has what `trk_create()`, `trk_open()`, `trk_addfilters()` and
  `trk_setout_file()` put into the chain for a track's options, and finds a filter's
  operator by its name.
* `TrackChain` is `trk_process()`.  A filter is a slot of `t->filters` with what the
  processor keeps about it (`want` is `want_input`, `done`, `newdata`, `ctx`), its input
  and what it has buffered.  `Call` is one iteration up to the effect of the return code
  (`filt_call()`, adding filters, the splits of `FMED_RNEXTDONE`); `ShiftFor` gives the
  command for `fflist_curshift()`, `CurShift` is that function, `Shift` what follows from
  its result.  `Yield`, `Stop`, `Wake`, `ClosePlayback` and `Free` are the ways in and out.

Audio data is counted in *units*: a unit is the least amount that a filter may pass on or
hold back.  Headers, tags and codec settings are output without a unit, so a filter can
be called with new data that is empty.  What parsers and codec libraries report (they
are not in the repository) is chosen freely: more data wanted, a packet, a header, the
end, an error; what the filter returns for each is the code's.  Seeking is left out.

The *options* of a track are what a user can ask for: the type, the reader for the file
name extension, the codec in the file, the writer, and flags (`tui`, `until`, `split`,
`copy`, `http`...).  `faulty` lets any filter of the track meet broken input, a failing
device or file; `units` and `waits` bound the source's data and how often the track
waits with nothing done.

*Run `track_chain`*: 39 tracks of all types with every filter of these modules, recordings
from every audio system, one unit of data in most, two in a playback that resamples and in
two of the copies, one of which is split, two splits, `Slots = 32` as in the code
(`N_FILTERS`).  One unit makes every filter tell its last data from no data; two make a
split fall between, before and after, and a filter leave part of its input.  Faults and waiting are spread over the options,
since each multiplies the states, so that filters of all sorts meet them.  All tracks but those without a sink
(`METAINFO`, `EXPAND`, a directory) can bring all their units to their sink.  It checks:

* `DataIsConserved`: each unit is in exactly one place, from the source to the sink, or
  given up by a filter that ends the stream early;
* `LastIsLast`, with the former in `DataIsWhole`: a filter told `FMED_FLAST` never has live data before it;
* `TrackEnds`: a track ends with every filter closed, whatever its filters answer.

`SlotsAreKept` (the array is not cut below a linked or open filter) and
`EndedIsNotCalled` hold under the same bounds.  `MCTrackChainOgg.cfg` cuts a track into
many parts; see the findings.

*Fairness* (`WF_vars(Goes)`): `trk_process()` runs on once it has begun, a waiting filter
is woken, the task that frees the track runs: one of these is always next.  The user
need not stop a track, so a recording is only shown to end when he has (`TrackEnds`).  The filters have no fairness: that a chain
ends follows from what they answer, and from a finite source.

### TrackLife

The commands, tasks and states of several tracks.  A thread's `run` says whether it
is inside `trk_process()` or `trk_onstop()` and of which track; `q` are the workers'
queues, where posting a queued task changes nothing (`fftask_post()`).  A track's
filters are one that works, waits (`Waits`, then `Complete` wakes), fails or ends.
Commands are given by the main thread between its tasks.  `Leave` has
the ways in which `trk_process()` returns before it calls a filter: the track has
failed, is paused, is a stopped playback, or should yield because the worker's queue
has changed.

*Run `track_life`*: two tracks on the main thread, one of them a playback, one pause.
Two tracks make the queue's order, the yield and "the last track" matter; more
pauses only repeat.  It checks `NothingLeftOfFreed` (no task, thread or operation
refers to a freed track), `WakeIsNotLost` (an active track that nobody works on
has its task queued or an operation that will post it), `StopEnds` and
`ExitHappens` (`FMED_TRACK_STOPALL_EXIT`).  `TrackLifeProofs` proves the first two for any number of
tracks.

The module also has the second thread (`Parallel`, tracks started with
`FMED_TRACK_XSTART`).  `NothingLeftOfFreed` does not hold with it: `trk_onstop()`
reads the track after `trk_process()` has handed it to the main thread to be freed.
Another effect is that `FMED_TRACK_UNPAUSE` for all tracks
calls `trk_process()` on the main thread also for tracks of other workers, against
`core_job_enter()`'s assertion (`OnOwnThread`); see the findings.

*Fairness*: threads run their tasks; operations outside complete; a filter that
sees `FMED_FSTOP` again and again does not wait for ever instead of ending (strong
fairness, the loops of playback and file filters do so).  Nothing makes the user
act, or makes a track end that was not told to stop.  `StopEnds` and `ExitHappens`
excuse a track that is paused after it was told to stop, and `ExitHappens` one that
is started after the command: those are what the code does.

### FileWrite

`fffilewrite.c` in the mode that uses the thread pool, with `file-out.c` as its
user.  The user's thread goes through `fffilewrite_write()`: `Top`
(`fw_thpool_result()`), `Add` (`fw_buf_add()`, `fw_buf_lock_get()`), `Park`,
`SubmitBegin` (`fw_prealloc()` and the state), `SubmitEnd` (`ffthpool_add()`: it queues the
task, or fails without it, or fails after the task is in the ring because no thread can be
created; then the user takes the write for over, and the pool has the task).  A
thread of the pool goes through `fw_aio()`: `AioStart`, `AioWrite`, `AioFlag`
(`aio_done`, before the lock) and `AioFinish` (the section under the lock).  They
interleave.  `Close` and `Release` are `fffilewrite_free()`, at any moment at which
the track may be freed.  `freed` counts how often the object's memory was freed, and an
`AioFinish` on memory that has been freed finds any state; a write to a file that has been
closed fails or goes to another file.  Two histories name what the code leaves open: `raced`,
a write was submitted while `fw_aio()` of the one before had yet to take the lock, and
`lost`, the pool has a task that `ffthpool_add()` said it has not.  Each ends with the object's
last task, if the object is there still.  Data are numbers that are never used twice, so a wrong,
missing or repeated unit shows in the file; `expected` is the file as the calls
say it should be, the abstract specification of the writer.

*Run `file_write`*: two buffers of two units, three calls of up to two units each,
seeks to the start (which the formats do to rewrite a header), preallocation by
three units, two pool threads, failing writes and a failing `ffthpool_add()`.  Three
calls fill both buffers while one is being written; four positions leave room
for a buffer that is full, one that is not, and data that is overwritten.  It checks:

* `CompletedFileIsWhole`: the file is whole when its end is reported, and when it is then closed;
* `PendingBufferIsStable`: a task that is to be written finds the object and in its buffer what was
  there when the task was made, and (`FreedWhenDone`) the object is freed once, and not
  before its last task has ended.  Excused are the writes that are `raced` or `lost`: without
  either excuse it does not hold, see the findings;
* `WriterGoesOn`: a user who waits is woken (`ParkedIsWoken`), and a closed object is freed by one side
  or the other (`ClosedIsFreed`).  That this is not too early is the matter of `FreedWhenDone`.

`FailureIsReported` holds under the same bounds; this and the first two are proved for
all bounds in `FileWriteProofs`.

*Fairness*: the user's thread goes on while it is inside the writer, the pool's
threads run.  Nothing makes the track call or close it, nothing makes a thread take a task that
is `lost` (its semaphore was not posted, so it is run only if a thread looks into the ring), and `OtherWake`, a wake-up
by somebody else, has no fairness, so that `ParkedIsWoken` rests on the writer's own.

### Mixer

`mixer-in` of each input track, `mixer-out` of the track that plays, as tasks of
the main thread (which is where `que_mix()` starts them all).  `Mix` is
`mix_in_write()` with `mix_write()` and, if the input ends, `mix_in_close()`
(`Closed` is `mix_input_closed()`); the `Read*` actions are the branches of
`mix_read()`; `Notify` its last loop.  `Get` stands for the filters before
`mixer-in`, `Play*` for those behind `mixer-out`.

*Run `mixer`*: two inputs, blocks of two units, inputs of 0 to 5 units.  So an
input ends before, at and after a block's edge, in the first, second or third block,
and in any relation to the other.  It checks `MixedInStep` (what an input has given is
what was passed on and its offset) and `MixEnds`.  `CountersAgree`
(`trk_count` and `filled` against the inputs they count), which they rest on, and
`BlockIsComplete` hold under the same bounds; `MixerProofs` proves the three for any number and
length of inputs and any size of the block.  Inputs may fail, but only after they have opened
`mixer-in`: `EarlyErrors = FALSE`; see the findings.

*Fairness*: the main thread runs tasks, operations complete, neither the filters
before `mixer-in` nor the device wait for ever.

### Queue

The playlists and what is played next.  All of it runs on the main thread; the state
is one record, `q`, and an operator named after a function takes it and returns it
changed (`EntRm`, `EntUnref`, `Unlink`, `QuePlay`, `Next2`, `OnTrkFin`...), because
one command changes many parts in a row.  What interleaves are the tasks: `End` is the
moment at which a track ends and posts `trk_free()`; when that runs, the filter
`queue.track` posts `CMD_TRKFIN` (`TrkFree`, `QueTrkClose`); and when that runs,
`OnTrkFin` looks for the next entry and gives the reference back.  Commands of the user
(`User`: one action each, for `que_cmdv()` and `que_cmd2()`) come anywhere in between,
and so does an M3U reader that replaces its own entry by those of its file
(`ReaderAdd`).  Random choices, and how many workers are free for a parallel
conversion, are choices of the model.  Two histories carry the properties: `q.why` is the
reason why nothing need be playing, `q.todo` what a parallel conversion has yet to start.

*Run `queue`*: a list of two entries, the first of them a playlist file, a second list
and a third entry to add, two tracks at a time, two commands, all repeat modes, an
error limit of 2.  Two tracks and two tasks are enough for one entry to be removed or
played while another ends; any two commands meet at any moment of that.  With three
commands the safety properties were checked once (1.9 million states).  It checks:

* `RefsCounted`: an entry's counter is the number of tracks and tasks that have it, and a
  removed entry or list goes with the last of them;
* `ListsAgree`: the list of play, the index and the filtered list have the same entries
  but for the removed ones;
* `NothingDangles`: cursors and list pointers point to what exists;
* `PlaybackGoesOn`: when nothing plays there was a reason (a command, the end of the
  list, errors);
* `AllConverted`: a parallel conversion leaves out nothing;
* `ErrorsEnd`: if nothing can be played, the queue stops trying, in random and
  repeat-all mode too.

*What the run leaves to the reader.*  `Dangers` turns on what the code does not
survive: `"delete"` (deleting a list in use, finding below), `"sort"` (sorting a list
with a removed entry in use, which loses it), and `"twice"` (playing one entry with two
tracks, whose `trk_stopped` and `trk_err` are then one another's).  `Opening` chooses
entries that no track can be created for (`MCOpeningSome`, see the findings).

*Fairness*: the main thread runs its tasks; every track ends some day.  The first is
weak fairness of `RunTask` with its `ENABLED` written out.  The run does not check for
deadlock: a queue whose user has no command left and whose tracks have ended is at rest.

### Ring and ThreadPool

`Ring` is `ring.h`'s ring of pointers: each load, store and compare-and-swap of
`_ffring_write()` and `ffring_read()` is a step, and any other thread may run between two
of them.  Positions are modulo the size, as `ffint_increset2()` has them.  `ThreadPool`
extends it with `ffthpool.c`: users add tasks (`Add`, `Decide`, `NewThread`, `Post`),
collect the result or leave a pending task to its handler (`Collect`, `Leave`: what
`FileRead` and `FileWrite` do); threads loop (`Loop`, `Reading`, `Handler`, `FreeTask`,
`Wait`); the main thread stops it all (`Stop`, `WakeAll`, `Join`, `FreePool`).

*Run `thread_pool`*: two users, up to two threads (`core/file.c` has two), a ring of 4
slots that starts at its last one so that positions wrap around at once, two tasks, threads
that cannot be created.  Three tasks were checked once for safety (1.57 million states).
It checks `ImplementsFifo` (`Complete`, the items between `r` and `wtail`, is the queue; the
successful compare-and-swap of a reader is the moment at which it takes the item),
`TaskRefs` (references, and freeing with the last one) and `EveryTaskRuns`.  `StopFrees`
(a pool that is stopped comes down) holds under the same bounds.  `ThreadPoolProofs` proves the first two for any
sizes.

*Assumption.*  `MayLap = FALSE` keeps a process from sleeping between its load of a
position and its compare-and-swap while others go once round the ring.  Without it the
ring does not implement `Fifo`: the compare-and-swap succeeds on a position that has come
back, with an item that was read long ago (`MCThreadPoolLap.cfg`, a ring of 2 to keep it
short).  With the code's 64 slots that takes 63 tasks in the time of a few
instructions, which is why it is an assumption here and not a finding.

*Fairness*: runnable threads run and handlers end.  `ffsem_wait()` is taken to wake as
long as the semaphore is above 0.  Nothing makes users add, or the program stop.

### FileRead

`fffileread.c` with `file.c`'s filter above it and the track's task above that.
`GetData` is `fffileread_getdata()`, made of `Taken` (`fr_thpool_result()`), `Lookup`
(`bufs_find()`) and `Read` (`fr_thpool_read()`); `Call` adds what `file_getdata()` does
with the result.  `Pread` and `Complete` are `fr_aio()` on a thread of the pool, with
`ThreadPool`'s promise in between: a task that was added is run.  `Close` comes at any
moment.  What a buffer's memory holds is kept beside what the reader believes of it
(`from`, `to` against `off`, `len`), so wrong data shows.

*Run `file_read`*: two buffers of four units, aligned to two, a file of nine, so two
full blocks and a short one; three seeks into the first, second and third block and
beyond the end; reads that fail, and `ffthpool_add()` that fails before and after the
task is in the ring; two pauses by the track's own output.  Three seeks are enough to
go back to a block whose buffer was reused or whose read failed.  It checks `DataIsRight`,
`NothingUsesFreed`, and `ReaderGoesOn` (`ReadsToTheEnd` and `ClosedIsFreed`).  The last excuses a reader
whose task could not be added: it counts as waiting for it and is never freed
(`fffileread.c:310`).

`FileReadProofs` proves the first two for any sizes.  `PauseAnywhere` adds the command for all
tracks; see the findings.

*Fairness*: queued tasks run, tracks that have ended are freed.  A paused track stays
paused if the user likes.

### AudioOut

The playback filters of PulseAudio, ALSA, OSS, WASAPI, DirectSound and CoreAudio with
the `audio.h` they share: `sys` is the audio system, `mod` the module's buffer with its timer
and user, `a[t]` the filter's `audio_out`, `trk[t]` the track.  The first four have one buffer
for all tracks (`Common`), which a track takes from the one before; the last two have one
for each track.  `PulseCreate`, `AlsaCreate`... are `*_create()` (`Displaced`, `Reused`,
`BufClosed`, `Open` are their parts), `PulseWrite`... with `Output` are `*_write()` and
`audio_out_write()`, `PulseClose`... are `*_close()`, `OnPlay` is `audio_out_onplay()`;
`Timer` is the one timer with its two purposes: it wakes the track that uses the buffer, or,
some time after a track was stopped, closes the buffer.  ALSA and WASAPI keep the format
that the device last refused or offered (`bad`), which a track may find there from before;
WASAPI is opened anew when its device has gone; OSS asks for more data when it
has created its buffer.  Everything runs on the main thread, so a handler is a step.
`Seek` and `Pause` are the console's, for the track it shows.

*Run `audio_out`*: each of the six systems, two tracks of two blocks each, a buffer of one,
one track in a format that the device does not play (it asks, is refused, and opens the
buffer in the device's own format after a conversion was put before it), for
PulseAudio one seek and one pause, stops at any time, and an audio system that fails to
open, to write and to reconnect.  Two tracks take the buffer from each other in both
orders, with equal and different formats.  With seeks and pauses for every system (`MaxSeeks`,
`MaxPauses`) the handlers are the same ones of `audio.h`.  Three tracks without failures were
checked for safety once (1.3 million states, PulseAudio).  It checks `OwnerHoldsDevice`
(module, user and timer agree) and `EveryTrackEnds`; `OnlyOwnerIsHeard` and `WokenOnce`
hold under the same bounds.  It does not check for deadlock: tracks that have ended or are
paused are at rest.  `AudioOutProofs` proves the three invariants for any tracks.

`SeekAnyTime` lets the user seek while the track has no buffer of its own:
`tui_seek()` asks only whether `adev_ctx` is set, and then clears and stops the buffer
of another track (`SeekIsSafe`); see the findings.

*Fairness*: queued tasks run, the timer fires, the device plays.

### HttpClient and NetStream

`HttpClient` is the state machine of `ffhttp-client.c`: each state `I_*` of
`httpcl_process()` is an action or two (`Resolve`, `NextAddr`, `Connect`, `Send`, `RecvHdrs`,
`Response`, `RecvBody`, `FilterBody`, `Finish`...), `Waits` is a socket operation that
would block, `Event` is `tcp_aio()`, `Timeout` is `tcp_ontmr()`, `IoErr` is `tcp_ioerr()`.
The user's handler is `httpcli_handler()`: on some statuses it calls `send()`, which lets the
client run on, on others it leaves the client suspended and wakes the track (`SendsOn`).
`srv` is what the server sends: a body that ends with the connection, with an empty
chunk, or at a length told before, cut into pieces anywhere.  `NetStream` extends it with
the track: `net.httpcli` (`Http*`), `net.icy` (`Icy*`) and the tracks that save a title
each, with the filter `net.in` and its two buffers (`Copy*`; `Written` is `netin_write()`,
`Gives` and `Asked` are `netin_process()`, `Ended` is the call that tells it there is no
more).  A copy may fail to be created, or its track to start, which
`netin_create()` does not notice (`"orphan"`).  All of it runs on one thread, so that a
handler is a step; what is free is when anything comes: the socket's event, the timer,
the rest of either chain, `FMED_TRACK_STOP`.

*Run `net_stream`*: a response of two units, bodies that end with the connection or are
chunked, two addresses, headers of up to two pieces, one reconnection, one redirect, a new
title after the first unit, two copies.  Two units are enough for data behind the headers, a
piece that holds two titles and one that is cut within a chunked body; one reconnection and
one redirect let each happen after the other.  Two copies are the one before and the one
after a title; with four, so that a reconnection begins yet others, everything was
checked once (1.5 million states).  It checks

* `StreamIsWhole`: what the chain gets of a response has no gap and no repetition, and at
  the track's own end it is all that was received;
* `TimerGuardsWait`: a request that waits for its socket has its timer running, and no
  timer is left running without;
* `CopyIsWhole`: the copies together are what was played, each from where it began (`begin`, which
  is kept for this property) to where the next one did, a file has one title, and the
  filter and its copy point to one another or neither does;
* `RequestEnds`: whatever the network does or leaves undone, the track and its copies end.

The run does not check for deadlock: a track that has ended is at rest.

`NetStreamProofs` proves the first three for any response, network and copies.  Bodies with a
length (`Bodies <- MCLength`) are among the findings.

*Fairness*: the thread does what there is to do, and a timer that is set goes off.  The
network owes nothing: `Event` has no fairness, and `RequestEnds` rests on the timer.

*Abstracted*: names of hosts and files, the content type and the filters that it selects
(any of them may be refused), the proxy, `--out-copy-cmd`, redirects to other hosts (the
addresses are resolved again in any case).

### PhoneChain

The phone's application runs the filters of `src/` with a track processor of its own,
`android/fmedia/src/main/c/track.h`, and file filters of its own.  `PhoneChain` has the
chains that the functions of `fmedia-jni.c` and `que_export()` build (`MetaFilters`,
`ConvertFilters`, `RecFilters`, `ExpandFilters`, `ExportFilters`), the filters that are the
phone's (`FileRead`, `FileWrite`, `Ctl`, `Mon`), takes all others from the modules above, and
walks them: `Call` is one iteration of `trk_process()`, with `Remaining` for what is left of
the chain, `Moved` for where the cursor goes (`trk_filter_handle_result()`), and `SkipBack`
for a filter that is passed by.  `Finish`, `CloseFilter` and `Closed` are the end of a track,
filter by filter, because the application is told by one of them and the file closed by
another.  Other tracks run inside the application's call (`StopSync`); a recording has the
worker (`RunTask`), the device's thread (`Event`) and the application (`RecStop`), which
interleave with each step.

*Run `phone_track`*: 24 tracks of all five types, each format that the phone reads and
writes, copies that are refused, output files that exist, broken input and failing devices in
some of each type, one unit of data, two in a recording, a conversion and the copies.  The
conversion with two rates and a recording with every option have the longest chains.  It checks:

* `DataIsConserved`: each unit is in one place, though what a filter does not take is lost;
* `PoolSuffices`: the 12 places are enough (and no fewer are);
* `FileIsWhole`: a file is whole or gone, and there after a conversion that reports success;
* `ToldUnlessStopped`: the application is told of the end, or has stopped the recording in
  time, and never both;
* `TrackEnds`: each track ends, with its filters closed, and is freed.

`soxr` and `m3u.out` are taken without the answers that the phone does not see: a packet
shorter than a second is taken whole, and lists do not wait.  `KeptUntilStopped` does not
hold; see the findings.

*Fairness*: the track, the worker and the device go on, and the caller of `FMED_TRACK_START`
stops the track when it returns.  Nobody has to stop a recording (`TrackEnds` asks for no
more than the end of one that was).

### Gui, GuiGtk, GuiWin

`Gui` has what a graphical interface shares with another: as much of the queue and of the tracks as is
shown (`QueAdd`, `QueRm`, `QueSel`...; the rest is in `Queue`), the tasks for the main thread
(`Post`), the files of the lists, and the properties.  `GuiGtk` is GTK's.  The state is one
record `g`, and each function of the code is an operator from one state to the next: those of
the main thread are cut at each message that they wait for, and the rest is kept in `g.todo`,
because the user may act, and the thread of the windows handles other messages, at that point.
`MainTask` and `MainStep` are the main thread, `GuiMsg` and `GuiEnd` the loop of the windows;
`TrkOpen`, `TrkShow`, `TrkUpdate`, `TrkClose` and `TrkExpand` what the tracks do that is shown;
all others are the user.  The view holds a copy (`g.rows`): a row is asked for when it is
inserted or drawn again (`Disp`), as GTK's is.  What a variable holds that nobody has
assigned (`ffui_send_tab_active()` returns one once the loop is told to quit) is any value.

`GuiWin` is the interface on Windows, with the same queue, files and properties.  There the view
is virtual: it holds the number of its rows and which of them must be drawn (`S.dirty`), and
asks `list_setdata()` for a row while it draws (`Paint`).  The main thread calls the controls
itself, and each such call is delivered at once; so a command is one step (`WinTask`), which
reads selection, tab and names when it runs, later than the user gave it.  `g.w` has the
variables of `ggui` without a counterpart on GTK: the favourites' list, the filter, the
recording, the names shared by the two threads, the settings' file.  `WinOpen` ...
`WinExpand` are the tracks, `Paint` and `GuiStop` the loop of the windows, the others the user.

*Run `gui`*: thirteen scenes, seven on GTK and six on Windows, each with a part of the commands:
editing two lists, tabs (on Windows with favourites), playing, lists that are saved and loaded with
a playlist file in one of them, the explorer, converting, filter and sorting, recording, and start-up.
In each the user either is patient, waits until all is shown and acts up to three times (two when playing or converting, and on Windows), or
acts once at any moment; the patient one closes the windows too when all is shown, the other at any
moment, and nothing is done after that.  There are at most three tracks, four tabs.  The scene with sorting has no tracks, so an entry that was
removed while in use is not sorted.  It checks:

* `ViewIsTrue`: when nothing is under way the rows are those of the list of the tab, with the
  mark at the entry that is played (`RowsAgree`); and what is removed, deleted, copied, converted
  or played is what the user pointed at, also while the windows are being closed (`MeantIsDone`);
* `TabsAgree`: each tab has the list that was made for it, which the two threads know by
  its index only;
* `SavedIsWhole`: at whatever moment the windows are closed, while entries are added, expanded or
  removed and whatever the user did before, the program ends only when the files hold the lists, the
  favourites theirs, and the file of settings each setting once and all that is not the program's.  A
  playlist file that was about to be read may stand for its entries (it is read in one step).  Excused
  is a list that was about to be read from its own file, which then names itself: see the findings;
* `ExitCompletes`: once the windows are closed, the program ends.

`RowsAgree`, `TabsAgree` and `MeantIsDone` excuse a user who gave a command before what came of
the one before was shown (`hurried`; to close the windows is not such a command) and a row that is
drawn for an entry of another list or removed without being shown (`stray`), `RowsAgree` also a mark on Windows that was
left behind by a track that has ended (`ghost`), `ExitCompletes` a message that is posted
past the test for the end (`Stuck`): see the findings.

*Fairness*: each of the two threads goes on with what it has to do, and tracks that were told to stop
end.  It is written out with state predicates (`MainCanGoOn`, `GuiCanGoOn`, `WinMainCanGoOn`, `WinGuiCanGoOn`) in place of
`ENABLED`, which TLC evaluates by trying each action.  The user owes nothing.

## What is proved

TLAPS proves the following for every value of the constants that the assumptions of the
modules allow.  The theorems of a module rest on an inductive invariant (`IInv`), which
was checked with TLC under the bounds of the run before it was proved.

| Module | Theorem | Statement |
|---|---|---|
| `TaskQueueProofs` | `NoTaskStranded` | `SafeSpec => []NoStrandedTask` |
| | `NeverLinkedTwice`, `FirstInFirstOut` | `SafeSpec => []LinkedOnce`, `SafeSpec => RunsInOrder` |
| | `Refinement` | `SafeSpec => ImplementsFifo` |
| `ThreadPoolProofs` | `TaskRefsHolds` | `MayLap = FALSE`: `Spec => []TaskRefs` |
| | `Refinement` | `MayLap = FALSE`: `Spec => ImplementsFifo` |
| `MixerProofs` | `MixedInStepHolds` | `Spec => []MixedInStep` |
| | `BlockIsCompleteHolds`, `CountersAgreeHolds` | `Spec => []BlockIsComplete`, `Spec => []CountersAgree` |
| `TrackLifeProofs` | `WakeIsNotLostHolds` | `Spec => []WakeIsNotLost` |
| | `NothingLeftOnMainHolds` | `Spec => []NothingLeftOfFreedOnMain` |
| | `NothingLeftOfFreedHolds` | `Parallel = {}`: `Spec => []NothingLeftOfFreed` |
| | `StopIsNotLostHolds`, `ExitIsNotMissedHolds` | `Spec => []StopIsNotLost`, `Spec => []ExitIsNotMissed` |
| `FileReadProofs` | `NothingUsesFreedHolds` | `Spec => []NothingUsesFreed` |
| | `DataIsRightHolds` | `PauseAnywhere = FALSE`: `Spec => []DataIsRight` |
| | `TakenWhenDoneHolds` | `PauseAnywhere = FALSE`: `Spec => TakenWhenDone` |
| `AudioOutProofs` | `OwnerHoldsDeviceHolds`, `OnlyOwnerIsHeardHolds` | `Spec => []OwnerHoldsDevice`, `Spec => []OnlyOwnerIsHeard` |
| | `WokenOnceHolds` | `Spec => []WokenOnce` |
| `FileWriteProofs` | `CompletedFileIsWholeHolds` | `Spec => []CompletedFileIsWhole` |
| | `FreedWhenDoneHolds`, `PendingBufferIsStableHolds` | `Spec => []FreedWhenDone`, `Spec => []PendingBufferIsStable` |
| | `FailureIsReportedHolds` | `Spec => []FailureIsReported` |
| `NetStreamProofs` | `TimerGuardsWaitHolds` | `Spec => []TimerGuardsWait` |
| | `NothingLostHolds`, `CopyIsWholeHolds` | `Spec => []NothingLost`, `Spec => []CopyIsWhole` |
| | `StreamIsWholeHolds` | `"length" \notin Bodies`: `Spec => []StreamIsWhole` |

Each of these modules also has `Invariance` (`IInv` holds; in `NetStreamProofs` `SpecInv` and `Inv`)
and `TypeCorrect` (`TypeOK`, there `StreamTypeOK`, holds).
`MixerProofs` and `TrackLifeProofs` begin with the lemmas on the queues of `TaskList`: what posting
(`PostedTask`, `AllPostedTasks`), deleting (`DeletedTask`) and taking the first task
(`TakenTask`) do to a sequence without repetition.

Hypotheses other than the modules' assumptions exclude what is known to go wrong: each has a
run or a finding that shows the property violated without it (`MCThreadPoolLap.cfg` for
`MayLap`, the first of the findings for `PauseAnywhere`, the section on `TrackLife` for `Parallel`,
`MCNetStream.cfg` with `Bodies <- MCLength` for `Bodies`).

### Task queue

For any number of tasks and of posting threads, and any `max_run`.  The assumptions are that
the worker is not one of the posters, those who stop are threads, the
null task is not a task, `max_run` is not 0.

`NoStrandedTask` speaks of a worker that is about to sleep only, and is not
inductive.  The invariant `IInv` adds four things.  `Wakeful`: wherever the worker
is, a non-empty queue has a signal under way, an event not yet handled
(`fftask_run()` follows it), a `fftask_run()` in progress, or one that has given up.
`BatchOK`: outside its batch the worker has no events left over; otherwise the
event in `Wakeful` could be one that is never handled.  `HeadOK`: the item
that was read without the lock is still the first one.  `Post` keeps it because
posts go to the end, `Delete` because the worker's thread is the only deleter and
is not inside `fftask_run()`'s lock-free part then.  `HeadOK` also gives
`RunsInOrder`: by `LinkedOnce` the item read is at no other place than the first,
and by the lemma `RemoveFirst` unlinking the first item is `Tail`.  `HeldOK`: from the
look at the first item to the end of its handler there is one.

`Refinement` shows the same queue to implement `Fifo`.  `StepRefines` maps each action:
with `HeadOK` the unlinked item is the head, so `Unlink` is `Take`; with `HeldOK` the
reader has an item while it deletes others or finishes; `StutterRefines` covers the steps
that leave the list and the item alone.  `Fifo` has a capacity, which is here the bound
on the posts of the model: `Bounded` (no more tasks than posts) is a second invariant.

The lemmas on `RemoveItem` and `Append` (type, length, the first item, distinctness)
carry the reasoning on sequences.  `StepIInv` has one step for each action.

### Ring and thread pool

For a ring of any size, at any start, and any number of users, threads of the pool and tasks,
under `MayLap = FALSE`.

`RingInv` is about positions, which are compared by their distance from `r`: `r`, `wtail` and
`whead` come in this order; a writer that has reserved a slot has one between `wtail` and
`whead`, and no two have the same (`Apart`), so that a store changes neither a complete item
nor another writer's; a writer that has seen room still has it if its
compare-and-swap succeeds, and a reader that has taken an item out of a slot still has the
first one if its succeeds.  The last two hold because no position comes back to where a
process has loaded it, which is all that `MayLap = FALSE` says.

`LocalInv` relates where a thread is in the pool to where it is in the ring.  `TaskInv`
looks at all places where a task may be (`held`: with the user that writes it, in a complete
slot, with the thread that has read it): a task is in one of them at most, its
references are its user's and one if it is in such a place (`TaskRefs` follows), it has not
run before a thread has it, and a task that is being added belongs to that call alone.  `Present`: a
complete slot and a thread that runs a handler have a task.  `SemInv` bounds the semaphore, for `TypeOK`.

`Refinement`: `Complete`, the items from `r` to `wtail`, is the queue.  `WriteTail` appends the
item of the slot at `wtail`, which the writer has filled (`PutRefines`); a successful
compare-and-swap of a reader takes the first (`TakeRefines`); it is finished with when
the reader begins its next call; all other accesses leave the queue as it is.  That a task is never put twice
follows from `TaskInv`, and the capacity `Cap - 1` from the order of the positions.

### Mixer

For any number of inputs of any lengths and any size of the block, also if inputs fail early.

`MixedInStep` needs to know when an input is called.  `InStep` relates what an input has given to
`outpos` and its offset, for every state of an input; `FullSleeps` says that an input that has
filled the block sleeps (no task, no operation) until `mixer-out` wakes it, as it would be counted in
`filled` twice otherwise; `Counted` that `filled` is the number of inputs that are full, and that
`trk_count` misses none; then `filled = trk_count` means that all open inputs are full
(`ReadyMeansFull`), which is `BlockIsComplete`.  `ClearOK` keeps a block ready while it is played.
`NewOK` is about the start: the first task is `mixer-out`'s, so that no input meets a mixer that is
not open.  `AwakeOnce`: a track has one reason to be awake.  `Longest`: the longest input is as long
as the mix.  `IInv` says all this until the mixer is closed.

`CountersAgree` is exact where `Counted` is an inequality, and holds if no input
fails before it is opened (see the findings).  A second invariant, `Exact`, proves it on top of `IInv`.

### Life of tracks

For any number of tracks, playbacks, tracks on the other worker, and pauses.  `IInv` says where
the tasks and threads of a track are (`AtHome`: only `trk_free()`'s task goes to another worker's
queue, and a worker is inside its own tracks only), that an unused track has none
(`UnusedAlone`), and of each track: `Awake`, which is `WakeIsNotLost` without its condition that no
thread is inside the track; `StopFollowed`, what follows a stop until `fstop` is set; `FinFollowed`,
what follows `trk_fin()`.  `StopIsNotLost` and `ExitIsNotMissed` are the state parts of `StopEnds` and
`ExitHappens`: something is always left that will attend to the track, and as long as the
program has not ended after a `FMED_TRACK_STOPALL_EXIT` a track is left whose end can end it.

`UnusedAlone` holds of tracks of the main thread only.  That is what `NothingLeftOnMain` says;
with tracks on the other worker, `NothingLeftOfFreed` does not hold of those.

### File reader

For any number and size of buffers, any size of the file, and any seeks and failures.  `Owned`
says who frees the reader: the close, or the end of the pending read; with that
`NothingUsesFreed` follows for all pauses.  The data is another matter: `ReadsRight` says that all
buffers but the one that is written hold what they say (`Good`), that the chain's data lies within
one of these, and that a track which waits for a read is neither called nor paused
before it has ended (`Pending`).  With `PauseAnywhere` the last part does not hold, and neither
does `TakenWhenDone`, which is about the steps of the same invariant.

### Audio output

For all six audio systems, any number of tracks in any formats, any number of blocks and size of
the audio buffer, any seeks (`SeekAnyTime` too) and pauses, whatever fails.  The assumption that
the proof adds is that the tracks are finite in number, without which a new buffer could have no
number of its own: there is one more number than filters, and `NewStreamIs` counts them.

The invariant has a part for each buffer and one for each track.  `Owned` is `OwnerHoldsDevice`, and
that a track uses no buffer but its own or the common one, so that closing a filter leaves
no other buffer with it as its user.  `Holds` is `OnlyOwnerIsHeard`, and what becomes of a buffer without a
user: the common one is empty when it is closed, that of a track never holds another's blocks;
without these the next track that opens one would be heard with what is left in it.  `Waiting` is
`WokenOnce`, and that only an active track waits and a paused one is not queued: without them a
new track could be started twice, and a paused one could go on by a task of before.

`Inside` says what is kept from one call to the next while a handler runs: within `trk_process()` of a track the
buffers and all other tracks are as the invariant says, and the track itself is active, awake
and its filter open.  A lemma for each operator, from `StoppedIs` up to `WriteIs`
and `ClosedIs`, carries this through the functions of the audio systems; there is a step for
each action on top of them.

### File writer

For one or two buffers of any size, any number of threads in the pool, any preallocation, any
calls with data of any length, any seeks, with failures or without.  The assumption that the
proof adds is that the bounds of the model are numbers.

`CompletedFileIsWhole` speaks of the end only.  The invariant says at every moment what the file
is going to be: `ToBe` is the file with the waiting buffers (`Queued`, the one at `buf_r` first), the
units in the buffer that is being filled, and the input that is left, written over it in this
order; `DataOK` is that this is `expected`, as long as nothing has failed.  `fw_buf_add()` moves
units from the input to the buffer and the buffer to those that wait, and `ToBe` stays the same
(`AddKeepsData`): by `Moves` if data goes right after what is there (`OverlayConcat`), or if a
buffer is handed over because the data belongs elsewhere.  That is where a seek which does not flush
the buffer would break it.  `pwrite()` writes the first waiting buffer, and writing it
again changes nothing (`OverlayTwice`), so that `WriteKeepsData` holds; `UnlockBuf` drops it, which is right since
it is on disk by then (`OnDisk`, `UnlockKeepsData`).

`Layout` says which buffers wait and which one is being filled: both full and both empty have
`buf_r = buf_w` and are told apart by their lengths.  `WriteOK` follows the one write under way from
the lock to `aio_done`: there is one task at most, in the queue or with a thread, it is that of
the locked buffer, which stays as it is (for `PendingBufferIsStable`), and a failure is not forgotten before the user has
seen it.  `SizeOK`: data beyond `size` is that of the buffer being written, so that cutting the file
when it is closed loses none of a file reported complete; after a failure it may.  `Ended`: what
holds from the moment completeness is reported.

`FreeOK` is a second invariant, proved on top of that one (`FreeInvariance`).  As long as no write
is `raced` or `lost`, the object has one task at most, from `SubmitBegin` until `AioFinish` (`Busy`);
while it has, the state is `ASYNC`, or `CLOSED` once the user has left, and nothing is freed.  So
whoever comes second finds in the state what the first has left: `Release` frees when there is no task
(`ReleaseFree`), `AioFinish` when the user has left (`AioFinishFree`), and never both.  A write that is
submitted while another one is before the lock is where that breaks, and `raced` is exactly that;
when its tasks have all ended and the object is there, the invariant holds again, whence the
histories are taken back.

The lemmas on `Take`, `Drop` and `Overlay` carry the data, `QueuedPut` the order of the buffers;
`BufAddCases` states what `fw_buf_add()` does: nothing, or the buffer is kept, or handed over; there is a step for each action.

### Stream from the network

For responses of any length, titles after any units, any number of addresses, reconnections,
redirects and copies, headers of any size.  No assumption is added to those of the modules.
The invariant is `Inv`; its parts follow the data from the socket to the files.

`ClientOK` is about the client alone, and gives `TimerGuardsWait`: a client that runs waits for
nothing and has no timer, one that waits has its socket open and its timer running, or has given
up.  There is a lemma for each state of `httpcl_process()` (`StartOK`, `ResolveOK` ... `FinishOK`), which
rest on what its helpers do to the record (`AfterHeard`, `AfterCalls`, `AfterIoErr`...).

`TurnOK` and `ToldOK` say who is at work: while the chain has the data the client is suspended,
with neither timer nor socket operation; a track that has been told of data (`Told`) finds a client that
waits for it, or one that is done.  Without these an event could change the data that the track is
about to take.  For the track, `ClientDoes` sorts all steps of the client into eight cases (`DoesEarly` ...
`DoesRest`); the other invariants need one step for each of them.

`BodyOK` is the inductive form of `NothingLost`: what the track has got, what `net.icy` holds,
what the track was told of and the client's buffer are consecutive units of the response, up to where
the server goes on.  `FilterCounts` shows that taking the chunks apart keeps that, `PartIs` and
`LastIs` that `net.icy` cuts its data behind the first unit that a title comes after.
`EndOK` is a second invariant on top of it: at the end all that the server sent
has been told of.  It needs `"length" \notin Bodies`, since `DoesEnd` drops what it is called
with otherwise.

`CopiesOK` is about each copy and `PartsOK` about all: the buffer that is not being written to is
empty, a copy that is told of the end has no one who writes to it, the last copy and no
other is that of `net.icy`; the unit that a copy's data ends with comes after the title that was
read last, so that a title behind it is a new one and begins another copy (`OneTitle`); and as long as no copy
failed, the copies hold the stream piece by piece.  `AfterGives`, `AfterAsked`, `AfterWritten` and
`AfterEnded` show what the filter `net.in` does to one copy, `SameParts`, `AppendedParts` and `WrittenParts` what that
does to the whole; `ResetCopies` is a reconnection in the middle of a title, `TitleCopies` and
`DataCopies` are a new title.

### What is only model-checked

* Liveness under fairness, which TLAPS does not reach: `LoopGoesOn`, `StopEnds`, `ExitHappens`,
  `MixEnds`, `EveryTaskRuns`, `ReaderGoesOn` and those of the other modules.  Of `TrackLife`'s the
  state parts are proved.
* `Queue`, `PhoneChain` and `Gui`: their invariants relate a dozen variables each, over commands
  that go through whole lists, and were not attempted; see the plan.
* `TrackChain`: walking a chain is a recursive operator, and what the filters do to the data is an
  induction over it; both are beyond the provers.

## Findings

Properties that TLC refutes, for whoever changes that code.  Their configurations are not among
the runs, all of which pass.  Where no
configuration is kept for one, it is that of the run with the change given:

| Configuration | Property | What the code does |
|---|---|---|
| `MCFileRead.cfg`, `PauseAnywhere = TRUE`, `Fails = FALSE`, `MaxSeeks = 2`, `MaxPauses = 1` | `TakenWhenDone` | `FMED_TRACK_UNPAUSE` for all tracks calls `trk_process()` at once, also for a track that was paused while it waited for a read: it takes a result that the pool has not written yet.  `util/fffileread.c:367`: `FF_ASSERT(f->state == FI_OK)`. |
| `MCTaskQueue.cfg`, `Tasks <- MCTasks3`, `MaxRun = 2`, `PostBudget = 3` | `EveryTaskRuns` | `fftask_run()` runs at most `max_run` (64) tasks; the rest has no signal, and later posts to a non-empty queue send none.  `util/taskqueue.h:76`: "Call a handler for each task." |
| `MCFileWrite.cfg`, `MayFail = FALSE` | `AioFindsAsync` | `fw_aio()` sets `aio_done` before it takes the lock, and may find another write's state there: `FF_ASSERT(f->state == FW_ASYNC)` does not hold.  The run `file_write` shows that the data is right all the same where assertions are compiled out. |
| `MCFileWrite.cfg`, `FreedWhenDone` without `raced` | `PendingBufferIsStable` | The same: `fw_aio()` of write 1 sets `aio_done`, the user submits write 2 (`FW_ASYNC`), then `fw_aio()` takes the lock and sets `FW_OK`: `fffilewrite_free()` frees the object with write 2 queued.  If the user closes before that, `fw_aio()` of write 1 finds `FW_CLOSED` and frees the object, and that of write 2 uses it, or frees it again.  `util/fffilewrite.c:359`: "free() sets FW_CLOSED and waits until aio() is called or unblocked". |
| `MCFileWrite.cfg`, `FreedWhenDone` without `lost` | `PendingBufferIsStable` | `ffthpool_add()` fails after the task is in the ring if no thread can be created (`util/ffthpool.c:123`, `131`); `fw_thpool_write()` sets `FW_OK` (`util/fffilewrite.c:400`), the track fails and frees the object, and a thread that looks into the ring later runs `fw_aio()` with it. |
| `MCQueue.cfg`, `Opening <- MCOpeningSome`, `Budget = 4` | `PlaybackGoesOn` | `que_play2()` returns at `core/queue-track.h:111` if no track can be created for an entry; nothing is posted, the entries behind it are not played and `FMED_TRACK_LAST` is not given.  `fmedia.conf:97`: "Start the next track in list after an error has occurred with the current track". |
| `MCThreadPool.cfg`, `CreateFails = FALSE` | `RefusedWhenFull` | `_ffring_write()` compares the successor of an old `whead` with `r`, so a ring with room may refuse a write.  `util/ring.h:33`: "Return 0 on success;  <0 if full." |
| `MCTrackChainOgg.cfg` | `PartsFindRoom` | `FMED_RLASTOUT` unlinks the filters before without closing them (`core/track.c:888`), so their slots are not used again: a track split into `.ogg` or `.opus` parts cannot add the filters of its fifth part, and fails.  With `.wav` each part finds room (`Options <- WavParts`).  `core/track.c:47`: "the filter won't be used anymore; its slot may be reused". |
| `MCTrackLife.cfg`, `Tracks <- One`, `Playbacks <- None` | `NoCallAfterFin` | After `trk_fin()` the state stays `ACTIVE`; a wake-up queued in front of `trk_free()` calls a filter that has returned its last code. |
| `MCTrackLife.cfg`, `Tracks <- One`, `Parallel <- One` | `OnOwnThread` | `UNPAUSE` of all tracks calls `trk_process()` of another worker's track on the main thread. |
| `MCMixer.cfg`, `EarlyErrors = TRUE`, `MaxLength = 1`, no check for deadlock | `MixEnds` | `trk_count` is the number of items in the queue; an input that fails before `mixer-in` opens is waited for. |
| `MCQueue.cfg`, `Dangers = {"delete"}`, `Budget = 4` | `NothingDangles` | Deleting a list in use leaves `curlist` and `pl_playing` pointing to it when its last entry frees it (`core/queue.c:766`). |
| `MCNetStream.cfg`, `Bodies <- MCLength` | `StreamIsWhole` | When the filter of a body with `Content-Length` reports the end, `httpcl_process()` calls the handler with `RESP_RECV` and goes on to `I_DONE` at once (`util/ffhttp-client.c:572`), which calls it with `DONE` before the track has run; `httpcli_process()` finds only the latter, and ends the chain without the last piece of data.  `util/http-client.h:91`: "Processing is suspended until user calls send()." |
| `MCPhoneChain.cfg` | `KeptUntilStopped` | An event of the device between the recording's last call and the closing of the device leaves a task in the worker's queue, and `trk_process()` frees a track that has finished: the application's handle is then invalid, and its `FMED_TRACK_STOP` uses it.  `android/.../track.h:330`: "waiting for FMED_TRACK_STOP". |
| `MCPhoneChain.cfg` | `OldListIsKept` | `fo_close()` removes the file under the list's name when the track has failed, but it is `name.tmp` that is not complete, and which stays. |
| `MCThreadPoolLap.cfg` | `ImplementsFifo` | see `Ring`. |
| `MCAudioOut.cfg`, `Systems = {"pulse"}`, `SeekAnyTime = TRUE` | `SeekIsSafe` | see `AudioOut`. |
| `MCTrackChain.cfg`, `Options <- OssPlayed` | `DataIsConserved` | `oss_write()` answers `FMED_RMORE` once it has created its buffer (`adev/oss.c:270`) without having taken the samples it was called with, as it is after the converter it asked for has given its first block: the next block takes the place of that one, which is not heard. |
| `MCGui.cfg`, `RowsAgree` without `~S.stray` | `RowsAgree` | A track that starts or ends draws the row with its entry's index again whatever list is shown (`gui-main.c:466`); if that is the one after the last, `ffui_view_setdata()` adds a row, which shows nothing. |
| `MCGui.cfg` | `~g.dangling` | `gtrk_close()` of a track clears `active_qent` only if no other one has been opened since: when the next has been, the entry of the first may be removed and freed, and `wmain_newtrack()` of the next uses it. |
| `MCGui.cfg`, `ExitCompletes` without `Stuck` | `ExitCompletes` | `ffui_thd_post()` with `FFUI_POST_WAIT` does not look at `quit`, as `ffui_send()` does: once the loop has ended, `wmain_list_set()` waits for ever, and the program stays. |

Met while reading the code for `Queue` and `AudioOut`, without a property of their own:

* Looking for the next entry (`pl_next()`, `pl_first()`) does not skip entries that were
  removed while in use: with repeat-all, an entry that plays while the list is cleared is
  played again.
* `sort_random()` (`core/queue.c:531`) puts the value that `FF_SWAP` returns back where it
  was: the order stays.
* The M3U reader holds no reference to the entry it adds after (`m3u-read.h`): removing
  that entry while it reads leaves it with a freed pointer.  `Unlink` says so.
* With `FMED_QUE_REPEAT_TRACK` a file that fails is started again without limit
  (`ErrorsEnd` excuses it).
* A parallel list in random or repeat-all mode never gives `FMED_TRACK_LAST`.
* `FMED_QUE_NEXT` after `FMED_QUE_MIX` leaves `mixing` set: the next end of a track
  gives `FMED_TRACK_LAST`.
* `FMED_QUE_EXPAND_ALL` goes on after `FMED_TRACK_STOPALL`.
* A failed `drain()` (`adev/audio.h:390`) and a failed reconnect (`adev/pulse.c:265`)
  return `FMED_RERR` without `FMED_TRACK_STOPPED`, so the queue goes on to the next
  track, unlike what `CHANGES.txt:294` says of device errors ("don't activate next track
  after audio device error").

Met in the same way in the network code:

* After a network error an HLS stream waits for ever: `hls.c` ignores a status below 0.
* After a timeout while connecting the request begins with the first address again: the
  second is tried only if the first refuses.
* `tcp_ioerr()` leaves the filter of the body, the list of addresses and the buffer of
  the headers to the next connection, which overwrites the pointers; a file that is fetched
  restarts from its beginning; the counter of reconnections is never set back.
* With an unknown content type, each reconnection adds the decoder and `net.icy` to the
  chain again.
* The settings `proxy` and `buffer_lowat` (`fmedia.conf:55-80`) do not reach the client.
* The timer belongs to worker 0, whichever worker the track runs on, and the tracks of
  copies start there too; `NetStream` has one worker.
* `FMED_TRACK_UNPAUSE` for all tracks while one connects makes `httpcli_process()` fail, or
  pass on data that it has passed on before.

Met while reading the filters:

* `split.c` in PCM mode shortens `d->datalen` at the split point and leaves `d->data`: the
  next part begins with the first bytes of the block again.  A part whose length divides
  the track's is followed by an empty one.
* `net.icy` answers `FMED_RMORE` at the end of its input too: a stream that ends normally
  fails with "requires more input data".  The reader of Musepack, the decoders of AAC and
  Musepack after an error, and `startlevel` if the whole recording is silent, do the same.
* `membuf` drops the block that it is called with when the user saves, and all it has when
  the track is stopped.
* `until` passes on all of the last block, whatever the position set.
* Readers that answer `FMED_RDONE` when the parser reports the end of the stream (WAV, FLAC,
  CAF, AVI, Matroska) leave the chain with the file still in it: what follows in the file
  goes straight to the decoder or the next filter.

Met while reading the graphical interface:

* What a hurried user meets: a file added right before a new tab is opened is shown in that
  tab, a list converted or copied from while a tab is made goes to another tab, rows of before stay in
  the explorer.
* When the windows are closed while a playlist file is read, the file itself is saved in place of
  its entries, which are found again at the next start; but a list that was being loaded from its own
  file then names itself, and what was in it is lost (`SavedIsWhole` without the
  last line of `InFile`).
* `que_export()` takes the first entry also if it has been removed and is only played on.
* A list without entries gets no file, and loading ends there: the lists behind it are
  not loaded.
* Removing an entry that is being converted fails the assertion in `wmain_update_convert()`.
* `ffui_send_view_setdata()` passes the index in 16 bits: in longer lists another row is drawn.
* `wmain_list_getsel()` reads GTK's selection on the main thread when entries are converted.
* `A_RENAME` unlocks the lists also when it has not found the entry, and so not locked them.

Met in the same way in the interface on Windows:

* `fav_show()` does not select the tab of the favourites if they are open already; `fav_add()` to
  the list that is shown leaves the number of rows as it was.
* `gtrk_close()` draws the row again before `curtrk` is cleared, so that its mark may stay; a
  second track that starts leaves the row of the first marked.
* A playlist that is expanded in the middle of the list, and files renamed of which one
  failed, leave rows that are not drawn again.
* `OPEN` plays with `A_PLAY_NEXT`, which goes on from what was last played, if need be in another list.
* `A_PLAY_STOP` of a paused track posts `A_PLAY_PAUSE`; if the track has closed by then, that starts
  playback.
* Closing the tab of the favourites posts the track that writes them, and frees the entries that it will
  read; favourites without a file keep an entry that names the file itself, and it is saved there.
* `gui_rec()` keeps `rec_trk` if the track could not be started.
* The sorting command runs on the thread of the windows without the queue's lock, and
  `plist_sort()` drops entries that were removed while in use.
* That a filter is set is one variable for all lists; a seek that was posted for one track is
  applied to the next; `gg->filenames` is used by two threads; commands on rows
  that are no longer there use a null pointer (a hurried user only).
* `gui_log()` holds a spin lock while it sends a message.

Met while reading the phone's code:

* `que_export()` does not stop its track: each list that is saved leaves the track's memory.
* `Fmedia_recStart()` keeps its global reference if a filter cannot be added.
* `RecSettings` passes the flags 0x10 and 0x20 for exclusive mode and power saving;
  `fmedia-jni.c` looks at 1 and 2, and for the encoder at the low bits of the flags, although it
  comes in `fmt`.
* `FMED_TRACK_STOP` of a recording only sets its state: it ends with the next event of the
  device, which a device that has stopped does not send.
* `soxr` leaves what it has not taken in `data_in`, which the phone's processor overwrites:
  with packets of more than a second samples would be lost.

## What is not modelled

* In modelled components: assignment of workers and timers (`core-work.h`); two
  deleters on one task queue (`trk_free()` deletes from other workers' queues);
  the dictionary of a track; seeking in the filters of a chain; the
  writer's synchronous mode, temporary names and preallocation that grows; pausing
  a mix (`filled` is counted twice when a waiting input is called again by
  `FMED_TRACK_UNPAUSE`); sample arithmetic; of the queue `FMED_QUE_EXPAND2`, saving
  lists, the entries' meta data, listeners, what the CUE and directory readers add, and list positions;
  the reader's synchronous mode with read-ahead, AIO and direct I/O; the ring of bytes
  in `ring.h`; JACK's and AAudio's threads behind their capture filters, and lists of
  devices.
* Of containers, codecs and compression: the libraries outside the repository that parse,
  decode and encode, and the properties (bit rate, tags, positions) that the filters
  copy from them.
* Numerical code: formats of samples, levels, resampling.
* Other interfaces and configuration: sequential code without state that others share;
  their commands are the inputs of `TrackLife`, `Queue` and `AudioOut`.  Windows that show one entry or
  settings, the widget libraries and the loaders of window layouts are a large part
  of the repository's lines, which is why the modelled part is a small share of them
  although it is the core.
* Of the network: how `net/hls.c` keeps its list of files, and what the section on `NetStream` lists.
* Loading of modules, the handle waiter: candidates.

All modules with variables but `Fifo` and `Ring` have a type invariant (`StreamTypeOK` in `NetStream`).
They were checked with the bounds of the runs and are there for the proofs; `TypeOK` of
`TaskQueue`, `ThreadPool`, `Mixer`, `TrackLife`, `FileRead`, `AudioOut` and `FileWrite` is proved, and
`StreamTypeOK`.

## Plan

| # | What | Why |
|---|---|---|
| done | `TaskQueue`, `Fifo`, `TaskQueueProofs`, `TaskList`, `Answers`, `AudioFilters`, `Formats`, `CodecLibs`, `Codecs`, `TrackOpen`, `TrackChain`, `TrackLife`, `FileWrite`, `Mixer`, `Queue`, `Ring`, `ThreadPool`, `FileRead`, `AudioOut`, `HttpClient`, `NetStream`, `PhoneChain`, `Gui`, `GuiGtk`, `GuiWin`; `MixerProofs`, `TrackLifeProofs`, `FileReadProofs`, `ThreadPoolProofs`, `AudioOutProofs`, `FileWriteProofs`, `NetStreamProofs` | above |
| 1 | proofs: `PoolSuffices` of `PhoneChain`; `RefsCounted` of `Queue` | shared objects and fixed sizes |
| 2 | `TaskQueue` with a second deleter, worker assignment and timers | which of the proved properties survive |
| 3 | `Mixer` with pauses, HLS over `HttpClient` | hazards without a property |

Composition so far: `TrackChain` walks the chains of `TrackOpen` with the answers of the filters' modules; `ThreadPool` extends `Ring`; `TaskQueue` and `Ring` refine `Fifo`; `Mixer` and `TrackLife` use `TaskList`;
the other modules take the promises of those as their environment.
