------------------------------ MODULE FileWrite ------------------------------
(***************************************************************************)
(* The buffered file writer (src/util/fffilewrite.c) as the file output    *)
(* filter drives it (fileout_write() and fileout_close() in                *)
(* src/core/file-out.c), together with the thread pool's threads that run  *)
(* fw_aio().                                                               *)
(*                                                                         *)
(* The user fills NBufs buffers of BufSize units in turn.  A full buffer   *)
(* is handed to the pool, one at a time; while it is being written the     *)
(* user goes on with the other one and, when that is full too, parks until *)
(* the pool's thread calls onwrite().  The unit of data is a number that   *)
(* is never used twice, so a file is a function from positions to units.   *)
(***************************************************************************)
EXTENDS Integers, Sequences, FiniteSets

CONSTANTS
    BufSize,       \* conf.bufsize, in units
    NBufs,         \* conf.nbufs
    Prealloc,      \* conf.prealloc, in units; prealloc_grow is off
    PoolThreads,   \* threads of the pool
    MaxPos,        \* bound: positions of the file
    MaxChunks,     \* bound: calls of fileout_write() with new data
    MaxLen,        \* bound: units in one such call
    Seeks,         \* positions that the formats seek to
    MayFail        \* whether pwrite() and ffthpool_add() may fail

ASSUME BufAssumption == BufSize \in Nat \ {0} /\ NBufs \in {1, 2} /\ Prealloc \in Nat
ASSUME FailAssumption == MayFail \in BOOLEAN
ASSUME BoundAssumption == {MaxPos, MaxChunks, MaxLen} \subseteq Nat
ASSUME SeekAssumption == Seeks \subseteq 0 .. MaxPos

VARIABLES
    \* the user: fileout_write() and, inside it, fffilewrite_write()
    upc,       \* where the user's thread is
    data,      \* units still to be taken from the filter's input
    off,       \* the argument "off": a position, or -1 for "here"
    flush,     \* FMED_FLAST and so FFFILEWRITE_FFLUSH
    allwr,     \* units taken since fffilewrite_write() was entered
    woken,     \* onwrite() has posted the track's task
    \* the writer's object
    bufs,      \* [len, off, mem] of each buffer
    locked,    \* index of the buffer that is being written, or -1
    buf_r, buf_w, cur_off, cur_len,
    state, aio_done, nfy_user, completed, size, prealloc_size,
    iotask,    \* an AIO task object exists
    iores,     \* its result: whether pwrite() succeeded
    freed,     \* how often the object's memory has been freed
    \* the pool and the disk
    queue,     \* tasks added to the pool and not started
    run,       \* run[h]: the task of pool thread h and how far it is
    file, fileSize, fdOpen,
    \* history
    expected,  \* what the units handed over so far should make of the file
    upos,      \* where the next unit belongs
    chunks,    \* calls of fileout_write() with new data so far
    failed,    \* some pwrite() failed
    raced,     \* a write was submitted while fw_aio() of the one before had not ended
    lost       \* the pool has a task that ffthpool_add() said it has not

user == <<upc, data, off, flush, allwr>>
buffers == <<bufs, locked, buf_r, buf_w, cur_off, cur_len>>
disk == <<file, fileSize, fdOpen>>
ghost == <<expected, upos, chunks>>
over == <<raced, lost>>
vars == <<user, woken, buffers, state, aio_done, nfy_user, completed, size,
          prealloc_size, iotask, iores, freed, queue, run, disk, ghost, failed, over>>

Positions == 0 .. MaxPos
Units == 1 .. MaxChunks * MaxLen
Bufs == 0 .. NBufs - 1
NoRun == [pc |-> "idle"]
States == {"OK", "ASYNC", "CLOSED"}

Least(a, b) == IF a <= b THEN a ELSE b
Most(a, b) == IF a >= b THEN a ELSE b
Take(s, k) == SubSeq(s, 1, k)
Drop(s, k) == SubSeq(s, k + 1, Len(s))

(* f with the units s written from position p on. *)
Overlay(f, p, s) ==
    [x \in DOMAIN f |-> IF x >= p /\ x < p + Len(s) THEN s[x - p + 1] ELSE f[x]]

(* A task: the buffer it writes from and, for the properties, what that buffer
   held when the task was made. *)
Task == [buf : Bufs, len : 1 .. BufSize, off : Positions, was : Seq(Units)]

TypeOK ==
    /\ upc \in {"idle", "top", "add", "park", "prealloc", "submit", "parked", "done",
                "error", "closing", "closed"}
    /\ data \in Seq(Units) /\ Len(data) <= MaxLen
    /\ off \in {-1} \cup Positions
    /\ allwr \in 0 .. MaxLen
    /\ {flush, woken, aio_done, nfy_user, completed, iotask, iores, fdOpen, failed,
        raced, lost} \subseteq BOOLEAN
    /\ freed \in Nat
    /\ DOMAIN bufs = Bufs
    /\ \A b \in Bufs : /\ bufs[b].len \in 0 .. BufSize
                       /\ bufs[b].off \in Positions
                       /\ bufs[b].mem \in Seq(Units) /\ Len(bufs[b].mem) <= BufSize
    /\ locked \in {-1} \cup Bufs
    /\ buf_r \in Bufs /\ buf_w \in Bufs
    /\ cur_off \in 0 .. MaxPos + 1 /\ cur_len \in 0 .. BufSize - 1
    /\ state \in States
    /\ size \in 0 .. MaxPos + 1 /\ prealloc_size \in Nat /\ fileSize \in Nat
    /\ queue \in Seq(Task) /\ Len(queue) <= 1
    /\ \A h \in PoolThreads : run[h].pc \in {"idle", "run", "wrote", "flagged"}
    /\ file \in [Positions -> Units \cup {0}]
    /\ expected \in [Positions -> Units \cup {0}]
    /\ upos \in 0 .. MaxPos + 1 /\ chunks \in 0 .. MaxChunks

Init ==
    /\ upc = "idle" /\ data = <<>> /\ off = -1 /\ flush = FALSE /\ allwr = 0
    /\ woken = FALSE
    /\ bufs = [b \in Bufs |-> [len |-> 0, off |-> 0, mem |-> <<>>]]
    /\ locked = -1 /\ buf_r = 0 /\ buf_w = 0 /\ cur_off = 0 /\ cur_len = 0
    /\ state = "OK" /\ aio_done = FALSE /\ nfy_user = FALSE /\ completed = FALSE
    /\ size = 0 /\ prealloc_size = 0 /\ iotask = FALSE /\ iores = TRUE /\ freed = 0
    /\ queue = <<>> /\ run = [h \in PoolThreads |-> NoRun]
    /\ file = [p \in Positions |-> 0] /\ fileSize = 0 /\ fdOpen = TRUE
    /\ expected = [p \in Positions |-> 0] /\ upos = 0 /\ chunks = 0 /\ failed = FALSE
    /\ raced = FALSE /\ lost = FALSE

-----------------------------------------------------------------------------
(* fileout_write() is called with new data, a position to seek to or not, and
   FMED_FLAST on the last call. *)
Call ==
    /\ upc = "idle" /\ ~flush
    /\ chunks < MaxChunks
    /\ \E len \in 0 .. MaxLen, sk \in {-1} \cup Seeks, last \in BOOLEAN :
        LET p == IF sk = -1 THEN upos ELSE sk
            new == [i \in 1 .. len |-> chunks * MaxLen + i]
        IN /\ p + len <= MaxPos + 1
           /\ chunks + 1 = MaxChunks => last
           /\ data' = new /\ off' = sk /\ flush' = last
           /\ expected' = Overlay(expected, p, new)
           /\ upos' = p + len
    /\ chunks' = chunks + 1
    /\ allwr' = 0
    /\ upc' = "top"
    /\ UNCHANGED <<woken, buffers, state, aio_done, nfy_user, completed, size,
                   prealloc_size, iotask, iores, freed, queue, run, disk, failed, over>>

(* The track's task runs after onwrite(): the chain calls fileout_write() again
   with what is left of the input; output.seek was consumed by the first call. *)
Resume ==
    /\ upc = "parked" /\ woken
    /\ woken' = FALSE
    /\ upc' = "top" /\ off' = -1 /\ allwr' = 0
    /\ UNCHANGED <<data, flush, buffers, state, aio_done, nfy_user, completed, size,
                   prealloc_size, iotask, iores, freed, queue, run, disk, ghost, failed, over>>

(* Another user of the track wakes it: the player, a filter of its chain. *)
OtherWake ==
    /\ upc = "parked" /\ ~woken
    /\ woken' = TRUE
    /\ UNCHANGED <<user, buffers, state, aio_done, nfy_user, completed, size,
                   prealloc_size, iotask, iores, freed, queue, run, disk, ghost, failed, over>>

(* fw_buf_unlock() *)
UnlockBuf ==
    /\ bufs' = [bufs EXCEPT ![buf_r].len = 0, ![buf_r].off = 0]
    /\ buf_r' = (buf_r + 1) % NBufs
    /\ locked' = -1

(* fw_thpool_result(): ext->result >= 0 *)
WriteSucceeded == iores

(* The loop head of fffilewrite_write(): fw_thpool_result() when fw_aio() has
   flagged the task's end. *)
Top ==
    /\ upc = "top"
    /\ IF aio_done
       THEN /\ aio_done' = FALSE
            /\ UnlockBuf
            /\ iotask' = FALSE
            /\ IF WriteSucceeded
               THEN /\ size' = Most(size, bufs[buf_r].off + bufs[buf_r].len)
                    /\ upc' = "add"
               ELSE upc' = "error" /\ UNCHANGED size
       ELSE /\ upc' = "add"
            /\ UNCHANGED <<aio_done, bufs, buf_r, locked, iotask, size>>
    /\ UNCHANGED <<data, off, flush, allwr, woken, buf_w, cur_off, cur_len, state,
                   nfy_user, completed, prealloc_size, iores, freed, queue, run, disk,
                   ghost, failed, over>>

-----------------------------------------------------------------------------
NeverElsewhere == FALSE     \* slip: a seek does not flush the buffer

(* The data belongs elsewhere than right after what is in the buffer. *)
SeekElsewhere == off # -1 /\ off # cur_off /\ cur_len # 0

(* buf_full() *)
BufFull == buf_r = buf_w /\ bufs[buf_w].len # 0

(* fw_buf_add(): what it takes of data d, where the user is then, and whether
   the buffer that is being filled is handed over to be written. *)
BufAdd(d) ==
    LET b == bufs[buf_w]
        jump == SeekElsewhere
        full == BufFull
        here == IF off = -1 THEN cur_off ELSE off
        k == IF full \/ jump THEN 0 ELSE Least(BufSize - cur_len, Len(d))
        filled == cur_len + k
        mem == Take(b.mem, cur_len) \o Take(d, k)
        start == IF cur_len = 0 THEN here ELSE b.off
        push == filled # 0 /\ (filled = BufSize \/ flush \/ jump) /\ ~full
    IN [wr |-> k, cur_off |-> here + k,
        cur_len |-> IF full THEN cur_len ELSE IF push THEN 0 ELSE filled,
        buf |-> IF full \/ filled = 0 THEN b
                ELSE [len |-> IF push THEN filled ELSE b.len, off |-> start, mem |-> mem],
        buf_w |-> IF push THEN (buf_w + 1) % NBufs ELSE buf_w]

(* fffilewrite_write() returns the number of units taken and fileout_write()
   goes on: the filter is done after the last flush; the chain gets ROK when
   all input is taken; otherwise the writer is called again. *)
ReturnWritten(taken, left) ==
    /\ upc' = IF taken = 0 /\ flush THEN "done"
              ELSE IF left = <<>> /\ ~flush THEN "idle" ELSE "top"
    /\ allwr' = 0
    /\ off' = -1

(* fw_buf_add(), then fw_buf_lock_get() and what follows from its result:
   nothing to write; a write is pending; or a buffer to write. *)
AddWith(add) ==
    LET bufs2 == [bufs EXCEPT ![buf_w] = add.buf]
        empty == buf_r = add.buf_w /\ bufs2[buf_r].len = 0
        left == Drop(data, add.wr)
        taken == allwr + add.wr
    IN /\ bufs' = bufs2 /\ buf_w' = add.buf_w
       /\ cur_off' = add.cur_off /\ cur_len' = add.cur_len
       /\ data' = left
       /\ \/ /\ empty
             /\ completed' = (completed \/ (data = <<>> /\ flush))
             /\ ReturnWritten(taken, left)
             /\ UNCHANGED locked
          \/ /\ ~empty /\ locked # -1 /\ taken # 0
             /\ ReturnWritten(taken, left)
             /\ UNCHANGED <<locked, completed>>
          \/ /\ ~empty /\ locked # -1 /\ taken = 0
             /\ upc' = "park"
             /\ UNCHANGED <<locked, completed, off, allwr>>
          \/ /\ ~empty /\ locked = -1
             /\ locked' = buf_r
             /\ upc' = "prealloc" /\ off' = -1 /\ allwr' = taken
             /\ UNCHANGED completed
    /\ UNCHANGED <<flush, woken, buf_r, state, aio_done, nfy_user, size, prealloc_size,
                   iotask, iores, freed, queue, run, disk, ghost, failed, over>>

Add == upc = "add" /\ AddWith(BufAdd(data))

(* "RASYNC && allwr == 0": under the lock, ask for onwrite() while the write is
   pending; if it has ended meanwhile, go on without parking.  The assertion
   on aio_done there is not part of the release build. *)
Park ==
    /\ upc = "park"
    /\ IF state = "OK"
       THEN upc' = "top" /\ off' = -1 /\ UNCHANGED nfy_user
       ELSE upc' = "parked" /\ nfy_user' = TRUE /\ UNCHANGED off
    /\ UNCHANGED <<data, flush, allwr, woken, buffers, state, aio_done, completed, size,
                   prealloc_size, iotask, iores, freed, queue, run, disk, ghost, failed, over>>

(* fw_prealloc(), then the first half of fw_thpool_write(): the state is set,
   without the lock, before the task is added.  The assertion that there is no task is
   not part of the release build, and it holds: the user has taken the result of the
   write before, though its fw_aio() may still have the lock to take. *)
SubmitBegin ==
    /\ upc = "prealloc"
    /\ LET b == bufs[buf_r]
           roff == b.off + b.len
           up == ((roff + Prealloc - 1) \div Prealloc) * Prealloc
       IN IF Prealloc = 0 \/ roff <= prealloc_size
          THEN UNCHANGED <<fileSize, prealloc_size>>
          ELSE fileSize' = up /\ prealloc_size' = up
    /\ iotask' = TRUE
    /\ state' = "ASYNC"
    /\ raced' = (raced \/ \E h \in PoolThreads : run[h].pc = "flagged")
    /\ upc' = "submit"
    /\ UNCHANGED <<data, off, flush, allwr, woken, buffers, aio_done, nfy_user, completed,
                   size, iores, freed, queue, run, file, fdOpen, ghost, failed, lost>>

(* ffthpool_add() puts the task in the ring. *)
Enqueue ==
    LET b == bufs[buf_r]
    IN  queue' = Append(queue, [buf |-> buf_r, len |-> b.len, off |-> b.off, was |-> b.mem])

(* ffthpool_add(): the task is queued; or it is not, for the ring is full; or it is
   queued, and then no thread can be created and the call fails.  Whichever way it
   failed, fw_thpool_write() drops its reference to the task and the write is over;
   it ends as the second if there is no memory for a task. *)
SubmitEnd ==
    /\ upc = "submit"
    /\ \/ Enqueue /\ upc' = "top" /\ UNCHANGED <<state, iotask, lost>>
       \/ /\ MayFail
          /\ state' = "OK" /\ iotask' = FALSE
          /\ upc' = "error"
          /\ \/ UNCHANGED <<queue, lost>>
             \/ Enqueue /\ lost' = TRUE
    /\ UNCHANGED <<data, off, flush, allwr, woken, buffers, aio_done, nfy_user, completed,
                   size, prealloc_size, iores, freed, run, disk, ghost, failed, raced>>

(* fffilewrite_free() as fileout_close() calls it, at any moment the track is
   not inside the filter: the file is cut to its size and closed. *)
Close ==
    /\ upc \in {"idle", "parked", "done", "error"}
    /\ fileSize' = size /\ fdOpen' = FALSE
    /\ file' = [p \in Positions |-> IF p < size THEN file[p] ELSE 0]
    /\ upc' = "closing"
    /\ UNCHANGED <<data, off, flush, allwr, woken, buffers, state, aio_done, nfy_user,
                   completed, size, prealloc_size, iotask, iores, freed, queue, run,
                   ghost, failed, over>>

ReleaseAlways ==        \* slip: the object is freed whatever is under way
    /\ upc = "closing" /\ upc' = "closed"
    /\ freed' = freed + 1
    /\ UNCHANGED <<data, off, flush, allwr, woken, buffers, state, aio_done, nfy_user,
                   completed, size, prealloc_size, iotask, iores, queue, run, disk, ghost,
                   failed, over>>

(* Its second part: under the lock, leave the object to the pending write, or
   release it. *)
Release ==
    /\ upc = "closing"
    /\ IF state = "ASYNC"
       THEN state' = "CLOSED" /\ UNCHANGED freed
       ELSE freed' = freed + 1 /\ UNCHANGED state
    /\ upc' = "closed"
    /\ UNCHANGED <<data, off, flush, allwr, woken, buffers, aio_done, nfy_user, completed,
                   size, prealloc_size, iotask, iores, queue, run, disk, ghost, failed, over>>

-----------------------------------------------------------------------------
(* A thread of the pool takes a task; so may one for a task that is lost, when it looks
   into the ring for another reason: the pool's semaphore has not been posted. *)
AioStart(h) ==
    /\ run[h].pc = "idle" /\ queue # <<>>
    /\ run' = [run EXCEPT ![h] = [pc |-> "run", task |-> Head(queue)]]
    /\ queue' = Tail(queue)
    /\ UNCHANGED <<user, woken, buffers, state, aio_done, nfy_user, completed, size,
                   prealloc_size, iotask, iores, freed, disk, ghost, failed, over>>

(* fw_aio(): pwrite() from the buffer's memory as it is now.  When the file has been
   closed, its descriptor is not valid or is that of some other file by now. *)
AioWrite(h) ==
    /\ run[h].pc = "run"
    /\ LET t == run[h].task
       IN \/ /\ fdOpen
             /\ file' = Overlay(file, t.off, Take(bufs[t.buf].mem, t.len))
             /\ fileSize' = Most(fileSize, t.off + t.len)
             /\ iores' = TRUE
             /\ UNCHANGED failed
          \/ /\ MayFail \/ ~fdOpen
             /\ iores' = FALSE
             /\ failed' = TRUE
             /\ UNCHANGED <<file, fileSize>>
          \/ /\ ~fdOpen
             /\ iores' = TRUE
             /\ UNCHANGED <<file, fileSize, failed>>
    /\ run' = [run EXCEPT ![h].pc = "wrote"]
    /\ UNCHANGED <<user, woken, buffers, state, aio_done, nfy_user, completed, size,
                   prealloc_size, iotask, freed, queue, fdOpen, ghost, over>>

(* fw_aio(): f->aio_done = 1, before the lock is taken. *)
AioFlag(h) ==
    /\ run[h].pc = "wrote"
    /\ aio_done' = TRUE
    /\ run' = [run EXCEPT ![h].pc = "flagged"]
    /\ UNCHANGED <<user, woken, buffers, state, nfy_user, completed, size, prealloc_size,
                   iotask, iores, freed, queue, disk, ghost, failed, over>>

AioFinishKeeps(h) ==    \* slip: a closed object is left alone
    /\ run[h].pc = "flagged"
    /\ state' = IF state = "CLOSED" THEN state ELSE "OK"
    /\ nfy_user' = FALSE /\ woken' = (woken \/ nfy_user)
    /\ run' = [run EXCEPT ![h] = NoRun]
    /\ UNCHANGED <<user, buffers, aio_done, completed, size, prealloc_size, iotask, iores,
                   freed, queue, disk, ghost, failed, over>>

(* The object has work under way: a task is being made or the pool has one of it. *)
Busy == upc = "submit" \/ queue # <<>> \/ \E h \in PoolThreads : run[h].pc # "idle"

(* fw_aio(): the section under the lock.  The assertion on the state there is
   not part of the release build.  In memory that has been freed any state may be
   found.  The histories end with the last write, if the object is there still. *)
AioFinish(h) ==
    /\ run[h].pc = "flagged"
    /\ run' = [run EXCEPT ![h] = NoRun]
    /\ \E found \in IF freed = 0 THEN {state} ELSE States :
          \/ /\ found = "CLOSED"
             /\ freed' = freed + 1
             /\ UNCHANGED <<state, nfy_user, woken>>
          \/ /\ found # "CLOSED"
             /\ state' = "OK"
             /\ nfy_user' = FALSE
             /\ woken' = (woken \/ nfy_user)
             /\ UNCHANGED freed
    /\ UNCHANGED <<user, buffers, aio_done, completed, size, prealloc_size, iotask, iores,
                   queue, disk, ghost, failed>>
    /\ raced' = (raced /\ (Busy' \/ freed' > 0))
    /\ lost' = (lost /\ (Busy' \/ freed' > 0))

Aio(h) == AioStart(h) \/ AioWrite(h) \/ AioFlag(h) \/ AioFinish(h)

UserStep == Resume \/ Top \/ Add \/ Park \/ SubmitBegin \/ SubmitEnd \/ Release

Terminated ==
    /\ upc = "closed" /\ (queue = <<>> \/ lost) /\ \A h \in PoolThreads : run[h].pc = "idle"
    /\ UNCHANGED vars

Next ==
    \/ UserStep \/ Call \/ OtherWake \/ Close
    \/ \E h \in PoolThreads : Aio(h)
    \/ Terminated

(* The user's thread runs while it is inside the writer, and the pool's threads
   run; nothing makes the track call, or close, the filter, and nothing makes a
   thread look for a task that is lost. *)
Spec ==
    /\ Init /\ [][Next]_vars
    /\ WF_vars(UserStep)
    /\ \A h \in PoolThreads : /\ WF_vars(~lost /\ AioStart(h))
                             /\ WF_vars(AioWrite(h) \/ AioFlag(h) \/ AioFinish(h))

-----------------------------------------------------------------------------
(* When fileout_write() reports the end, the file holds exactly the units that
   the filter was given, each at its place, in spite of seeks, of the two
   buffers and of the writes in the background; and so does the closed file. *)
CompletedFileIsWhole ==
    completed =>
        /\ file = expected
        /\ upc \in {"closing", "closed"} =>
              fileSize = Cardinality({p \in Positions : \E q \in Positions :
                                            p <= q /\ expected[q] # 0})

(* The object is freed once, and not before the pool is done with its last task: fw_aio()
   and fffilewrite_free() leave each other the object by its state.  Excused are the
   writes for which the code does not see to that: one that was submitted before the
   fw_aio() of the one before took the lock, which then sets FW_OK, or frees the object,
   under it; and one that ffthpool_add() has both queued and failed. *)
FreedWhenDone == raced \/ lost \/ freed = 0 \/ (freed = 1 /\ ~Busy)

(* A task that is still to be written finds the object, its buffer, and in the buffer what
   was there when the task was made; but for those excused by FreedWhenDone, which find
   their data if the object has not been freed. *)
Unwritten ==
    {queue[i] : i \in DOMAIN queue}
    \cup {run[h].task : h \in {g \in PoolThreads : run[g].pc = "run"}}
PendingBufferIsStable ==
    /\ FreedWhenDone
    /\ \A t \in Unwritten :
          LET mem == bufs[t.buf].mem
          IN \/ freed > 0 /\ (raced \/ lost)
             \/ freed = 0 /\ Len(mem) >= t.len /\ Take(mem, t.len) = Take(t.was, t.len)

(* A failed write is never reported as a complete file. *)
FailureIsReported == failed => (upc # "done" /\ ~completed)

(* A user that waits for onwrite() is called, whenever the write ends. *)
ParkedIsWoken == upc = "parked" ~> upc # "parked"

(* After fffilewrite_free() the object is released by one side or the other; whether too
   early is the matter of FreedWhenDone. *)
ClosedIsFreed == upc = "closed" ~> freed > 0

(* A user that waits is called and a closed object is released: neither the writer nor
   its background write leaves the other one waiting. *)
WriterGoesOn == ParkedIsWoken /\ ClosedIsFreed

(* What fw_aio() asserts under the lock: no one else has changed the state of
   the pending write. *)
AioFindsAsync ==
    \A h \in PoolThreads : run[h].pc = "flagged" => state \in {"ASYNC", "CLOSED"}
=============================================================================
