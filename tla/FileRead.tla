------------------------------ MODULE FileRead ------------------------------
(***************************************************************************)
(* The buffered file reader in its default mode, with the pool of threads  *)
(* (src/util/fffileread.c), under the filter "file.in" (src/core/file.c)   *)
(* and the task of a track that calls it (src/core/track.c).               *)
(*                                                                         *)
(* The track's thread asks for the data at its position.  If no buffer     *)
(* has it, a read of the block around it is given to the pool, and the     *)
(* track waits (FMED_RASYNC); a thread of the pool reads, and wakes it.    *)
(* The pool is ThreadPool's, reduced to its promise: a task that was added *)
(* is run.  The rest of the chain is a consumer that asks for more, seeks, *)
(* and may pause the track in between.                                     *)
(*                                                                         *)
(* Data is told apart by its offset: a buffer's memory holds a piece of    *)
(* the file, from one offset to another.                                   *)
(***************************************************************************)
EXTENDS Integers, FiniteSets

CONSTANTS
    NBufs, BufSize, Align,  \* conf.nbufs, conf.bufsize, conf.bufalign, in units
    Size,           \* the size of the file
    Seeks,          \* where the consumer may seek to
    MaxSeeks,       \* bound: seeks
    MaxPauses,      \* bound: pauses
    PauseAnywhere,  \* FMED_TRACK_PAUSE for all tracks (http-ctl.c, globcmd.c);
                    \* FALSE: only the track's own output pauses it
    Fails           \* whether a read, or adding it to the pool, may fail

ASSUME ReadAssumption ==
    /\ {NBufs, BufSize, Align} \subseteq Nat \ {0} /\ BufSize % Align = 0
    /\ Size \in Nat /\ Seeks \subseteq 0 .. Size + BufSize /\ {MaxSeeks, MaxPauses} \subseteq Nat
    /\ {PauseAnywhere, Fails} \subseteq BOOLEAN

VARIABLES
    f,       \* the reader's state and the filter's
    buf,     \* the buffers: struct buf, and what their memory holds
    io,      \* the read the pool has to do: ffthpool_task and fr_task
    out,     \* the data the filter has handed to the chain
    trk,     \* the track
    seeks, pauses

vars == <<f, buf, io, out, trk, seeks, pauses>>

Bufs == 0 .. NBufs - 1
None == -1            \* (uint)-1, (uint64)-1, NULL
Far == Size + BufSize + Align   \* an end of file nobody knows yet: (uint64)-1

(* st: enum FI_ST; task: iotask is set; nfy: nfy_user; freed: how often its
   memory has been freed; pos, done: fmed_file.seek and .done.  Without
   read-ahead, which this mode turns off, .locked and .async_off have no use. *)
Opened == [st |-> "OK", eof |-> Far, task |-> FALSE, nfy |-> FALSE, wbuf |-> 0,
           freed |-> 0, pos |-> 0, done |-> FALSE]

(* No block of the file is in memory: struct buf's offset is (uint64)-1. *)
EmptyBuf == [off |-> None, len |-> 0, from |-> 0, to |-> 0]

(* at: where the pool is with it, "lost" if it lies in the ring although adding
   it has failed; res: fr_task.result, None for an error. *)
NoIo == [at |-> "none", buf |-> 0, off |-> 0, res |-> 0]
NoData == [buf |-> 0, off |-> 0, len |-> 0]

(* st: the track is active, paused, at the end of the file, in error, or
   closed; go: its task is queued. *)
Track(st, go) == [st |-> st, go |-> go]

Init ==
    /\ f = Opened /\ buf = [i \in Bufs |-> EmptyBuf]
    /\ io = NoIo /\ out = NoData /\ trk = Track("active", TRUE)
    /\ seeks = 0 /\ pauses = 0

-----------------------------------------------------------------------------
AlignDown(off) == off - (off % Align)

(* bufs_find(): the buffers that have the offset. *)
Having(B, off) == {i \in Bufs : B[i].off <= off /\ off < B[i].off + B[i].len}

Lowest(S) == CHOOSE i \in S : \A j \in S : i <= j

(* What fr_task.result holds: uninitialized memory while the pool has not read. *)
Garbage == None .. BufSize + 1
Results == IF io.at = "queued" THEN Garbage ELSE {io.res}

(* (uint)ext->result != f->conf.bufsize *)
IsLast(res) == res # BufSize

(* Slip of fr_thpool_result(): the block is taken to be full. *)
WithFullLength(i, res) == [buf EXCEPT ![i].len = BufSize]

WithLength(i, res) == [buf EXCEPT ![i].len = res]

(* fr_thpool_result(): the buffer gets its length, and the next one is to be
   written; a block that is not full is the last one. *)
Taken(res) ==
    LET F == [f EXCEPT !.task = FALSE]
        b == f.wbuf
    IN  IF res = None THEN [r |-> "err", f |-> F, buf |-> buf]
        ELSE [r |-> "ok", buf |-> WithLength(b, res),
              f |-> [F EXCEPT !.wbuf = (b + 1) % NBufs,
                              !.eof = IF IsLast(res) THEN buf[b].off + res ELSE @]]

(* How a call of fffileread_getdata() ends: what it returns, and what it leaves. *)
Returns(r, F, B, I) == [r |-> r, f |-> F, buf |-> B, io |-> I, i |-> None]
Found(F, B, i) == [Returns("data", F, B, io) EXCEPT !.i = i]

(* How ffthpool_add() and the allocation before it end. *)
Adding == {"added"} \cup IF Fails THEN {"nomem", "refused", "lost"} ELSE {}

Ask(F) == [F EXCEPT !.st = "ASYNC", !.nfy = TRUE]

(* fr_thpool_read(): the buffer to write has its new offset, and still its old
   length, from now on; if adding the task fails, the reader goes on counting as
   one that waits for it. *)
Read(F, B, off, add) ==
    LET b == AlignDown(off)
        B2 == [B EXCEPT ![F.wbuf].off = b]
        task == [NoIo EXCEPT !.at = "queued", !.buf = F.wbuf, !.off = b]
    IN  IF off = F.eof THEN Returns("eof", F, B, io)
        ELSE IF off > F.eof \/ F.st = "ASYNC" THEN Returns("err", F, B, io)
        ELSE CASE add = "added" -> Returns("async", [Ask(F) EXCEPT !.task = TRUE], B2, task)
               [] add = "nomem" -> Returns("err", F, B2, io)
               [] add = "refused" -> Returns("err", Ask(F), B2, io)
               [] add = "lost" -> Returns("err", Ask(F), B2, [task EXCEPT !.at = "lost"])

(* fffileread_getdata(), without a result to take. *)
Lookup(F, B, off, add) ==
    LET hit == Having(B, off)
    IN  IF hit # {} THEN Found(F, B, Lowest(hit))
        ELSE Read(F, B, off, add)

(* fffileread_getdata() *)
GetData(off, res, add) ==
    LET t == Taken(res)
    IN  IF ~f.task THEN Lookup(f, buf, off, add)
        ELSE IF t.r = "err" THEN Returns("err", t.f, t.buf, io)
        ELSE IF Having(t.buf, off) = {} /\ off = t.f.eof THEN Returns("eof", t.f, t.buf, io)
        ELSE Lookup(t.f, t.buf, off, add)

(* file_getdata(): the call and what the track does next.  go: whether the
   track's task is queued if it returns to wait. *)
Call(off, seek, res, add, go) ==
    LET g == GetData(off, res, add)
        F == [g.f EXCEPT !.pos = off, !.done = @ /\ ~seek]
        n == g.buf[g.i].off + g.buf[g.i].len - off
    IN  /\ buf' = g.buf /\ io' = g.io
        /\ CASE g.r = "async" -> f' = F /\ out' = NoData /\ trk' = Track("active", go)
             [] g.r = "err" -> f' = F /\ out' = NoData /\ trk' = Track("err", go)
             [] g.r = "eof" /\ (F.done \/ seek) -> f' = F /\ out' = NoData /\ trk' = Track("done", go)
             [] g.r = "eof" /\ ~F.done /\ ~seek ->
                    f' = [F EXCEPT !.done = TRUE] /\ out' = NoData /\ trk' = Track("active", TRUE)
             [] g.r = "data" ->
                    /\ f' = [F EXCEPT !.pos = off + n]
                    /\ out' = [buf |-> g.i, off |-> off, len |-> n]
                    /\ trk' = Track("active", TRUE)

(* The track goes on: the chain behind the filter asks for more data, after
   setting input.seek or not; or it waits for the read that it has asked for. *)
Process(go) ==
    \E res \in Results, add \in Adding :
        \/ Call(f.pos, FALSE, res, add, go) /\ UNCHANGED seeks
        \/ /\ ~f.task /\ seeks < MaxSeeks
           /\ \E off \in Seeks : Call(off, TRUE, res, add, go)
           /\ seeks' = seeks + 1

-----------------------------------------------------------------------------
(* trk_process(), as the track's task. *)
Run ==
    /\ trk.go
    /\ IF trk.st = "active" THEN Process(FALSE)
       ELSE trk' = [trk EXCEPT !.go = FALSE] /\ UNCHANGED <<f, buf, io, out, seeks>>
    /\ UNCHANGED pauses

(* The output filter has nothing to play for the moment (snd_output_pause), or
   all tracks are paused, whatever they are doing. *)
Pause ==
    /\ trk.st = "active" /\ pauses < MaxPauses
    /\ \/ /\ ~f.task /\ trk.go /\ trk' = Track("paused", FALSE)
       \/ /\ PauseAnywhere /\ trk' = [trk EXCEPT !.st = "paused"]
    /\ pauses' = pauses + 1
    /\ UNCHANGED <<f, buf, io, out, seeks>>

(* FMED_TRACK_UNPAUSE calls trk_process() at once. *)
Unpause ==
    /\ trk.st = "paused"
    /\ Process(trk.go)
    /\ UNCHANGED pauses

(* Slip of fffileread_free_ex(): the reader is freed here and, by the handler of
   a pending read, again. *)
FreedTwice(F) == [F EXCEPT !.st = IF @ = "ASYNC" THEN "CLOSED" ELSE @, !.freed = @ + 1]

(* fffileread_free_ex(): unless a read is pending, whose handler will do it. *)
Freed(F) == IF F.st = "ASYNC" THEN [F EXCEPT !.st = "CLOSED"] ELSE [F EXCEPT !.freed = @ + 1]

(* The track is stopped, has failed or is done with its file: file_close(). *)
Close ==
    /\ trk.st # "closed"
    /\ f' = Freed(f)
    /\ trk' = Track("closed", FALSE) /\ out' = NoData
    /\ UNCHANGED <<buf, io, seeks, pauses>>

-----------------------------------------------------------------------------
(* A thread of the pool: pread() in fr_aio().  The descriptor may be closed by
   now: the read fails, or reads from another file. *)
Pread ==
    /\ io.at \in {"queued", "lost"}
    /\ LET n == IF io.off >= Size THEN 0
                ELSE IF Size - io.off < BufSize THEN Size - io.off ELSE BufSize
       IN  \/ /\ io' = [io EXCEPT !.at = "read", !.res = n]
              /\ buf' = [buf EXCEPT ![io.buf].from = io.off, ![io.buf].to = io.off + n]
           \/ /\ Fails \/ trk.st = "closed"
              /\ io' = [io EXCEPT !.at = "read", !.res = None]
              /\ UNCHANGED buf
    /\ UNCHANGED <<f, out, trk, seeks, pauses>>

(* Slip of fr_aio(): a reader that was closed is left alone. *)
CompleteOpen ==
    /\ io.at = "read"
    /\ io' = [io EXCEPT !.at = "none"]
    /\ IF f.st = "CLOSED"
       THEN UNCHANGED <<f, trk>>
       ELSE /\ f' = [f EXCEPT !.st = "OK", !.nfy = FALSE]
            /\ trk' = IF f.nfy THEN [trk EXCEPT !.go = TRUE] ELSE trk
    /\ UNCHANGED <<buf, out, seeks, pauses>>

(* fr_aio() goes on under the reader's lock: the reader is freed if its user has
   closed it; otherwise the user is notified, and FMED_TRACK_WAKE posts the
   track's task. *)
Complete ==
    /\ io.at = "read"
    /\ io' = [io EXCEPT !.at = "none"]
    /\ IF f.st = "CLOSED"
       THEN f' = Freed(f) /\ UNCHANGED trk
       ELSE /\ f' = [f EXCEPT !.st = "OK", !.nfy = FALSE]
            /\ trk' = IF f.nfy THEN [trk EXCEPT !.go = TRUE] ELSE trk
    /\ UNCHANGED <<buf, out, seeks, pauses>>

Next ==
    \/ Run \/ Pause \/ Unpause \/ Close
    \/ Pread \/ Complete
    \/ trk.st = "closed" /\ io.at = "none" /\ UNCHANGED vars

(* A track whose task is queued is run, one that has ended is freed; a task that
   was added to the pool is run. *)
Fairness ==
    /\ WF_vars(Run) /\ WF_vars(trk.st \in {"err", "done"} /\ Close)
    /\ WF_vars(io.at = "queued" /\ Pread) /\ WF_vars(Complete)

Spec == Init /\ [][Next]_vars /\ Fairness

-----------------------------------------------------------------------------
(* The state is well typed. *)
TypeOK ==
    /\ f \in [st : {"OK", "ASYNC", "CLOSED"}, eof : Nat, task : BOOLEAN, nfy : BOOLEAN, wbuf : Bufs,
              freed : Nat, pos : Nat, done : BOOLEAN]
    /\ buf \in [Bufs -> [off : Nat \cup {None}, len : Nat, from : Nat, to : Nat]]
    /\ io \in [at : {"none", "queued", "lost", "read"}, buf : Bufs, off : Nat, res : Garbage]
    /\ out \in [buf : Bufs, off : Nat, len : Nat]
    /\ trk \in [st : {"active", "paused", "err", "done", "closed"}, go : BOOLEAN]
    /\ seeks \in 0 .. MaxSeeks /\ pauses \in 0 .. MaxPauses

(* As long as the chain works on the data it was given, the buffer's memory is
   the file's at that offset: it is neither what was there before a read that
   failed, nor what another read has put there since, nor beyond the last byte
   read. *)
DataIsRight ==
    out.len > 0 => buf[out.buf].from <= out.off /\ out.off + out.len <= buf[out.buf].to

(* A reader is freed once at most, and then has no read pending: no thread of the
   pool will write into its buffers or look at it again. *)
NothingUsesFreed == f.freed <= 1 /\ (f.freed > 0 => io.at = "none")

(* A track that reads is always answered, until it has the whole file: it does
   not wait for a read that is done, and the end it is told of is the file's. *)
ReadsToTheEnd ==
    trk.st = "active" ~> \/ trk.st \in {"paused", "err", "closed"}
                         \/ trk.st = "done" /\ f.pos >= Size

(* "FI_CLOSED: aio() destroys the object" (fffileread.c:257): a reader that was
   closed is freed, by the one or the other, unless its read could not be added
   to the pool. *)
ClosedIsFreed ==
    trk.st = "closed" ~> f.freed = 1 \/ (f.st = "CLOSED" /\ ~f.task)

(* The track is never left waiting, nor the reader left over. *)
ReaderGoesOn == ReadsToTheEnd /\ ClosedIsFreed

(* FF_ASSERT(f->state == FI_OK) (fffileread.c:367): the track takes the result
   of a read when the pool is done with it. *)
TakenWhenDone == [][f.task /\ ~f'.task => f.st = "OK"]_vars
=============================================================================
