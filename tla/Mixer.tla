-------------------------------- MODULE Mixer --------------------------------
(***************************************************************************)
(* Mixing tracks: src/afilter/mixer.c, with que_mix() of                   *)
(* src/core/queue-track.h.                                                 *)
(*                                                                         *)
(* One track ends in the filter mixer-in for each item of the queue; one   *)
(* more begins with mixer-out and plays their sum.  They share one block   *)
(* of DATA_SIZE bytes.  An input adds its data to the block from its own   *)
(* offset on and waits when the block is full; mixer-out waits until every *)
(* input has filled it, passes it on, clears it and wakes the inputs.  All *)
(* of them are tasks of the main thread, so what interleaves is whole      *)
(* tasks, in the order of the main thread's queue.                         *)
(***************************************************************************)
EXTENDS Naturals, Sequences, FiniteSets, SequencesExt, FiniteSetsExt, TaskList

CONSTANTS
    Items,       \* the items of the queue, each played by a track: a sequence
    Out,         \* the track that plays the mix
    Size,        \* DATA_SIZE, in units of data
    MaxLength,   \* bound: units of data that an input has
    EarlyErrors  \* whether a track may fail before it reaches mixer-in

Inputs == Range(Items)

ASSUME MixerAssumption ==
    /\ Items \in Seq(Inputs) /\ IsInjective(Items) /\ Out \notin Inputs
    /\ "none" \notin Inputs \cup {Out}
    /\ Size \in Nat \ {0} /\ MaxLength \in Nat /\ EarlyErrors \in BOOLEAN

VARIABLES
    q,       \* tasks of the main thread: <<"tsk", t>> or <<"free", t>>
    run,     \* [t, len]: the track whose trk_process() runs, and the queue's length when it began
    op,      \* op[t]: an operation outside goes on that will wake the track
    mi,      \* mi[t]: the input's mix_in, and the data that its track has for it
    mx,      \* the mixr of mixer-out
    outpos   \* history: the units of data that mixer-out has passed on and cleared

vars == <<q, run, op, mi, mx, outpos>>

Tracks == Inputs \cup {Out}
NoTrack == [t |-> "none", len |-> 0]

TypeOK ==
    /\ q \in Seq({"tsk", "free"} \X Tracks) /\ IsInjective(q)
    /\ run = NoTrack \/ run \in [t : Tracks, len : Nat]
    /\ op \in [Tracks -> BOOLEAN]
    /\ mi \in [Inputs -> [at : {"new", "open", "failed", "end"}, left : 0 .. MaxLength,
                          have : 0 .. MaxLength, last : BOOLEAN, off : 0 .. Size,
                          more : BOOLEAN, filled : BOOLEAN, done : Nat]]
    /\ mx \in [at : {"new", "mix", "play", "done", "failed", "end"}, trk_count : Nat, filled : Nat,
               len : 0 .. Size, first : BOOLEAN, clear : BOOLEAN, err : BOOLEAN]
    /\ outpos \in Nat

(* que_mix(): the mixer's track is started, then one for each item.  mi[t].left
   is the data that the item's file has. *)
Init ==
    /\ q = <<<<"tsk", Out>>>> \o [i \in DOMAIN Items |-> <<"tsk", Items[i]>>]
    /\ run = NoTrack
    /\ op = [t \in Tracks |-> FALSE]
    /\ \E length \in [Inputs -> 0 .. MaxLength] :
           mi = [t \in Inputs |-> [at |-> "new", left |-> length[t], have |-> 0, last |-> FALSE,
                                   off |-> 0, more |-> FALSE, filled |-> FALSE, done |-> 0]]
    /\ mx = [at |-> "new", trk_count |-> Len(Items), filled |-> 0, len |-> 0,
             first |-> TRUE, clear |-> FALSE, err |-> FALSE]
    /\ outpos = 0

-----------------------------------------------------------------------------
(* FMED_TRACK_WAKE *)
Woken(queue, t) == Posted(queue, <<"tsk", t>>)

(* The tracks ts are woken one after the other. *)
AllWoken(queue, ts) == AllPosted(queue, {<<"tsk", t>> : t \in ts})

(* m->inputs *)
Opened == {t \in Inputs : mi[t].at \in {"open", "failed"}}
MixerExists == mx.at \notin {"new", "end"}

(* A task is taken from the queue: trk_process(). *)
Run ==
    /\ run = NoTrack /\ q # <<>> /\ Head(q)[1] = "tsk"
    /\ q' = Tail(q)
    /\ run' = [t |-> Head(q)[2], len |-> Len(q')]
    /\ UNCHANGED <<op, mi, mx, outpos>>

(* core_job_shouldyield() *)
Yield ==
    /\ run # NoTrack /\ Len(q) # run.len
    /\ q' = Woken(q, run.t)
    /\ run' = NoTrack
    /\ UNCHANGED <<op, mi, mx, outpos>>

Running(t) == run.t = t /\ Len(q) = run.len

(* An operation outside is complete: FMED_TRACK_WAKE. *)
Complete(t) ==
    /\ op[t]
    /\ op' = [op EXCEPT ![t] = FALSE]
    /\ q' = Woken(q, t)
    /\ UNCHANGED <<run, mi, mx, outpos>>

Async(t) == op' = [op EXCEPT ![t] = TRUE] /\ run' = NoTrack

-----------------------------------------------------------------------------
(* An input's track gets data for mixer-in: from the filters before it, which
   may have to wait, may end with or without data, or fail. *)
Get(t) ==
    /\ Running(t) /\ mi[t].at \in {"new", "open"} /\ mi[t].have = 0 /\ ~mi[t].last
    /\ \/ Async(t) /\ UNCHANGED <<q, mi>>
       \/ \E n \in 0 .. mi[t].left, last \in BOOLEAN :
              /\ last => n = mi[t].left
              /\ n = 0 => last
              /\ mi' = [mi EXCEPT ![t].have = n, ![t].left = @ - n, ![t].last = last]
              /\ UNCHANGED <<q, run, op>>
       \/ /\ mi[t].at = "new" => EarlyErrors
          /\ mi' = [mi EXCEPT ![t].at = IF @ = "new" THEN "end" ELSE "failed"]
          /\ q' = Posted(q, <<"free", t>>)
          /\ run' = NoTrack
          /\ UNCHANGED op
    /\ UNCHANGED <<mx, outpos>>

(* mix_in_open() fails if there is no mixer any more, or if it has failed. *)
Open(t) ==
    /\ Running(t) /\ mi[t].at = "new" /\ (mi[t].have > 0 \/ mi[t].last)
    /\ IF MixerExists /\ ~mx.err
       THEN mi' = [mi EXCEPT ![t].at = "open"] /\ UNCHANGED <<q, run>>
       ELSE /\ mi' = [mi EXCEPT ![t].at = "end"]
            /\ q' = Posted(q, <<"free", t>>)
            /\ run' = NoTrack
    /\ UNCHANGED <<op, mx, outpos>>

(* mix_seterr() *)
Failed(m) == [m EXCEPT !.err = TRUE]

(* mix_in_write(): the mixer has failed or is gone; or the input's format is not
   the mixer's. *)
Reject(t) ==
    /\ Running(t) /\ mi[t].at = "open" /\ (mi[t].have > 0 \/ mi[t].last)
    /\ \/ /\ ~MixerExists \/ mx.err
          /\ UNCHANGED mx
          /\ q' = Posted(q, <<"free", t>>)
       \/ /\ MixerExists /\ ~mx.err /\ mi[t].done = 0
          /\ mx' = Failed(mx)
          /\ q' = Posted(Woken(q, Out), <<"free", t>>)
    /\ mi' = [mi EXCEPT ![t].at = "failed"]
    /\ run' = NoTrack
    /\ UNCHANGED <<op, outpos>>

(* The input's data that fits into the block. *)
Fitting(i) == Min({Size - i.off, i.have})

(* mix_write(): filled goes up when the block is full, or the input's data at
   its end. *)
Written(m, off, full) ==
    [m EXCEPT !.len = Max({@, off}), !.filled = IF full THEN @ + 1 ELSE @]

ClosedKeepsCount(m, i) == [m EXCEPT !.filled = IF i.filled THEN @ - 1 ELSE @]
(* mix_input_closed() of an input i *)
Closed(m, i) == [m EXCEPT !.trk_count = @ - 1, !.filled = IF i.filled THEN @ - 1 ELSE @]

ReadyButOne(m) == m.filled + 1 >= m.trk_count

(* All inputs have filled the block. *)
Ready(m) == m.filled = m.trk_count

(* mix_in_write(): the input's data is added to the block.  The last filter of a
   chain is closed as soon as it ends. *)
Mix(t) ==
    /\ Running(t) /\ mi[t].at = "open" /\ (mi[t].have > 0 \/ mi[t].last)
    /\ MixerExists /\ ~mx.err
    /\ LET i == mi[t]
           n == Fitting(i)
           off == i.off + n
           full == off = Size \/ i.last
           written == Written(mx, off, full)
           wake == full /\ Ready(written)
           ends == i.last /\ off < Size
           wrote == [i EXCEPT !.off = off, !.have = @ - n, !.filled = @ \/ full,
                              !.done = @ + n]
           closed == Closed(written, wrote)
       IN IF ends
          THEN /\ mi' = [mi EXCEPT ![t] = [wrote EXCEPT !.at = "end", !.have = 0]]
               /\ mx' = closed
               /\ q' = Posted(IF wake \/ Ready(closed) THEN Woken(q, Out) ELSE q, <<"free", t>>)
               /\ run' = NoTrack
          ELSE /\ mx' = written
               /\ q' = IF wake THEN Woken(q, Out) ELSE q
               /\ IF off = Size
                  THEN /\ mi' = [mi EXCEPT ![t] = [wrote EXCEPT !.more = TRUE]]
                       /\ run' = NoTrack
                  ELSE mi' = [mi EXCEPT ![t] = wrote] /\ UNCHANGED run
    /\ UNCHANGED <<op, outpos>>

(* trk_free(): mix_in_close() of an input that has failed. *)
FreeInput(t) ==
    /\ run = NoTrack /\ q # <<>> /\ Head(q) = <<"free", t>>
    /\ op' = [op EXCEPT ![t] = FALSE]
    /\ mi' = [mi EXCEPT ![t].at = "end"]
    /\ LET rest == Deleted(Tail(q), <<"tsk", t>>)
       IN IF mi[t].at = "failed" /\ MixerExists
          THEN /\ mx' = Closed(mx, mi[t])
               /\ q' = IF Ready(mx') THEN Woken(rest, Out) ELSE rest
          ELSE q' = rest /\ UNCHANGED mx
    /\ UNCHANGED <<run, outpos>>

-----------------------------------------------------------------------------
(* mix_open() *)
OpenOut ==
    /\ Running(Out) /\ mx.at = "new"
    /\ mx' = [mx EXCEPT !.at = "mix"]
    /\ UNCHANGED <<q, run, op, mi, outpos>>

(* mix_read() with nothing to pass on: the inputs that have more are woken. *)
Notify(inputs) ==
    /\ q' = AllWoken(q, {t \in Opened : inputs[t].more})
    /\ mi' = [t \in Inputs |-> IF t \in Opened THEN [inputs[t] EXCEPT !.more = FALSE] ELSE inputs[t]]
    /\ run' = NoTrack

(* mix_read(): the first call only opens the track's other filters. *)
ReadFirst ==
    /\ Running(Out) /\ mx.at = "mix" /\ ~mx.err /\ mx.first
    /\ mx' = [mx EXCEPT !.first = FALSE]
    /\ run' = NoTrack
    /\ UNCHANGED <<q, op, mi, outpos>>

(* mix_read(): every input has filled the block. *)
ReadBlock ==
    /\ Running(Out) /\ mx.at = "mix" /\ ~mx.err /\ ~mx.first /\ ~mx.clear
    /\ mx.len # 0 /\ Ready(mx)
    /\ mx' = [mx EXCEPT !.clear = TRUE, !.at = "play"]
    /\ UNCHANGED <<q, run, op, mi, outpos>>

NotRestarted(i) == [i EXCEPT !.filled = FALSE]

(* An input goes on at the beginning of the block. *)
Restarted(i) == [i EXCEPT !.off = 0, !.filled = FALSE]

(* mix_read() clears the block that it has passed on. *)
ReadCleared ==
    /\ Running(Out) /\ mx.at = "mix" /\ ~mx.err /\ ~mx.first /\ mx.clear
    /\ LET cleared == [mx EXCEPT !.clear = FALSE, !.len = 0, !.filled = 0]
           inputs == [t \in Inputs |-> IF t \in Opened THEN Restarted(mi[t]) ELSE mi[t]]
       IN IF mx.trk_count = 0
          THEN mx' = [cleared EXCEPT !.at = "done"] /\ mi' = inputs /\ UNCHANGED <<q, run>>
          ELSE mx' = cleared /\ Notify(inputs)
    /\ outpos' = outpos + mx.len
    /\ UNCHANGED op

(* mix_read(), called before the block is ready. *)
ReadEarly ==
    /\ Running(Out) /\ mx.at = "mix" /\ ~mx.err /\ ~mx.first /\ ~mx.clear
    /\ mx.len = 0 \/ ~Ready(mx)
    /\ IF mx.trk_count = 0
       THEN mx' = [mx EXCEPT !.at = "done"] /\ UNCHANGED <<q, mi, run>>
       ELSE Notify(mi) /\ UNCHANGED mx
    /\ UNCHANGED <<op, outpos>>

(* mix_read() after mix_seterr(). *)
ReadError ==
    /\ Running(Out) /\ mx.at = "mix" /\ mx.err
    /\ mx' = [mx EXCEPT !.at = "failed"]
    /\ q' = Posted(q, <<"free", Out>>)
    /\ run' = NoTrack
    /\ UNCHANGED <<op, mi, outpos>>

(* The filters behind mixer-out play the block: they wait for the device, ask
   for the next block, or fail. *)
PlayWaits ==
    /\ Running(Out) /\ mx.at \in {"play", "done"}
    /\ Async(Out)
    /\ UNCHANGED <<q, mi, mx, outpos>>
PlayNext ==
    /\ Running(Out) /\ mx.at = "play"
    /\ mx' = [mx EXCEPT !.at = "mix"]
    /\ UNCHANGED <<q, run, op, mi, outpos>>
PlayStops ==
    /\ Running(Out) /\ mx.at \in {"play", "done"}
    /\ mx' = [mx EXCEPT !.at = IF @ = "done" THEN "end" ELSE "failed"]
    /\ q' = Posted(q, <<"free", Out>>)
    /\ run' = NoTrack
    /\ UNCHANGED <<op, mi, outpos>>

(* trk_free() of mixer-out's track, with mix_close(): the inputs that wait for
   the block are woken, to find that there is no mixer. *)
FreeOut ==
    /\ run = NoTrack /\ q # <<>> /\ Head(q) = <<"free", Out>>
    /\ op' = [op EXCEPT ![Out] = FALSE]
    /\ mx' = [mx EXCEPT !.at = "end"]
    /\ LET rest == Deleted(Tail(q), <<"tsk", Out>>)
           waiting == {t \in Opened : mi[t].more}
       IN /\ q' = AllWoken(rest, waiting)
          /\ mi' = [t \in Inputs |-> [mi[t] EXCEPT !.more = @ /\ t \notin waiting]]
    /\ UNCHANGED <<run, outpos>>

Step ==
    \/ Run \/ Yield
    \/ \E t \in Inputs : Get(t) \/ Open(t) \/ Reject(t) \/ Mix(t) \/ FreeInput(t)
    \/ OpenOut \/ ReadFirst \/ ReadBlock \/ ReadCleared \/ ReadEarly \/ ReadError
    \/ PlayWaits \/ PlayNext \/ PlayStops \/ FreeOut

(* All tracks have been freed. *)
Ended == mx.at = "end" /\ (\A t \in Inputs : mi[t].at = "end") /\ q = <<>> /\ run = NoTrack
Terminated == Ended /\ UNCHANGED vars

Next == Step \/ (\E t \in Tracks : Complete(t)) \/ Terminated

(* The main thread runs its tasks, operations outside complete, and neither the
   filters before mixer-in nor the device wait for ever. *)
Spec ==
    /\ Init /\ [][Next]_vars /\ WF_vars(Step)
    /\ \A t \in Tracks : WF_vars(Complete(t))
    /\ \A t \in Inputs : SF_vars(Get(t) /\ mi'[t] # mi[t])
    /\ SF_vars(PlayNext) /\ SF_vars(PlayStops /\ mx.at = "done")

-----------------------------------------------------------------------------
(* The mixer's counters are about its inputs: trk_count is the number of inputs
   that are to come or open, filled the number of those whose part of the block
   is complete. *)
CountersAgree ==
    (MixerExists /\ ~mx.err /\ ~EarlyErrors) =>
        /\ mx.trk_count = Cardinality({t \in Inputs : mi[t].at # "end"})
        /\ mx.filled = Cardinality({t \in Opened : mi[t].filled})

(* The inputs are mixed in step: what an input has given is what mixer-out has
   passed on and the input's part of the block; and nothing is left when
   mixer-out has passed on all it will. *)
MixedInStep ==
    /\ \A t \in Opened : MixerExists => mi[t].done = outpos + mi[t].off
    /\ mx.at = "done" => outpos = Max({mi[t].done : t \in Inputs} \cup {0})

(* A block is passed on only when it holds the data of every input that is not at
   its end, up to the block's size. *)
BlockIsComplete ==
    mx.at = "play" => \A t \in Inputs : mi[t].at = "open" => mi[t].off = Size

(* Mixing comes to its end: all tracks are freed. *)
MixEnds == <>[]Ended
=============================================================================
