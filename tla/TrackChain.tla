----------------------------- MODULE TrackChain -----------------------------
(***************************************************************************)
(* The filter chain of a track and the processor that walks it:            *)
(* trk_process(), filt_call(), fflist_curshift(), filt_close(), filt_add()  *)
(* and filt_add_iface() of src/core/track.c, with the filters that the      *)
(* track's options put into the chain (TrackOpen).                          *)
(*                                                                         *)
(* A filter is called with its input, answers with a return code and some  *)
(* output, and the processor moves the cursor: on to the next filter with  *)
(* the output, or back to the previous one for more input.  Filters that   *)
(* have ended are closed and unlinked on the way back; a splitting filter  *)
(* cuts the chain in two and gets the first half back when the second one  *)
(* has ended (FMED_RNEXTDONE).  Audio data is counted in units.            *)
(***************************************************************************)
EXTENDS TrackOpen, FiniteSets, SequencesExt

CONSTANTS
    Slots,        \* N_FILTERS: capacity of the array t->filters
    Options,      \* the options of the tracks, see TrackOpen
    MaxSplits     \* bound: times that a splitting filter answers NEXTDONE

ASSUME ChainAssumption ==
    /\ Slots \in Nat \ {0} /\ MaxSplits \in Nat
    /\ \A c \in Options : {c.units, c.waits} \subseteq Nat /\ Len(OpenChain(c)) \in 1 .. Slots

VARIABLES
    conf,     \* the track's options; they stay
    chain,    \* t->filt_chain: slots of the linked filters, in order
    parent,   \* t->chain_parent: the part cut off by FMED_RNEXTDONE, or <<>>
    cur,      \* t->cur, the slot the cursor is at
    flt,      \* t->filters: flt[s] is the fmed_f in slot s
    used,     \* t->filters.len; the slots behind it keep what they had
    out,      \* t->props.outlen
    state,    \* t->state
    stop,     \* FMED_FSTOP: the user has stopped the track
    pc,       \* where trk_process() is
    cmd,      \* the command for fflist_curshift(), a set of flags
    ret,      \* the return code of the last filter called
    called,   \* the filter that trk_process() holds in its variable "f"
    left,     \* units still in the source
    sunk,     \* units consumed by sinks
    dropped,  \* history: units that filters have given up
    splits,   \* times that a splitting filter has answered NEXTDONE
    asyncs    \* times that the track has waited with nothing done

links == <<chain, parent, cur>>
units == <<left, sunk, dropped>>
walk == <<state, cmd, ret, called, out>>
bounds == <<splits, asyncs>>
vars == <<conf, links, flt, used, walk, stop, pc, units, bounds>>

Slot == 1 .. Slots
NewFilter(kind) ==
    [kind |-> kind, ctx |-> FALSE, closed |-> FALSE, done |-> FALSE,
     want |-> FALSE, newdata |-> FALSE, in |-> 0, held |-> 0, step |-> 0, last |-> FALSE]

Flags == {"next", "prev", "rm", "rmprev", "bounce", "sameifbounce"}
Codes == {"none", "ERR", "ASYNC", "MORE", "OK", "DATA", "DONE", "LASTOUT", "NEXTDONE",
          "BACK", "FIN", "DONE_ERR"}

TypeOK ==
    /\ conf \in Options
    /\ \A q \in {chain, parent} : q \in Seq(Slot) /\ Len(q) <= Slots
    /\ cur \in Slot /\ called \in Slot
    /\ used \in 0 .. Len(flt) /\ Len(flt) \in Slot
    /\ \A s \in DOMAIN flt :
        /\ flt[s].in \in Nat /\ flt[s].held \in Nat /\ flt[s].step \in 0 .. 5
        /\ {flt[s].ctx, flt[s].closed, flt[s].done, flt[s].want,
            flt[s].newdata, flt[s].last} \subseteq BOOLEAN
    /\ {out, left, sunk, dropped} \subseteq 0 .. conf.units
    /\ state \in {"ACTIVE", "ERR"} /\ stop \in BOOLEAN
    /\ pc \in {"call", "shift", "async", "fin", "freed"}
    /\ cmd \subseteq Flags /\ ret \in Codes
    /\ splits \in 0 .. MaxSplits /\ asyncs \in 0 .. conf.waits

(* trk_create(), trk_addfilters(), trk_opened(); a worker is to run the track. *)
Init ==
    /\ conf \in Options
    /\ LET kinds == OpenChain(conf)
       IN /\ chain = [i \in DOMAIN kinds |-> i]
          /\ flt = [i \in DOMAIN kinds |-> NewFilter(kinds[i])]
          /\ used = Len(kinds)
    /\ parent = <<>> /\ cur = 1 /\ called = 1 /\ out = 0
    /\ state = "ACTIVE" /\ stop = FALSE /\ pc = "async" /\ cmd = {} /\ ret = "none"
    /\ left = conf.units /\ sunk = 0 /\ dropped = 0 /\ splits = 0 /\ asyncs = 0

-----------------------------------------------------------------------------
At(ch, s) == CHOOSE i \in DOMAIN ch : ch[i] = s
IsLast(ch, s) == At(ch, s) = Len(ch)

IsFirstNear(ch, s) == At(ch, s) = 1 \/ flt[ch[At(ch, s) - 1]].done

(* filt_isfirst(): no filter before this one has anything left to give. *)
IsFirst(ch, s) == \A i \in 1 .. At(ch, s) - 1 : flt[ch[i]].done

PoppedMany(f, n) == Cardinality({s \in 1 .. n : ~f[s].closed})
PoppedNever(f, n) == n

(* FFSLICE_RWALK in filt_close(): the filters array loses its closed tail. *)
Popped(f, n) ==
    LET live == {s \in 1 .. n : ~f[s].closed}
    IN IF live = {} THEN 0 ELSE CHOOSE s \in live : \A x \in live : x <= s

(* filt_close(): the filter's context is closed once. *)
Closed(f, s) == IF f[s].ctx THEN [f EXCEPT ![s].ctx = FALSE, ![s].closed = TRUE] ELSE f

NotUnlinked(ch, i) == ch
Unlinked(ch, i) == SubSeq(ch, 1, i - 1) \o SubSeq(ch, i + 1, Len(ch))

(* fflist_curshift(): where the cursor moves, what it reports and what is
   left of the chain. *)
CurShift(c, q) ==
    LET ch == IF "rmprev" \in q THEN SubSeq(chain, At(chain, c), Len(chain)) ELSE chain
        i == At(ch, c)
        hasNext == i < Len(ch)
        hasPrev == i > 1
        bounce == "bounce" \in q
        r == IF "next" \in q
             THEN IF hasNext THEN "NEXT"
                  ELSE IF bounce /\ "sameifbounce" \in q THEN "SAME"
                  ELSE IF bounce /\ hasPrev THEN "PREV" ELSE "NONEXT"
             ELSE IF hasPrev THEN "PREV"
                  ELSE IF bounce /\ hasNext THEN "NEXT" ELSE "NOPREV"
    IN [r |-> r,
        cur |-> CASE r = "NEXT" -> ch[i + 1] [] r = "PREV" -> ch[i - 1] [] OTHER -> c,
        chain |-> IF "rm" \in q THEN Unlinked(ch, i) ELSE ch]

-----------------------------------------------------------------------------
Sources == {"file.in", "file.stdin", "net.http", "net.in", "hls", "adev.in", "mixer.out", "m3u.out"}
Sinks == {"file.out", "file.stdout", "adev.out", "mixer.in", "peaks"}

(* filt_add(): FMED_TRACK_FILT_ADD puts each filter directly after the current
   one, so that the last one added comes first. *)
WithAdded(ch, add, new) ==
    LET i == At(ch, cur)
    IN CASE add.place = "after" -> SubSeq(ch, 1, i) \o Reverse(new) \o SubSeq(ch, i + 1, Len(ch))
         [] add.place = "before" -> SubSeq(ch, 1, i - 1) \o new \o SubSeq(ch, i, Len(ch))
         [] add.place = "last" -> ch \o new

(* How the cursor moves for a return code. *)
ShiftFor(code, rest, last) ==
    CASE code \in {"MORE", "BACK"} -> {"prev"}
      [] code = "OK" -> {"next", "bounce"} \cup (IF rest # 0 THEN {"sameifbounce"} ELSE {})
      [] code = "DATA" -> {"next", "bounce", "sameifbounce"}
      [] code \in {"DONE", "DONE_ERR"} -> IF last THEN {"next", "bounce", "rm"} ELSE {"next"}
      [] code = "LASTOUT" -> {"next", "bounce", "rm", "rmprev"}
      [] OTHER -> {}

Restarts(a) == a.code = "NEXTDONE"
Done(a) == a.code \in {"DONE", "DONE_ERR"}

(* filt_call(): the filter's own fields after its call.  One that skips itself, or
   that could not be opened, has no context. *)
AfterCall(f, a, first, last) ==
    [f EXCEPT !.ctx = a.opened = "yes", !.closed = a.opened = "skip", !.newdata = FALSE,
              !.step = a.step,
              !.in = IF a.code = "LASTOUT" THEN 0 ELSE a.in,
              !.held = a.held,
              !.want = @ \/ a.code = "OK",
              !.done = Done(a) /\ ~last,
              !.last = @ \/ (first /\ ~(a.add.place = "before" /\ a.add.kinds # <<>>))]

(* Pass the output to the next filter. *)
Give(f, s, n) == [f EXCEPT ![s].in = n, ![s].newdata = TRUE]

Amount(f, set) == MapThenSumSet(LAMBDA s : IF f[s].done THEN 0 ELSE f[s].in + f[s].held, set)

(* What filter f gives up with answer a: what it says, what it still has when it
   ends, and when it is the last to give anything, what the filters before have. *)
GivenUp(f, a, before) ==
    a.lost + (IF Done(a) \/ a.code = "LASTOUT" THEN a.in + a.held ELSE 0)
           + (IF a.code = "LASTOUT" THEN Amount(flt, before) ELSE 0)

(* ffvec_isfull() in filt_add_iface(): no slot for n more filters. *)
Full(n) == used + n > Slots

(* The filter has nothing to wait for but the time, or a device without data. *)
Idle(f, a) ==
    a.code = "ASYNC" /\ a.in = f.in /\ a.step = f.step /\ ~(f.kind = "adev.in" /\ left = 0)

Track(first) == [first |-> first, stop |-> stop, left |-> left, c |-> conf]

(* A filter that cannot add filters answers with an error; NEXTDONE needs a next
   filter and no other NEXTDONE before it. *)
Fault(f, a, n, last) == Full(n) \/ (Restarts(a) /\ (parent # <<>> \/ last))
FailedCall ==
    /\ pc' = "fin" /\ state' = "ERR"
    /\ UNCHANGED <<links, flt, used, out, cmd, units, bounds>>

(* What a call changes (\E x \in {e} names a value and has it computed once).
   FMED_RNEXTDONE: the chain is cut after the filter, and the second part goes on
   alone, with the output. *)
Answered(f, a, first) ==
    LET n == Len(a.add.kinds)
        new == [k \in 1 .. n |-> used + k]
    IN \E ch \in {WithAdded(chain, a.add, new)} :
    LET p == At(ch, cur)
        last == IsLast(ch, cur)
        g == [s \in DOMAIN flt \cup ToSet(new) |->
                 IF s = cur THEN AfterCall(f, a, first, last)
                 ELSE IF s > used /\ s <= used + n THEN NewFilter(a.add.kinds[s - used])
                 ELSE flt[s]]
    IN \E h \in {IF Done(a) /\ last THEN Closed(g, cur) ELSE g} :
       IF Fault(f, a, n, last) THEN FailedCall
       ELSE /\ left' = IF f.kind \in Sources THEN left - a.out ELSE left
            /\ sunk' = IF f.kind \in Sinks THEN sunk + Has(f) - Has(a) - a.lost ELSE sunk
            /\ dropped' = dropped + GivenUp(f, a, {ch[i] : i \in 1 .. p - 1})
            /\ used' = IF Done(a) /\ last THEN Popped(h, used + n) ELSE used + n
            /\ splits' = IF Restarts(a) THEN splits + 1 ELSE splits
            /\ asyncs' = IF Idle(f, a) THEN asyncs + 1 ELSE asyncs
            /\ state' = IF a.code = "ERR" \/ a.opened = "null" THEN "ERR" ELSE state
            /\ cmd' = ShiftFor(a.code, a.in, last)
            /\ pc' = CASE a.code \in {"ERR", "FIN"} -> "fin" [] a.code = "ASYNC" -> "async"
                       [] Restarts(a) -> "call" [] OTHER -> "shift"
            /\ IF Restarts(a)
               THEN /\ parent' = SubSeq(ch, 1, p)
                    /\ chain' = SubSeq(ch, p + 1, Len(ch))
                    /\ cur' = ch[p + 1]
                    /\ flt' = Give(h, ch[p + 1], a.out)
                    /\ out' = 0
               ELSE /\ chain' = ch /\ flt' = h /\ out' = a.out
                    /\ UNCHANGED <<parent, cur>>

ClosesPlayback == stop /\ conf.type = "PLAYBACK"

(* One call of the current filter. *)
Call ==
    /\ pc = "call" /\ ~ClosesPlayback
    /\ \E f \in {flt[cur]} : \E first \in {IsFirst(chain, cur)} :
       \E a \in FilterAnswers(f, Track(first)) :
            /\ Idle(f, a) => asyncs < conf.waits
            /\ Restarts(a) => splits < MaxSplits
            /\ called' = cur /\ ret' = a.code
            /\ Answered(f, a, first)
    /\ UNCHANGED <<conf, stop>>

(* The last filter has gone: return to the chain that was cut off, or finish. *)
ChainEnds(c) ==
    IF parent # <<>>
    THEN /\ chain' = parent /\ parent' = <<>> /\ cur' = Last(parent) /\ pc' = "call"
    ELSE /\ chain' = c.chain /\ pc' = "fin" /\ UNCHANGED <<parent, cur>>

(* "requires more input data", "the last in chain, outputs more data" *)
Refuse(c) ==
    /\ chain' = c.chain /\ pc' = "fin" /\ state' = "ERR"
    /\ UNCHANGED <<parent, cur, flt, used, out, cmd, called>>

(* A filter that answered OK and has nothing to work on is not asked again. *)
Bypassed(f, ch, s) == f[s].want /\ f[s].in = 0 /\ ~IsFirst(ch, s)

(* Back at filter s: it is closed if it has ended; it is passed by if it has
   nothing to work on; or it is called again. *)
GoBack(c, s) ==
    /\ chain' = c.chain /\ cur' = s /\ out' = 0
    /\ IF flt[s].done
       THEN /\ flt' = Closed(flt, s)
            /\ used' = Popped(flt', used)
            /\ cmd' = {IF IsFirst(c.chain, s) THEN "next" ELSE "prev", "rm", "bounce"}
            /\ pc' = "shift" /\ UNCHANGED called
       ELSE LET f == IF ret = "BACK" THEN Give(flt, s, out) ELSE flt
            IN /\ flt' = [f EXCEPT ![s].want = FALSE]
               /\ IF Bypassed(f, c.chain, s)
                  THEN pc' = "shift" /\ cmd' = {"prev"} /\ called' = s
                  ELSE pc' = "call" /\ UNCHANGED <<cmd, called>>
               /\ UNCHANGED used
    /\ UNCHANGED <<parent, state>>

Shift ==
    /\ pc = "shift"
    /\ LET c == CurShift(cur, cmd)
           stuck == c.r = "NOPREV" \/ (c.r = "SAME" /\ ret \in {"DATA", "OK"} /\ IsLast(chain, called))
       IN \/ /\ stuck /\ Refuse(c)
          \/ /\ c.r = "NONEXT" /\ ChainEnds(c)
             /\ UNCHANGED <<flt, used, out, state, cmd, called>>
          \/ /\ c.r = "NEXT"
             /\ chain' = c.chain /\ cur' = c.cur /\ pc' = "call"
             /\ flt' = Give(flt, c.cur, out) /\ out' = 0
             /\ UNCHANGED <<parent, used, state, cmd, called>>
          \/ ~stuck /\ c.r \in {"PREV", "SAME"} /\ GoBack(c, c.cur)
    /\ UNCHANGED <<conf, stop, ret, units, bounds>>

(* core_job_shouldyield(), or the track is paused: trk_process() returns before
   it calls the next filter. *)
Yield ==
    /\ pc = "call" /\ asyncs < conf.waits
    /\ pc' = "async" /\ asyncs' = asyncs + 1
    /\ UNCHANGED <<conf, links, flt, used, walk, stop, units, splits>>

(* The user stops the track, at any time: FMED_FSTOP is set.  It is seen at the
   next call, and Yield lets it come before any call. *)
Stop ==
    /\ pc = "async" /\ ~stop /\ stop' = TRUE
    /\ UNCHANGED <<conf, links, flt, used, walk, pc, units, bounds>>

(* The task wakes the track: FMED_TRACK_WAKE. *)
Wake ==
    /\ pc = "async" /\ pc' = "call"
    /\ UNCHANGED <<conf, links, flt, used, walk, stop, units, bounds>>

(* FMED_FSTOP is set and the track is a playback. *)
ClosePlayback ==
    /\ pc = "call" /\ ClosesPlayback /\ pc' = "fin"
    /\ UNCHANGED <<conf, links, flt, used, walk, stop, units, bounds>>

(* trk_free(): what is still open is closed, from the last slot to the first. *)
Free ==
    /\ pc = "fin" /\ pc' = "freed"
    /\ flt' = [s \in DOMAIN flt |-> IF s <= used THEN [flt[s] EXCEPT !.ctx = FALSE] ELSE flt[s]]
    /\ UNCHANGED <<conf, links, used, walk, stop, units, bounds>>

Terminated == pc = "freed" /\ UNCHANGED vars

Goes == Call \/ Shift \/ ClosePlayback \/ Wake \/ Free
Next == Goes \/ Yield \/ Stop \/ Terminated

(* trk_process() runs on once it has begun, a waiting filter calls its handler
   back, and the worker runs the track's task, and the main thread trk_free(): one
   of them is always next, and none of them can be put off for ever.  Nobody has to
   stop a track. *)
Spec == Init /\ [][Next]_vars /\ WF_vars(Goes)

-----------------------------------------------------------------------------
LinkedSlots == ToSet(chain) \cup ToSet(parent)

(* No data is lost or handed on twice between the filters, wherever the cursor
   goes: each unit that the source gave is in a filter, on its way, consumed by
   a sink, or given up by a filter that ended the stream early. *)
DataIsConserved ==
    pc # "shift" => left + Amount(flt, LinkedSlots) + out + sunk + dropped = conf.units

(* A filter that was told that its input has ended (FMED_FLAST) has nothing
   before it that may still give data, neither then nor later, when filters
   before it are closed and others are added. *)
LastIsLast ==
    pc = "call" => \A i \in DOMAIN chain :
        LET before == {chain[k] : k \in 1 .. i - 1}
        IN flt[chain[i]].last /\ flt[chain[i]].ctx =>
              /\ Amount(flt, before) = 0
              /\ \A s \in before : flt[s].kind \in Sources => flt[s].done

(* Between the filters nothing is lost, and nothing comes after the end. *)
DataIsWhole == DataIsConserved /\ LastIsLast

(* A filter that has ended, or that has skipped itself, is not called again. *)
EndedIsNotCalled == pc = "call" => ~flt[cur].done /\ ~flt[cur].closed

(* The array of filters is never cut below a filter that is still linked, where
   the next filter added would overwrite it, nor below an open one, which
   trk_free() would not close. *)
SlotsAreKept ==
    /\ pc = "call" => \A s \in LinkedSlots : s <= used
    /\ \A s \in DOMAIN flt : flt[s].ctx => s <= used

(* A track comes to its end and is freed with every filter closed, whatever its
   filters answer; a recording when the user has stopped it. *)
TrackEnds ==
    (conf.type = "REC" => stop) ~> (pc = "freed" /\ \A s \in DOMAIN flt : ~flt[s].ctx)

=============================================================================
