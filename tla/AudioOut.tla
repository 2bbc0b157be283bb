------------------------------ MODULE AudioOut ------------------------------
(***************************************************************************)
(* Playback: the last filter of a chain, one for each audio system         *)
(* (src/adev), and the code that they share (src/adev/audio.h).            *)
(*                                                                         *)
(* PulseAudio, ALSA, OSS and WASAPI: there is one audio buffer, kept open  *)
(* from one track to the next.  A track that starts takes it over, as it   *)
(* is if the format is the same, from the track that uses it, which finds  *)
(* out when it is called next.  One timer serves two purposes: it wakes    *)
(* the track that waits for room in the buffer, and (not for OSS) it       *)
(* closes a buffer that nobody has used for some time.  DirectSound and    *)
(* CoreAudio: each track has a buffer and a timer of its own.              *)
(* All of it runs on the main thread: a handler is one step.               *)
(***************************************************************************)
EXTENDS Naturals, Sequences, FiniteSets

CONSTANTS
    Systems,     \* audio systems that fmedia may run on
    Tracks,      \* playback tracks
    NoTrack,
    Fmt,         \* Fmt[t]: the format that track t asks for
    Native,      \* the only format the device plays
    Blocks,      \* how many blocks of audio data a track has
    Cap,         \* how many the audio buffer takes
    MaxSeeks, MaxPauses,  \* bounds: commands of the user, for each system
    SeekAnyTime, \* TRUE: also when the track has no audio buffer of its own
    DeviceFails  \* whether calls of the audio system may fail

OneBuffer == {"pulse", "alsa", "oss", "wasapi"}
BufferEach == {"dsound", "coreaudio"}

ASSUME OutAssumption ==
    /\ Systems \subseteq OneBuffer \cup BufferEach
    /\ IsFiniteSet(Tracks) /\ NoTrack \notin Tracks /\ {Blocks, Cap} \subseteq Nat \ {0}
    /\ {MaxSeeks, MaxPauses} \subseteq [Systems -> Nat] /\ {SeekAnyTime, DeviceFails} \subseteq BOOLEAN

VARIABLES
    sys,     \* the audio system
    mod,     \* mod[b]: the buffer b, with its user and timer
    a,       \* a[t]: the filter's audio_out
    trk,     \* trk[t]: the track
    cur,     \* the track that the user sees (tui.c, gt->curtrk)
    seeks, pauses

vars == <<sys, mod, a, trk, cur, seeks, pauses>>

(* out: 0 or the number of the buffer that is open; fmt: its format; heard:
   whose blocks it holds; on: it plays; tmr: what the timer is set to, for "wake" the track in who; bad: formats that the device
   is known to refuse (mod->fmts). *)
NoMod == [out |-> 0, fmt |-> Native, heard |-> <<>>, on |-> FALSE,
          usedby |-> NoTrack, tmr |-> "off", who |-> NoTrack, bad |-> {}]

(* The buffer a track plays through: that of the module, or its own. *)
Common == NoTrack
Buffers == Tracks \cup {Common}
Buf(t) == IF sys \in OneBuffer THEN Common ELSE t

(* pulse_open(), alsa_open() and the others; offline: err_code tells that the
   device was unplugged. *)
NewOut(t) == [open |-> TRUE, state |-> "TRYOPEN", stream |-> 0, async |-> FALSE, clear |-> FALSE,
              fmt |-> Fmt[t], offline |-> FALSE]

(* st: also "fin": trk_fin() has posted trk_free(); go: the track's task is
   queued; stop: FMED_FSTOP; pause: snd_output_pause; left: blocks not written. *)
NewTrack == [st |-> "new", go |-> FALSE, stop |-> FALSE, pause |-> FALSE, seek |-> FALSE, left |-> Blocks]

(* ALSA and WASAPI remember the formats that tracks have tried before. *)
Learns == {"alsa", "wasapi"}

Init ==
    /\ sys \in Systems
    /\ \E bad \in SUBSET {Fmt[t] : t \in Tracks} :
        /\ bad \subseteq (IF sys \in Learns THEN {Fmt[t] : t \in Tracks} \ {Native} ELSE {})
        /\ mod = [b \in Buffers |-> [NoMod EXCEPT !.bad = bad]]
    /\ a = [t \in Tracks |-> [NewOut(t) EXCEPT !.open = FALSE]]
    /\ trk = [t \in Tracks |-> NewTrack]
    /\ cur = NoTrack /\ seeks = 0 /\ pauses = 0

(* The handlers below are functions from one such state to the next. *)
Now == [mod |-> mod, a |-> a, trk |-> trk]
Becomes(S) == mod' = S.mod /\ a' = S.a /\ trk' = S.trk

-----------------------------------------------------------------------------
Stopped(S, b) == [S EXCEPT !.mod[b].on = FALSE]
Cleared(S, b) == [S EXCEPT !.mod[b].heard = <<>>]
TimerOff(S, b) == [S EXCEPT !.mod[b].tmr = "off", !.mod[b].who = NoTrack]
Unused(S, b) == [S EXCEPT !.mod[b].usedby = NoTrack]

(* pulse_buf_close(), alsa_buf_close(), wasapi_buf_close(), ffoss.free() *)
BufClosed(S, b) == [Cleared(Stopped(S, b), b) EXCEPT !.mod[b].out = 0]

(* Slip of audio_out_onplay(): the track goes on counting as one that waits. *)
OnPlayAgain(S, t) ==
    IF S.a[t].async THEN [S EXCEPT !.trk[t].go = TRUE] ELSE S

(* audio_out_onplay() *)
OnPlay(S, t) ==
    IF S.a[t].async THEN [S EXCEPT !.a[t].async = FALSE, !.trk[t].go = TRUE] ELSE S

(* Slip of pulse_create(): the track that used the buffer is left alone. *)
DisplacedOnly(S) == Unused(S, Common)

(* The track that uses the common buffer is told that it does so no longer. *)
Displaced(S) ==
    LET user == S.mod[Common].usedby
    IN  IF user = NoTrack THEN S ELSE OnPlay(Unused(S, Common), user)

(* The buffer is the track's, and the timer too. *)
Used(S, b, t) ==
    [S EXCEPT !.mod[b].usedby = t, !.mod[b].tmr = "wake", !.mod[b].who = t,
              !.a[t].stream = S.mod[b].out, !.a[t].state = "DATA"]

(* How a step of the filter ends: what it returns.  The operators below give the
   set of the ways in which it may end. *)
Ret(S, r) == [s |-> S, r |-> r]

(* The chain is to convert to the device's format first. *)
Converts(S, t) == Ret([S EXCEPT !.a[t].fmt = Native, !.a[t].state = "OPEN"], "more")

(* fmt_conv_add() *)
Learnt(S, b, fmt) == IF sys \in Learns THEN [S EXCEPT !.mod[b].bad = @ \cup {fmt}] ELSE S

(* A buffer that no filter has a pointer to is a new one. *)
Streams == 1 .. Cardinality(Tracks) + 1
NewStream(S) == CHOOSE n \in Streams : \A t \in Tracks : S.a[t].stream # n

Opened(S, b, t) ==
    Used([S EXCEPT !.mod[b].out = NewStream(S), !.mod[b].fmt = S.a[t].fmt], b, t)

(* audio_out_open(), and what its callers do with its result.  A format that the
   device does not play is replaced, and a filter before this one converts.  The
   audio system may be out of reach, and still be after reconnecting to it, which
   stops the track or fails in silence (mod_init()). *)
Open(S, t) ==
    IF S.a[t].fmt # Native /\ S.a[t].state = "TRYOPEN"
    THEN {Converts(Learnt(S, Buf(t), S.a[t].fmt), t)}
    ELSE {Ret(Opened(S, Buf(t), t), "ok")}
         \cup (IF DeviceFails THEN {Ret(S, "err"), Ret([S EXCEPT !.trk[t].stop = TRUE], "err")}
               ELSE {})

(* Slip of pulse_create(): the buffer is reused with what it holds. *)
ReusedAsIs(S, t) == Ret(Used(S, Common, t), "ok")

Reused(S, t) == Ret(Used(Cleared(Stopped(S, Common), Common), Common, t), "ok")

(* The open buffer is taken over, or it is closed and another one opened. *)
Create(S, t) ==
    UNION {IF S1.mod[Common].out = 0 THEN Open(S1, t)
           ELSE IF S1.mod[Common].fmt = S1.a[t].fmt THEN {Reused(S1, t)}
           ELSE Open(BufClosed(S1, Common), t)
           : S1 \in {IF S.mod[Common].out = 0 THEN S ELSE Displaced(TimerOff(S, Common))}}

(* The buffer is kept open for a track in a format that the device is known to
   refuse, since the track can use it after a conversion. *)
CreateKnowing(S, t) ==
    IF /\ S.mod[Common].out # 0 /\ S.mod[Common].fmt = Native
       /\ S.a[t].state = "TRYOPEN" /\ S.a[t].fmt \in S.mod[Common].bad
    THEN {Converts(Displaced(TimerOff(S, Common)), t)}
    ELSE Create(S, t)

(* The functions of the audio systems.  In oss_create() the timer is stopped only
   with the track that uses the buffer, but without one it is off. *)
PulseCreate(S, t) == Create(S, t)
AlsaCreate(S, t) == CreateKnowing(S, t)
OssCreate(S, t) == Create(S, t)
WasapiCreate(S, t) == CreateKnowing(S, t)
DsndCreate(S, t) == Open(S, t)
CoraudCreate(S, t) == Open(S, t)

(* The track waits until the timer calls. *)
Waits(S, t) == Ret([S EXCEPT !.a[t].async = TRUE], "async")

(* A write or a drain has failed: the buffer is closed; or it stays until the
   filter is closed. *)
Failed(S) == Unused(TimerOff(BufClosed(S, Common), Common), Common)
FailedOwn(S, t) == Unused(TimerOff(Stopped(S, t), t), t)

(* A call of the audio system fails; WASAPI can tell that the default device has
   been unplugged when it writes. *)
Failures(S, t) ==
    (IF ~DeviceFails THEN {}
     ELSE IF S.trk[t].left = 0 THEN {S}
     ELSE {[S EXCEPT !.trk[t].stop = TRUE, !.a[t].offline = FALSE]}
          \cup (IF sys = "wasapi" THEN {[S EXCEPT !.a[t].offline = TRUE]} ELSE {}))

(* Writing a block, or draining, if the buffer takes it or is empty. *)
Written(S, b, t) ==
    IF S.trk[t].left > 0 /\ Len(S.mod[b].heard) < Cap
    THEN Ret([S EXCEPT !.mod[b].heard = Append(@, t), !.mod[b].on = TRUE, !.trk[t].left = @ - 1], "more")
    ELSE IF S.trk[t].left = 0 /\ S.mod[b].heard = <<>> THEN Ret(S, "done")
    ELSE Waits([S EXCEPT !.mod[b].on = TRUE], t)

(* audio_out_write(); of the chain's part, a seek starts the data over. *)
Output(S0, t) ==
    LET b == Buf(t)
    IN  UNION {IF S0.a[t].clear /\ S.trk[t].seek
               THEN {Ret([S EXCEPT !.trk[t].seek = FALSE, !.trk[t].left = Blocks], "more")}
               ELSE IF S.trk[t].pause
               THEN {Ret([Stopped(S, b) EXCEPT !.trk[t].pause = FALSE, !.trk[t].st = "paused"], "async")}
               ELSE {Written(S, b, t)} \cup {Ret(F, "fail") : F \in Failures(S, t)}
               : S \in {IF S0.a[t].clear
                        THEN [Cleared(Stopped(S0, b), b) EXCEPT !.a[t].clear = FALSE] ELSE S0}}

(* The filter writes if the buffer is (still) the track's. *)
IfInUse(S, t) ==
    IF S.mod[Common].usedby # t THEN {Ret([S EXCEPT !.trk[t].stop = TRUE], "fin")}
    ELSE {IF w.r = "fail" THEN Ret(Failed(w.s), "err") ELSE w : w \in Output(S, t)}

(* When there is no buffer yet, what creating it has come to is `created'. *)
Created(S, t, created) == IF S.a[t].state = "DATA" THEN {Ret(S, "ok")} ELSE created

PulseWrite(S, t) ==
    UNION {IF c.r = "ok" THEN IfInUse(c.s, t) ELSE {c} : c \in Created(S, t, PulseCreate(S, t))}

AlsaWrite(S, t) ==
    UNION {IF c.r = "ok" THEN IfInUse(c.s, t) ELSE {c} : c \in Created(S, t, AlsaCreate(S, t))}

(* oss_write() returns with a new buffer before it writes. *)
OssWrite(S, t) ==
    IF S.a[t].state = "DATA" THEN IfInUse(S, t)
    ELSE {IF c.r = "ok" THEN Ret(c.s, "more") ELSE c : c \in OssCreate(S, t)}

(* wasapi_write() calls itself when the device has been unplugged, to open the one
   that is the default now, in the same format. *)
WasapiOnce(S, t) ==
    UNION {IF c.r = "ok"
           THEN {IF w.r = "err" /\ w.s.a[t].offline
                 THEN Ret([w.s EXCEPT !.a[t].state = "OPEN"], "again") ELSE w : w \in IfInUse(c.s, t)}
           ELSE {c} : c \in Created(S, t, WasapiCreate(S, t))}
(* Bound: the device goes offline once during a call. *)
WasapiWrite(S, t) ==
    UNION {IF w.r # "again" THEN {w} ELSE {x \in WasapiOnce(w.s, t) : x.r # "again"}
           : w \in WasapiOnce(S, t)}

WriteOwn(c, t) ==
    IF c.r # "ok" THEN {c}
    ELSE {IF w.r = "fail" THEN Ret(FailedOwn(w.s, t), "err") ELSE w : w \in Output(c.s, t)}
DsndWrite(S, t) == UNION {WriteOwn(c, t) : c \in Created(S, t, DsndCreate(S, t))}
CoraudWrite(S, t) == UNION {WriteOwn(c, t) : c \in Created(S, t, CoraudCreate(S, t))}

Write(S, t) ==
    CASE sys = "pulse" -> PulseWrite(S, t)
      [] sys = "alsa" -> AlsaWrite(S, t)
      [] sys = "oss" -> OssWrite(S, t)
      [] sys = "wasapi" -> WasapiWrite(S, t)
      [] sys = "dsound" -> DsndWrite(S, t)
      [] sys = "coreaudio" -> CoraudWrite(S, t)

(* Slip of pulse_close(): the timer is forgotten. *)
ClosedTimerRuns(S, t) == Unused(Stopped(S, Common), Common)

(* A track that was stopped leaves the buffer to the timer; one that has ended
   leaves it to the next track. *)
LeftToTimer(S, t) ==
    LET S1 == Unused(TimerOff(Stopped(S, Common), Common), Common)
    IN  IF S.trk[t].stop THEN [S1 EXCEPT !.mod[Common].tmr = "close"] ELSE S1

IfUser(S, t, S1) == IF S.mod[Common].usedby = t THEN S1 ELSE S
PulseClose(S, t) == IfUser(S, t, LeftToTimer(S, t))
AlsaClose(S, t) == IfUser(S, t, LeftToTimer(S, t))
WasapiClose(S, t) == IfUser(S, t, LeftToTimer(S, t))

(* A track that was stopped closes the buffer itself. *)
OssClose(S, t) ==
    LET S1 == IF S.trk[t].stop THEN BufClosed(S, Common) ELSE Cleared(Stopped(S, Common), Common)
    IN  IfUser(S, t, Unused(TimerOff(S1, Common), Common))

DsndClose(S, t) == Unused(TimerOff(BufClosed(S, t), t), t)
CoraudClose(S, t) == Unused(TimerOff(BufClosed(S, t), t), t)

Closed(S, t) ==
    LET S1 == CASE sys = "pulse" -> PulseClose(S, t)
                [] sys = "alsa" -> AlsaClose(S, t)
                [] sys = "oss" -> OssClose(S, t)
                [] sys = "wasapi" -> WasapiClose(S, t)
                [] sys = "dsound" -> DsndClose(S, t)
                [] sys = "coreaudio" -> CoraudClose(S, t)
    IN  [S1 EXCEPT !.a[t] = [NewOut(t) EXCEPT !.open = FALSE]]

Fin(S, t) == [S EXCEPT !.trk[t].st = "fin", !.trk[t].go = FALSE]

(* trk_process(): a stopped playback track is finished; otherwise the chain
   calls the filter, for which it always has data, until the filter waits or
   is done.  The task's turn ends with each call (core_job_shouldyield()). *)
Process(S, t) ==
    IF S.trk[t].stop THEN Becomes(Fin(S, t))
    ELSE \E w \in Write([S EXCEPT !.a[t].open = TRUE], t) :
         \E S1 \in {CASE w.r = "more" -> [w.s EXCEPT !.trk[t].go = TRUE]
                     [] w.r = "async" -> w.s
                     [] w.r = "done" -> Fin(Closed(w.s, t), t)
                     [] w.r \in {"err", "fin"} -> Fin(w.s, t)} : Becomes(S1)

-----------------------------------------------------------------------------
(* FMED_TRACK_START *)
Start(t) ==
    /\ trk[t].st = "new"
    /\ trk' = [trk EXCEPT ![t].st = "active", ![t].go = TRUE]
    /\ UNCHANGED <<sys, mod, a, cur, seeks, pauses>>

(* The track's task; the console's filter is opened before this one. *)
Run(t) ==
    /\ trk[t].go
    /\ LET S == [Now EXCEPT !.trk[t].go = FALSE]
       IN  IF trk[t].st = "active" THEN Process(S, t) ELSE Becomes(S)
    /\ cur' = IF trk[t].st = "active" /\ ~a[t].open THEN t ELSE cur
    /\ UNCHANGED <<sys, seeks, pauses>>

(* trk_onstop(): it may still run in front of trk_free(). *)
Stop(t) ==
    /\ trk[t].st \in {"active", "paused", "fin"} /\ ~trk[t].stop
    /\ LET S == [Now EXCEPT !.trk[t].stop = TRUE]
       IN  IF trk[t].st = "paused" THEN Process([S EXCEPT !.trk[t].st = "active"], t) ELSE Becomes(S)
    /\ UNCHANGED <<sys, cur, seeks, pauses>>

(* trk_free() *)
Free(t) ==
    /\ trk[t].st = "fin"
    /\ LET S == [Now EXCEPT !.trk[t].st = "freed", !.trk[t].go = FALSE]
       IN  Becomes(IF a[t].open THEN Closed(S, t) ELSE S)
    /\ cur' = IF cur = t THEN NoTrack ELSE cur
    /\ UNCHANGED <<sys, seeks, pauses>>

(* CMD_PLAY of the console while the track plays: it is paused when its next
   data is to be written; and again: it goes on. *)
Pause ==
    /\ cur # NoTrack /\ pauses < MaxPauses[sys]
    /\ ~trk[cur].pause /\ trk[cur].st = "active"
    /\ trk' = [trk EXCEPT ![cur].pause = TRUE]
    /\ pauses' = pauses + 1
    /\ UNCHANGED <<sys, mod, a, cur, seeks>>

Unpause ==
    /\ cur # NoTrack
    /\ \/ trk[cur].st = "paused"
          /\ Process([Now EXCEPT !.trk[cur].st = "active"], cur)
       \/ /\ trk[cur].st = "active" /\ trk[cur].pause
          /\ trk' = [trk EXCEPT ![cur].pause = FALSE] /\ UNCHANGED <<mod, a>>
    /\ UNCHANGED <<sys, cur, seeks, pauses>>

(* The track has a buffer, and it is the one that is open. *)
HasBuffer(t) == a[t].open /\ a[t].stream = mod[Buf(t)].out /\ a[t].stream # 0

(* tui_seek() and audio_dev_clear(), through the track's pointer to this filter,
   which the filters of two systems set (d->adev_ctx); with the others a seek is left
   to the filters before. *)
Seek ==
    /\ sys \in {"pulse", "wasapi"} /\ cur # NoTrack /\ seeks < MaxSeeks[sys]
    /\ SeekAnyTime \/ HasBuffer(cur)
    /\ Becomes(OnPlay([Stopped(Now, Common) EXCEPT !.a[cur].clear = TRUE, !.trk[cur].seek = TRUE], cur))
    /\ seeks' = seeks + 1
    /\ UNCHANGED <<sys, cur, pauses>>

(* The timer: periodic for the track that uses the buffer; once, 3 seconds after
   a track was stopped. *)
Timer(b) ==
    \/ mod[b].tmr = "wake" /\ a[mod[b].who].async /\ Becomes(OnPlay(Now, mod[b].who))
    \/ mod[b].tmr = "close" /\ Becomes(TimerOff(BufClosed(Now, b), b))

(* The device plays what the buffer holds. *)
Play(b) ==
    /\ mod[b].on /\ mod[b].heard # <<>>
    /\ mod' = [mod EXCEPT ![b].heard = Tail(@)]
    /\ UNCHANGED <<a, trk>>

Device(b) == (Timer(b) \/ Play(b)) /\ UNCHANGED <<sys, cur, seeks, pauses>>
Next ==
    \/ \E t \in Tracks : Start(t) \/ Run(t) \/ Stop(t) \/ Free(t)
    \/ Pause \/ Unpause \/ Seek
    \/ \E b \in Buffers : Device(b)

(* Queued tasks are run, the timer fires, and the device plays. *)
Fairness ==
    /\ \A t \in Tracks : WF_vars(Run(t)) /\ WF_vars(Free(t))
    /\ \A b \in Buffers :
        /\ WF_vars(Timer(b) /\ UNCHANGED <<sys, cur, seeks, pauses>>)
        /\ WF_vars(Play(b) /\ UNCHANGED <<sys, cur, seeks, pauses>>)

Spec == Init /\ [][Next]_vars /\ Fairness

-----------------------------------------------------------------------------
OutOK(o) ==
    /\ {o.open, o.async, o.clear, o.offline} \subseteq BOOLEAN
    /\ o.state \in {"TRYOPEN", "OPEN", "DATA"} /\ o.stream \in {0} \cup Streams

TrackOK(k) ==
    /\ k.st \in {"new", "active", "paused", "fin", "freed"}
    /\ {k.go, k.stop, k.pause, k.seek} \subseteq BOOLEAN /\ k.left \in 0 .. Blocks

ModOK(m) ==
    /\ m.out \in {0} \cup Streams /\ m.heard \in Seq(Tracks) /\ Len(m.heard) <= Cap
    /\ {m.usedby, m.who} \subseteq Tracks \cup {NoTrack} /\ m.tmr \in {"off", "wake", "close"}

(* The state is well typed. *)
TypeOK ==
    /\ sys \in Systems /\ cur \in Tracks \cup {NoTrack}
    /\ \A b \in Buffers : ModOK(mod[b])
    /\ \A t \in Tracks : OutOK(a[t]) /\ TrackOK(trk[t])

(* A buffer, the track that uses it and the timer agree, whoever took the buffer
   from whom, and however that ended: the user's filter exists and has the buffer
   that is open, the timer calls no filter that was closed, and it closes no buffer
   that is used. *)
OwnerHoldsDevice ==
    \A b \in Buffers :
      LET m == mod[b]
      IN  /\ m.usedby # NoTrack => /\ a[m.usedby].open /\ m.out # 0
                                   /\ a[m.usedby].stream = m.out /\ m.tmr = "wake"
          /\ m.tmr = "wake" => m.who = m.usedby /\ m.who # NoTrack
          /\ m.tmr = "close" => m.usedby = NoTrack

(* The filter has its track woken only when the track waits for it: a track that
   is queued, or waits for something else, is not run once more (which a filter
   that waits for its own operation would take for its end). *)
WokenOnce == \A t \in Tracks : a[t].async => ~trk[t].go /\ trk[t].st # "paused"

(* What is heard is the track that uses the buffer, and nothing of the tracks
   before it (CHANGES.txt:218). *)
OnlyOwnerIsHeard ==
    \A b \in Buffers : mod[b].usedby # NoTrack =>
        \A i \in 1 .. Len(mod[b].heard) : mod[b].heard[i] = mod[b].usedby

(* A track that was started comes to its end, by itself, when it is stopped or
   when another one takes the buffer from it while it waits, unless it is
   paused. *)
EveryTrackEnds == \A t \in Tracks : trk[t].st = "active" ~> trk[t].st \in {"paused", "freed"}

(* A seek of the user reaches the buffer that the track plays through. *)
SeekIsSafe == [][seeks' > seeks => HasBuffer(cur)]_vars
=============================================================================
