---------------------------- MODULE AudioFilters ----------------------------
(***************************************************************************)
(* The filters at the ends of a chain (files, standard streams, network,    *)
(* devices, the playback queue's own) and the audio filters between them.   *)
(* Seeking is left out.                                                     *)
(***************************************************************************)
EXTENDS Answers

(* core/queue-track.h: tells the queue when the track is closed. *)
QueTrack(f, t) ==
    IF Set(t.c, "queued") THEN {Says(f, "DONE")} ELSE {Skipped(f)}

(* sys-sleep-dbus.c: keeps the system awake while it is open. *)
DbusSleep(f, t) == {Skipped(f), Says(f, "DONE")}

(* plist/dir.c: open() puts the directory's files into the queue. *)
DirInput(f, t) == {NotOpened(f), Says(f, "FIN")}

-----------------------------------------------------------------------------
OneUnit(f, code) == [Says(f, code) EXCEPT !.out = 1]

(* core/file.c: at the end of the file an empty block first, in case the next
   filters seek back; the user's stop is left to the next filters. *)
FileInput(f, t) ==
    {Says(f, "ASYNC")} \cup Fails(f, t) \cup
    IF t.left > 0 THEN {OneUnit(f, "OK")}
    ELSE {IF f.step = 1 THEN Says(f, "DONE") ELSE Then(Says(f, "OK"), 1)}

(* core/file-std.c *)
StdinInput(f, t) ==
    Fails(f, t) \cup {IF t.left > 0 THEN OneUnit(f, "DATA") ELSE Says(f, "DONE")}

(* net/net.c: a request, then a block of data for each further one.  The handler
   of the response puts the reader, and net.icy before it, after this filter;
   here that is part of the answer with the first data, or with none. *)
ForStream(c) == <<c.in>> \o (IF Set(c, "icy") THEN <<"icy">> ELSE <<>>)
HttpInput(f, t) ==
    IF ~f.ctx /\ Set(t.c, "hls") THEN {Adding(Skipped(f), "after", <<"hls">>)}
    ELSE IF t.stop THEN {Says(f, "DONE")}
    ELSE LET received == IF t.left = 0 THEN Says(f, "DONE") ELSE Then(OneUnit(f, "DATA"), 2)
         IN CASE f.step = 0 -> {Then(Says(f, "ASYNC"), 1)} \cup Fails(f, t)
              [] f.step = 1 -> {Adding(received, "after", ForStream(t.c))} \cup Fails(f, t)
              [] f.step = 2 -> {Then(Says(f, "ASYNC"), 3)}
              [] f.step = 3 -> {received} \cup Fails(f, t)

(* netin in net/net.c: what net.icy of another track has written since the last
   call, and the end when it has closed. *)
NetIn(f, t) ==
    {Says(f, "ASYNC"), [Says(f, "DONE") EXCEPT !.out = t.left]}
    \cup {[Says(f, "DATA") EXCEPT !.out = n] : n \in 1 .. t.left}

(* net/icy.h: takes the titles out of the stream; asks for more at its end too. *)
Icy(f, t) ==
    IF t.stop THEN {Drops(f, "LASTOUT")}
    ELSE IF Has(f) = 0 THEN {Says(f, "MORE")} ELSE {Gives(f, "DATA", 1)}

(* net/hls.c: the playlist (with the first file's name it adds the reader), and
   the files it names one after the other; the end is always an error. *)
Hls(f, t) ==
    CASE f.step = 0 -> {Then(Says(f, "ASYNC"), 1), Says(f, "ERR")}
      [] f.step = 1 -> {Then(Adding(Says(f, "ASYNC"), "after", <<t.c.in>>), 2)}
      [] f.step = 2 -> {Says(f, "ASYNC"), IF t.left > 0 THEN OneUnit(f, "DATA") ELSE Says(f, "ERR")}

(* adev/audio-capture.h: a device is opened in a format that it has, in place of
   the one that was asked for; then each call gives what it has recorded. *)
InOpen(f, t) == IF ~f.ctx /\ Set(t.c, "faulty") THEN {NotOpened(f)} ELSE {}
InRead(f, t) ==
    IF t.stop THEN {Says(f, "DONE")}
    ELSE {Says(f, "ASYNC")}
         \cup (IF Set(t.c, "faulty") THEN {Says(f, "DONE_ERR")} ELSE {})
         \cup (IF t.left > 0 THEN {OneUnit(f, "DATA")} ELSE {})

(* The filters of the audio systems.  A timer of the filter's own wakes the track
   that waits; with AAudio it is an event of the device, at any time.  A second
   attempt follows when the connection to PulseAudio is lost. *)
PulseIn(f, t) == InOpen(f, t) \cup InRead(f, t)
AlsaIn(f, t) == InOpen(f, t) \cup InRead(f, t)
OssIn(f, t) == InOpen(f, t) \cup InRead(f, t)
JackIn(f, t) == InOpen(f, t) \cup InRead(f, t)
DsndIn(f, t) == InOpen(f, t) \cup InRead(f, t)
WasapiIn(f, t) == InOpen(f, t) \cup InRead(f, t)
CoraudIn(f, t) == InOpen(f, t) \cup InRead(f, t)
AaiIn(f, t) == InOpen(f, t) \cup InRead(f, t)

(* afilter/mixer.c, the output side: waits for its inputs. *)
MixOut(f, t) ==
    IF f.step = 0 THEN {Then(Says(f, "ASYNC"), 1)} \cup Fails(f, t)
    ELSE {Says(f, "ASYNC"), IF t.left > 0 THEN OneUnit(f, "DATA") ELSE Says(f, "DONE")}

-----------------------------------------------------------------------------
(* A sink consumes its input, all of it or as much as it can before it waits. *)
Consumes(f, code) == [Says(f, code) EXCEPT !.in = 0]
Waits(f) == {[Says(f, "ASYNC") EXCEPT !.in = k] : k \in 0 .. f.in}

(* core/file-out.c *)
FileOutput(f, t) == {Consumes(f, OnLast(t, "DONE", "OK"))} \cup Waits(f) \cup Fails(f, t)

(* core/file-std.c *)
StdoutOutput(f, t) == {Consumes(f, OnLast(t, "DONE", "OK"))} \cup Fails(f, t)

(* adev/audio.h: may ask the converter for another format before it starts; another
   track may take the device over.  oss_write() asks for more once it has a buffer. *)
Playback(f, t) ==
    Fails(f, t) \cup
    (IF f.step = 0 THEN {Then(Says(f, "MORE"), 1)} ELSE {}) \cup
    IF f.step < 2 /\ Set(t.c, "oss") THEN {Then(Says(f, "MORE"), 2)}
    ELSE {Then(a, 2) : a \in {Consumes(f, OnLast(t, "DONE", "MORE")), Says(f, "FIN")} \cup Waits(f)}

(* afilter/mixer.c, the input side: waits when its block is full. *)
MixIn(f, t) ==
    Fails(f, t) \cup
    IF f.step = 0 THEN {Then(Says(f, "MORE"), 1)}
    ELSE {Then(a, 2) : a \in {Consumes(f, OnLast(t, "DONE", "OK"))} \cup Waits(f)}

(* afilter/peaks.c: asks for 16-bit samples, then counts them. *)
Peaks(f, t) ==
    IF f.step = 0 THEN {Then(Says(f, "MORE"), 1)} \cup Fails(f, t)
    ELSE {Consumes(f, OnLast(t, "DONE", "OK"))} \cup Fails(f, t)

-----------------------------------------------------------------------------
(* afilter/until.h: passes its input on up to the position the user has set.
   mp3-copy.h has taken the position over when it copies the stream itself. *)
Until(f, t) ==
    IF ~Set(t.c, "until") \/ (Copies(t.c) /\ t.c.in = "mp3" /\ ~Set(t.c, "meta")) THEN {Skipped(f)}
    ELSE IF t.first THEN {Passes(f, "DONE")}
    ELSE {Passes(f, "OK")} \cup
         {Cuts(f, "LASTOUT", k) : k \in IF Copies(t.c) THEN {0} ELSE 0 .. f.in}

(* tui.c: shows the track and its position; passes a header on, and waits for
   audio.  With input_info the track is over once it has been shown. *)
Tui(f, t) ==
    LET pass == Passes(f, OnLast(t, "DONE", IF t.c.type = "PLAYBACK" THEN "DATA" ELSE "OK"))
    IN IF t.c.type = "REC" THEN {pass}
       ELSE (IF f.newdata /\ f.in = 0 THEN {pass} ELSE {}) \cup
            IF Info(t.c) THEN {Says(f, "FIN")}
            ELSE IF ~f.newdata \/ (f.in = 0 /\ ~t.first) THEN {Says(f, "MORE")}
            ELSE IF Set(t.c, "parallel") THEN {Passes(f, "DONE")}
            ELSE {pass}

(* plist/cue.c: shifts positions to the beginning of the track in its sheet. *)
CueHook(f, t) ==
    {IF f.newdata THEN Passes(f, OnLast(t, "DONE", "DATA")) ELSE Says(f, "MORE")}

(* afilter/gain.h *)
Gain(f, t) == {Passes(f, OnLast(t, "DONE", "OK"))}

(* afilter/rtpeak.h: skips itself for a format that it does not know. *)
RtPeak(f, t) ==
    {Passes(f, OnLast(t, "DONE", "OK"))} \cup (IF f.ctx THEN {} ELSE {Skipped(f)})

(* afilter/start-stop-level.c: nothing until the signal is loud enough. *)
StartLevel(f, t) ==
    {Drops(f, "MORE")} \cup Fails(f, t)
    \cup (IF f.in = 0 THEN {} ELSE {Cuts(f, "DONE", k) : k \in 0 .. f.in})

(* afilter/start-stop-level.c: the end when the signal has been low for long. *)
StopLevel(f, t) ==
    IF ~f.newdata THEN {Says(f, "MORE")}
    ELSE {Passes(f, OnLast(t, "DONE", "DATA"))} \cup Fails(f, t)
         \cup (IF f.in = 0 THEN {} ELSE {Cuts(f, "LASTOUT", k) : k \in 0 .. f.in})

(* afilter/membuf.h: keeps the last moments of a recording in a ring (here of one
   unit); a command of the user, save_trk, makes it give the ring out. *)
RingUnits == 1
MemBuf(f, t) ==
    LET kept == IF Has(f) > RingUnits THEN RingUnits ELSE Has(f)
        saved == IF f.held = 0 THEN Drops(f, "DONE")
                 ELSE [Says(f, "DATA") EXCEPT !.out = f.held, !.held = 0, !.in = 0, !.lost = f.in]
    IN {Then(saved, 1)} \cup
       IF f.step = 1 THEN {}
       ELSE IF t.stop THEN {Says(f, "FIN")}
       ELSE {[Says(f, "MORE") EXCEPT !.in = 0, !.held = kept, !.lost = Has(f) - kept]}

(* afilter/dynanorm.c: sends its first input back to a converter that it puts
   before itself (what stays in d->data is overwritten by the converter). *)
DynaNorm(f, t) ==
    {Then(a, 1) : a \in Fails(f, t) \cup GivesRest(f, t, "DONE") \cup
                        (IF Has(f) = 0 /\ t.first THEN {} ELSE Buffered(f, t, "DONE"))}
    \cup (IF f.step = 0 THEN {Then(Adding(Passes(f, "BACK"), "before", <<"conv">>), 1)} ELSE {})

-----------------------------------------------------------------------------
(* afilter.autoconv in afilter/aconv.c: an empty output first, so that the next
   filters can ask for a format; then, perhaps with a converter put after itself,
   the input that it had kept, and the end. *)
AutoConv(f, t) ==
    IF Set(t.c, "copy")
    THEN {IF Copies(t.c) THEN Skipped(f) ELSE NotOpened(f)}
    ELSE IF f.step = 0 THEN {Then(Takes(f, "DATA"), 1)}
    ELSE LET done == Gives(f, "DONE", f.held)
         IN {done, Adding(done, "after", <<"conv">>)}

(* afilter.conv in afilter/aconv.c: leaves the sample rate to soxr, which it puts
   after itself, and all the rest too if the channels stay. *)
Conv(f, t) ==
    LET work == {Then(a, 1) : a \in Buffered(f, t, "DONE") \cup Fails(f, t)}
    IN IF f.step = 1 THEN work
       ELSE work \cup {Adding(a, "after", <<"soxr">>) : a \in work \cup {Passes(f, "DONE")}}

(* afilter/soxr-conv.h: leaves in d->data what the library has not taken yet. *)
Soxr(f, t) ==
    Fails(f, t) \cup
    IF Has(f) = 0 THEN {Says(f, OnLast(t, "DONE", "OK"))}
    ELSE GivesOne(f, "OK") \cup (IF t.first THEN {} ELSE {Takes(f, "OK")})

(* afilter/auto-attenuator.c: asks for floating-point samples first. *)
AutoAtten(f, t) ==
    IF ~Set(t.c, "attenuate") THEN {Skipped(f)}
    ELSE IF t.stop THEN {Says(f, "DONE")}
    ELSE CASE f.step = 0 -> {Then(Says(f, "DATA"), 1)}
           [] f.step = 1 -> {Then(Says(f, "MORE"), 2)}
           [] f.step = 2 -> IF f.in = 0 /\ ~t.first THEN {Says(f, "MORE")}
                            ELSE {Passes(f, OnLast(t, "DONE", "DATA"))} \cup Fails(f, t)

(* afilter/split.c: puts the output of a new part at the end of the chain, passes
   its input on, and at the split point ends that part. *)
Split(f, t) ==
    IF f.step = 1 /\ f.in = 0 /\ ~f.newdata THEN {Says(f, "MORE")}
    ELSE {IF f.step = 0 THEN Adding(a, "last", <<"autoconv", t.c.out, "file.out">>) ELSE a
            : a \in {Then(Passes(f, OnLast(t, "DONE", "DATA")), 1)} \cup Fails(f, t) \cup
                    {[Then(Says(f, "NEXTDONE"), 0) EXCEPT !.out = k, !.in = f.in - k]
                        : k \in IF Copies(t.c) THEN {0} ELSE 0 .. f.in}}
=============================================================================
