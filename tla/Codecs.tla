------------------------------- MODULE Codecs -------------------------------
(***************************************************************************)
(* The decoders and encoders of src/acodec: what each makes of the report   *)
(* of its library (module CodecLibs).  A decoder gives samples, an encoder  *)
(* packets; headers, codec settings and other first blocks are empty output. *)
(***************************************************************************)
EXTENDS CodecLibs

As(r, code) == [r EXCEPT !.code = code[r.code]]
MoreOrDone(t) == OnLast(t, "DONE", "MORE")

(* acodec/flac-dec.h: a frame in, its samples out. *)
FlacDecode(f, t) ==
    NotCreated(f, t) \cup
    IF t.first THEN {Drops(f, "DONE")}
    ELSE {As(r, [RDATA |-> "OK", RWARN |-> "MORE"]) : r \in FfFlacDecode(f, t)}

(* acodec/mpeg-dec.h: gives out once for each frame that it gets, and at the end
   as long as the library has anything. *)
MpegDecode(f, t) ==
    NotCreated(f, t) \cup Warns(f, t, MoreOrDone(t)) \cup
    IF f.newdata \/ t.first THEN Buffered(f, t, "DONE") ELSE {Says(f, "MORE")}

(* acodec/alac-dec.h *)
AlacDecode(f, t) ==
    NotCreated(f, t) \cup
    {As(r, [RDATA |-> "DATA", RMORE |-> MoreOrDone(t), RERR |-> "ERR"]) : r \in FfAlacDecode(f, t)}

(* acodec/vorbis.c: three header packets, then audio. *)
VorbisDecode(f, t) ==
    CASE f.step < 3 /\ ~f.newdata -> {Says(f, "MORE")}
      [] f.step = 3 /\ Info(t.c) -> {Says(f, "LASTOUT")}
      [] OTHER ->
           {Then(As(r, [RDATA |-> "DATA", RHDR |-> "MORE", RHDRFIN |-> "MORE", RERR |-> "ERR",
                        RMORE |-> MoreOrDone(t), RWARN |-> MoreOrDone(t)]),
                 IF f.step < 3 THEN f.step + 1 ELSE 3)
                : r \in FfVorbisDecode(f, t)}

(* acodec/opus.c: what the library still has at the end comes out with the flush,
   and at the next call the filter is done. *)
OpusLast(f, t) ==
    {Then(As(r, [RDATA |-> "DATA", RERR |-> "ERR"]), 3) : r \in FfOpusFlush(f, t)}
OpusAudio(f, t) ==
    IF Info(t.c) THEN {Says(f, "LASTOUT")}
    ELSE UNION {IF r.code = "RMORE" /\ t.first THEN OpusLast(f, t)
                ELSE {As(r, [RDATA |-> "DATA", RMORE |-> "MORE", RERR |-> "ERR"])}
                : r \in FfOpusDecode(f, t)}

(* A track that ends with the head packet is done, one without any packet fails. *)
OpusHead(f, t) ==
    {As(r, [RHDR |-> MoreOrDone(t), RMORE |-> "ERR", RERR |-> "ERR"])
        : r \in FfOpusDecode([f EXCEPT !.step = 0], t)}
OpusTags(f, t) ==
    LET audio == Then(f, 2)
        ends == IF Info(t.c) THEN {Says(audio, "LASTOUT")} ELSE {Says(audio, "DONE")}
    IN UNION {CASE r.code = "RHDRFIN_TAGS" /\ t.first -> OpusLast(f, t)
                [] r.code = "RHDRFIN_TAGS" /\ ~t.first -> {Then(As(r, [RHDRFIN_TAGS |-> "MORE"]), 2)}
                [] r.code = "RHDRFIN" -> OpusAudio(audio, t)
                [] r.code = "RMORE" -> ends
                [] r.code = "RERR" -> {As(r, [RERR |-> "ERR"])}
              : r \in FfOpusDecode(f, t)}
OpusDecode(f, t) ==
    CASE f.step < 2 /\ ~f.newdata -> {Says(f, "MORE")}
      [] f.step = 0 /\ f.newdata -> {Then(a, 1) : a \in OpusHead(f, t)}
      [] f.step = 1 /\ f.newdata -> OpusTags(f, t)
      [] f.step = 2 -> OpusAudio(f, t)
      [] f.step = 3 -> {Says(f, IF Info(t.c) THEN "LASTOUT" ELSE "DONE")}

(* acodec/ape.c, acodec/wavpack.c: the format is known with the first data, and
   goes to the next filters as an empty block. *)
FormatFirst(t) ==
    [RHDR |-> "DATA", RDATA |-> "DATA", RMORE |-> MoreOrDone(t), RERR |-> "ERR"]
ApeDecode(f, t) == {As(r, FormatFirst(t)) : r \in FfApeDecode(f, t)}
WavPackDecode(f, t) == {As(r, FormatFirst(t)) : r \in FfWvpkDecode(f, t)}

(* acodec/mpc.c: asks for more data when the input is broken, at its end too. *)
MpcDecode(f, t) ==
    NotCreated(f, t) \cup
    {As(r, [RDATA |-> "DATA", RMORE |-> MoreOrDone(t), RERR |-> "MORE"]) : r \in FfMpcDecode(f, t)}

(* acodec/aac-dec.h: keeps what it decodes until it has seen enough frames to know
   the format, gives up what it has kept when the format turns out to be another,
   and then gives out all that it has. *)
AacCache(f, t, r) ==
    LET kept == IF r.code = "RDATA_NEWFMT" THEN [f EXCEPT !.held = 0] ELSE f
        ready == Then(Gives(kept, "DATA", Has(kept)), 1)
    IN CASE r.code = "RERR" -> {As(r, [RERR |-> "MORE"])}
         [] r.code = "RMORE" ->
              {IF ~t.first THEN Takes(f, "MORE") ELSE IF f.held = 0 THEN Says(f, "DONE") ELSE ready}
         [] OTHER ->
              {[a EXCEPT !.lost = f.held - kept.held]
                  : a \in {ready} \cup (IF t.first THEN {} ELSE {Takes(kept, "MORE")})}
AacDecode(f, t) ==
    NotCreated(f, t) \cup
    IF f.step = 0 THEN UNION {AacCache(f, t, r) : r \in FfAacDecode(f, t)}
    ELSE {As(r, [RDATA |-> "DATA", RDATA_NEWFMT |-> "DATA", RMORE |-> MoreOrDone(t),
                 RERR |-> "MORE"]) : r \in FfAacDecode(f, t)}

-----------------------------------------------------------------------------
(* An encoder may ask the converter for other samples before it begins. *)
AsksFormat(f) == Then(Says(f, "MORE"), 1)

Encoded == [RDATA |-> "DATA", RMORE |-> "MORE", RDONE |-> "DONE", RERR |-> "ERR"]

(* acodec/mpeg-enc.h: the last frames, and at the next call the block for the
   beginning of the file. *)
MpegEncode(f, t) ==
    NotCreated(f, t) \cup (IF f.step = 0 THEN {AsksFormat(f)} ELSE {}) \cup
    {As(r, Encoded) : r \in FfMpgEncode(IF f.step < 2 THEN Then(f, 2) ELSE f, t)}

(* acodec/flac-enc.h: the stream's info block, frames, and the info block again. *)
FlacEncode(f, t) ==
    NotCreated(f, t) \cup (IF f.step = 0 THEN {AsksFormat(f)} ELSE {}) \cup
    IF f.step < 2 THEN {Then(Takes(f, "DATA"), 2)} \cup Fails(f, t)
    ELSE {As(r, Encoded) : r \in FfFlacEncode(f, t)}

(* acodec/vorbis-enc.h: the last packet, and at the next call the end. *)
VorbisEncode(f, t) ==
    CASE f.step = 0 -> {AsksFormat(f)}
      [] f.step \in 1 .. 4 ->
           {IF r.code = "RDONE" THEN Then(As(r, [RDONE |-> "DATA"]), 5) ELSE As(r, Encoded)
                : r \in FfVorbisEncode(f, t)}
      [] f.step = 5 -> {Says(f, "DONE")}

(* acodec/opus-enc.h *)
OpusEncode(f, t) ==
    IF f.step = 0 THEN {AsksFormat(f)} ELSE {As(r, Encoded) : r \in FfOpusEncode(f, t)}

(* acodec/aac-enc.h: the codec's configuration first. *)
AacEncode(f, t) ==
    CASE f.step = 0 -> {Then(Takes(f, "MORE"), 1)}
      [] f.step = 1 -> {Then(Takes(f, "DATA"), 2)} \cup Fails(f, t)
      [] f.step = 2 -> {As(r, Encoded) : r \in FfAacEncode(f, t)}
=============================================================================
