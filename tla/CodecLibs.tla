----------------------------- MODULE CodecLibs -----------------------------
(***************************************************************************)
(* What the decoders and encoders of src/acodec/alib3-bridge report to the  *)
(* filters of src/acodec (module Codecs) for one call: an answer whose code *)
(* is the library's (RDATA, RMORE, RDONE, RWARN, RERR, RHDR, RHDRFIN) and   *)
(* not yet the filter's.  The libraries proper are not in src/: a decoder   *)
(* gives the samples of a packet at once or with a later one, an encoder    *)
(* keeps samples until it has a frame of them.                              *)
(*                                                                         *)
(* f.step is both the filter's state and the library's, which go together.  *)
(***************************************************************************)
EXTENDS Answers

(* The library is out of memory, or does not accept the format or the packet. *)
Broken(f, t, report) ==
    IF Set(t.c, "faulty") THEN {[Says(f, report) EXCEPT !.in = 0, !.lost = f.in]} ELSE {}
Refuses(f, t) == IF Set(t.c, "faulty") THEN {Says(f, "RERR")} ELSE {}
NotCreated(f, t) == IF Set(t.c, "faulty") /\ ~f.ctx THEN {NotOpened(f)} ELSE {}

(* A packet goes in, and what the library has comes out, now or with the next. *)
Decoded(f) ==
    IF f.in = 0 THEN {Says(f, "RMORE")} ELSE {Gives(f, "RDATA", Has(f)), Takes(f, "RMORE")}

(* Samples go in; frames come out. *)
Frames(f) == {Gives(f, "RDATA", n) : n \in 1 .. Has(f)}
(* No frame yet; or, when the input has ended, the last one, maybe empty: the next
   call is for what comes behind it. *)
Flushed(f, t, step) ==
    {IF t.first THEN Then(Gives(f, "RDATA", Has(f)), step) ELSE Takes(f, "RMORE")}

-----------------------------------------------------------------------------
(* ffflac_decode(): samples for each frame; a broken frame is a warning. *)
FfFlacDecode(f, t) == {Passes(f, "RDATA")} \cup Broken(f, t, "RWARN")

(* ffflac_encode(): one sample always stays in the library until the end. *)
FfFlacEncode(f, t) ==
    Refuses(f, t) \cup
    IF f.step = 4 THEN {Says(f, "RDONE")} ELSE Frames(f) \cup Flushed(f, t, 4)

(* ffvorbis_decode(): info, tags and codebooks, then audio.  Nothing comes out
   without input, at the end neither. *)
FfVorbisDecode(f, t) ==
    CASE f.step < 3 ->
           {Takes(f, <<"RHDR", "RHDRFIN", "RMORE">>[f.step + 1])} \cup Refuses(f, t)
           \cup (IF t.first THEN {Says(f, "RMORE")} ELSE {})
      [] OTHER -> Decoded(f) \cup Broken(f, t, "RWARN")

(* ffvorbis_encode(): three header packets; it takes all the samples each time.  The
   last packet has the flag of the stream's end. *)
FfVorbisEncode(f, t) ==
    Refuses(f, t) \cup
    IF f.step < 4 THEN {Then(Says(f, "RDATA"), f.step + 1)}
    ELSE Frames(f) \cup {IF t.first THEN Gives(f, "RDONE", Has(f)) ELSE Takes(f, "RMORE")}

(* ffopus_decode(): head and tags, where the second packet may already be audio.
   When the filter flushes, it gives out what it has without any input. *)
FfOpusDecode(f, t) ==
    Refuses(f, t) \cup
    CASE f.step < 2 ->
           (IF f.step = 0 THEN {Takes(f, "RHDR")}
            ELSE {Takes(f, "RHDRFIN_TAGS"), Says(f, "RHDRFIN")})
           \cup (IF t.first THEN {Says(f, "RMORE")} ELSE {})
      [] OTHER -> Decoded(f)
FfOpusFlush(f, t) == {Gives(f, "RDATA", Has(f))} \cup Refuses(f, t)

(* ffopus_encode(): two header packets; frames of a fixed length, and the last one is
   filled up with silence. *)
FfOpusEncode(f, t) ==
    Refuses(f, t) \cup
    CASE f.step \in {1, 2} -> {Then(Takes(f, "RDATA"), f.step + 1)}
      [] f.step = 3 -> Frames(f) \cup Flushed(f, t, 4)
      [] f.step = 4 -> {Says(f, "RDONE")}

(* ape_parse(), _ape_parse_old(), _ffape_init(): the first block is the header. *)
ApeHeader(f, t) ==
    {Then(Takes(f, "RHDR"), 1)} \cup Refuses(f, t)
    \cup (IF t.first THEN {Says(f, "RMORE")} ELSE {})
(* ffape_decode() *)
FfApeDecode(f, t) ==
    IF f.step = 0 /\ f.newdata THEN ApeHeader(f, t)
    ELSE IF Has(f) = 0 THEN {Says(f, "RMORE")} ELSE {Gives(f, "RDATA", Has(f))} \cup Refuses(f, t)

(* wvpk_hdrinfo(): the first block has a header and samples; they stay in the input. *)
WvpkHeader(f, t) ==
    {Then(Says(f, "RHDR"), 1)} \cup Refuses(f, t)
    \cup (IF t.first THEN {Says(f, "RMORE")} ELSE {})
(* ffwvpk_decode() *)
FfWvpkDecode(f, t) ==
    IF f.step = 0 /\ f.newdata THEN WvpkHeader(f, t)
    ELSE IF f.in = 0 THEN {Says(f, "RMORE")} ELSE {Passes(f, "RDATA")} \cup Refuses(f, t)

(* ffmpc_decode(): a block has several frames, one comes out at each call. *)
FfMpcDecode(f, t) ==
    (IF Has(f) = 0 THEN {Says(f, "RMORE")} ELSE {Gives(f, "RDATA", 1)}) \cup Broken(f, t, "RERR")

(* ffalac_decode() *)
FfAlacDecode(f, t) ==
    (IF f.in = 0 THEN {Says(f, "RMORE")} ELSE {Passes(f, "RDATA")}) \cup Refuses(f, t)

(* ffaac_decode(): what comes out may be of another format than the file says. *)
FfAacDecode(f, t) ==
    {[a EXCEPT !.code = IF a.code = "RMORE" THEN a.code ELSE c]
        : a \in Decoded(f), c \in {"RDATA", "RDATA_NEWFMT"}} \cup Broken(f, t, "RERR")

(* ffaac_encode() *)
FfAacEncode(f, t) ==
    Refuses(f, t) \cup Frames(f) \cup
    (IF t.first THEN IF Has(f) = 0 THEN {Says(f, "RDONE")} ELSE {} ELSE {Takes(f, "RMORE")})

(* ffmpg_encode(): the last data, and the block for the file's beginning. *)
FfMpgEncode(f, t) ==
    Refuses(f, t) \cup
    IF f.step = 3 THEN {Says(f, "RDONE")} ELSE Frames(f) \cup Flushed(f, t, 3)
=============================================================================
