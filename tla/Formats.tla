------------------------------ MODULE Formats ------------------------------
(***************************************************************************)
(* The readers and writers of file formats, of playlists, and the filters   *)
(* that decompress and compress: adapters around parsers that are not in    *)
(* src/.  What a parser reports (a header, a packet, more data needed, the  *)
(* end, an error) is a choice; what the filter answers to it is the code's. *)
(***************************************************************************)
EXTENDS Answers

(* What the readers have in common.  The first blocks, r.heads of them, are the
   codec's headers; with the first block the reader puts r.add after itself.
   Without more input (FMED_FLAST) the answer is r.cut, where the parser sees the
   end of the stream it is r.end ("none": it does not see it).  With input_info
   the header is the end: r.info tells whether the decoder is added even so. *)
Reads(f, t, r) ==
    LET first == f.step = 0
        inHeader == f.step < r.heads
        next == IF inHeader \/ first THEN f.step + 1 ELSE f.step
        block == Then(IF inHeader THEN Takes(f, "DATA") ELSE Gives(f, "DATA", 1), next)
    IN IF t.stop THEN {Drops(f, "LASTOUT")}
       ELSE IF Has(f) = 0 THEN {Drops(f, OnLast(t, r.cut, "MORE"))}
       ELSE {IF t.first THEN Drops(f, r.cut) ELSE Takes(f, "MORE")} \cup Fails(f, t) \cup
            IF first /\ Info(t.c) /\ r.info # "passes"
            THEN {Adding(Drops(f, "LASTOUT"), "after", IF r.info = "adds" THEN r.add ELSE <<>>)}
            ELSE {IF first THEN Adding(block, "after", r.add) ELSE block} \cup
                 (IF first \/ inHeader \/ r.end = "none" THEN {} ELSE {Drops(f, r.end)})

Decoder(c) == IF c.codec = "pcm" THEN <<>> ELSE <<c.codec>>
DecoderUnlessCopied(c) == IF Set(c, "copy") THEN <<>> ELSE Decoder(c)

(* format/wav.c *)
WavRead(f, t) ==
    Reads(f, t, [heads |-> 0, add |-> <<>>, cut |-> "DONE", end |-> "DONE", info |-> "passes"])
(* format/wav.c: .raw, without a header. *)
RawRead(f, t) ==
    {IF t.stop THEN Drops(f, "LASTOUT") ELSE Passes(f, OnLast(t, "DONE", "OK"))}
(* format/mp3-read.h: leaves all the work to fmt.mp3-copy if it can. *)
Mp3Read(f, t) ==
    IF Copies(t.c) /\ ~Set(t.c, "meta") THEN {Adding(Skipped(f), "after", <<"mp3.copy">>)}
    ELSE Reads(f, t, [heads |-> 0, add |-> DecoderUnlessCopied(t.c), cut |-> "DONE",
                      end |-> "LASTOUT", info |-> "ends"])
(* format/flac-read.h *)
FlacRead(f, t) ==
    Reads(f, t, [heads |-> 0, add |-> Decoder(t.c), cut |-> "DONE", end |-> "DONE", info |-> "ends"])
(* format/mp4-read.h *)
Mp4Read(f, t) ==
    Reads(f, t, [heads |-> 1, add |-> DecoderUnlessCopied(t.c), cut |-> "DONE",
                 end |-> "LASTOUT", info |-> "adds"])
(* format/caf.c *)
CafRead(f, t) ==
    Reads(f, t, [heads |-> 1, add |-> Decoder(t.c), cut |-> "DONE", end |-> "DONE", info |-> "adds"])
(* format/avi.c *)
AviRead(f, t) ==
    Reads(f, t, [heads |-> 1, add |-> Decoder(t.c), cut |-> "DONE", end |-> "DONE", info |-> "passes"])
(* format/mkv.c: three header packets for Vorbis. *)
MkvRead(f, t) ==
    LET vorbis == t.c.codec = "vorbis.decode"
    IN Reads(f, t, [heads |-> IF vorbis THEN 3 ELSE 1,
                    add |-> DecoderUnlessCopied(t.c) \o
                            (IF vorbis /\ ~Set(t.c, "copy") THEN <<"vorbis.meta">> ELSE <<>>),
                    cut |-> "DONE", end |-> "DONE", info |-> "passes"])
(* format/aac-adts.c *)
AdtsRead(f, t) ==
    Reads(f, t, [heads |-> 1, add |-> DecoderUnlessCopied(t.c), cut |-> "LASTOUT",
                 end |-> "none", info |-> "passes"])
(* format/ape-read.c: the last packet may come with the end. *)
ApeRead(f, t) ==
    Reads(f, t, [heads |-> 1, add |-> Decoder(t.c), cut |-> "LASTOUT", end |-> "LASTOUT",
                 info |-> "passes"])
    \cup (IF f.step = 1 /\ f.held > 0 /\ ~t.stop THEN {Cuts(f, "LASTOUT", 1)} ELSE {})
(* format/wv.c *)
WvRead(f, t) ==
    Reads(f, t, [heads |-> 0, add |-> Decoder(t.c), cut |-> "LASTOUT", end |-> "none",
                 info |-> "passes"])
(* format/mpc-read.c: asks for more data at the end of the file too. *)
MpcRead(f, t) ==
    Reads(f, t, [heads |-> 1, add |-> Decoder(t.c), cut |-> "MORE", end |-> "LASTOUT",
                 info |-> "passes"])

(* format/ogg-read.h: the decoder goes after a filter that reads the tags; FLAC has
   a reader of its own.  When it copies packets it looks after `until' itself. *)
OggRead(f, t) ==
    LET flac == t.c.codec = "flac.decode"
        meta == IF t.c.codec = "opus.decode" THEN "opus.meta" ELSE "vorbis.meta"
        decoder == IF Info(t.c) THEN <<>> ELSE DecoderUnlessCopied(t.c)
    IN Reads(f, t, [heads |-> CASE flac -> 0 [] meta = "opus.meta" -> 2 [] OTHER -> 3,
                    add |-> IF flac THEN <<"flacogg.in">> ELSE decoder \o <<meta>>,
                    cut |-> "LASTOUT", end |-> "LASTOUT", info |-> "passes"])
       \cup (IF Copies(t.c) /\ Set(t.c, "until") /\ f.held > 0 /\ ~t.stop /\ f.step >= 2
             THEN {Cuts(f, "LASTOUT", 1)} ELSE {})
(* format/flac-ogg.c *)
FlacOggRead(f, t) ==
    Reads(f, t, [heads |-> 0, add |-> Decoder(t.c), cut |-> "DONE", end |-> "none", info |-> "ends"])

(* format/vorbis-meta.h, format/opus-meta.h: the first two packets pass by it. *)
OggMeta(f, t) ==
    {IF f.step = 0 THEN Then(Passes(f, "OK"), 1)
     ELSE Passes(f, IF Info(t.c) THEN "LASTOUT" ELSE "DONE")}

(* format/detector.h: puts the reader of the format that it has found after itself. *)
Detector(f, t) == {Adding(Passes(f, "DONE"), "after", <<t.c.found>>)} \cup Fails(f, t)

(* format/mp3-copy.h: tags, frames up to `until', and the end. *)
Mp3Copy(f, t) ==
    IF t.stop THEN {Drops(f, "LASTOUT")}
    ELSE Fails(f, t) \cup
         (IF f.step = 0 /\ Has(f) > 0 THEN {Then(Takes(f, "DATA"), 1)} ELSE {}) \cup
         Buffered(f, t, "LASTOUT") \cup
         (IF Has(f) > 0 /\ (t.first \/ Set(t.c, "until")) THEN {Drops(f, "LASTOUT")} ELSE {})

-----------------------------------------------------------------------------
(* A container: its header, the packets, and perhaps a block (an index, a tag, the
   header once more) before the end. *)
Container(f, t, end) ==
    CASE f.step \in 0 .. 1 -> {Then(Takes(f, "DATA"), 2)}
      [] f.step = 2 -> Buffered(f, t, end) \cup
                       (IF Has(f) = 0 /\ t.first THEN {Then(Says(f, "DATA"), 3)} ELSE {})
      [] f.step = 3 -> {Says(f, end)}

(* The writer puts an encoder before itself and asks it for data. *)
WithEncoder(f, encoder) == {Then(Adding(Says(f, "MORE"), "before", <<encoder>>), 1)}

(* format/wav-write.h: takes nothing but samples, interleaved ones. *)
WavWrite(f, t) ==
    IF Copies(t.c) THEN {NotOpened(f)}
    ELSE Fails(f, t) \cup Container(f, t, "DONE") \cup
         (IF f.step = 0 THEN {Then(Says(f, "MORE"), 1)} ELSE {})

(* format/mp3-write.h *)
Mp3Write(f, t) ==
    LET mpeg == Copies(t.c) /\ t.c.in = "mp3"
    IN IF mpeg /\ ~Set(t.c, "meta") THEN {Skipped(f)}
       ELSE Fails(f, t) \cup
            IF f.step > 0 \/ mpeg THEN Container(f, t, "DONE")
            ELSE IF Copies(t.c) THEN {Says(f, "ERR")} ELSE WithEncoder(f, "mpeg.encode")

(* format/mp4-write.h *)
Mp4Write(f, t) ==
    Fails(f, t) \cup
    IF f.step > 0 \/ (Copies(t.c) /\ t.c.in \in {"mp4", "aac"}) THEN Container(f, t, "DONE")
    ELSE IF Copies(t.c) THEN {Says(f, "ERR")} ELSE WithEncoder(f, "aac.encode")

(* format/flac-write.h: the last data comes with the end. *)
FlacWrite(f, t) ==
    Fails(f, t) \cup
    CASE f.step = 0 -> WithEncoder(f, "flac.encode")
      [] f.step = 1 -> {Then(Takes(f, "DATA"), 2)}
      [] f.step = 2 -> GivesRest(f, t, "DONE")
                       \cup (IF Has(f) = 0 /\ t.first THEN {} ELSE Buffered(f, t, "DONE"))

(* format/ogg-write.h: keeps a packet until it knows where the next one begins;
   ends with LASTOUT. *)
OggWrite(f, t) ==
    Fails(f, t) \cup
    LET copied == Copies(t.c)
        encoder == IF Set(t.c, "opus") THEN "opus.encode" ELSE "vorbis.encode"
        begin == Then(IF copied THEN Takes(f, "MORE")
                      ELSE Adding(Takes(f, "MORE"), "before", <<encoder>>), 1)
    IN IF f.step = 0 /\ ~(copied /\ t.c.in = "ogg") /\ ~t.first THEN {begin}
       ELSE {Then(a, 1) : a \in Buffered(f, t, "LASTOUT")}

(* format/aac-write.h: copies frames, without the first block. *)
AdtsWrite(f, t) ==
    IF f.step = 0
    THEN {IF Copies(t.c) /\ t.c.in = "aac" THEN Then(Drops(f, "MORE"), 1) ELSE Says(f, "ERR")}
    ELSE IF f.in = 0 /\ ~t.first THEN {Says(f, "MORE")}
    ELSE {Passes(f, OnLast(t, "DONE", "DATA"))}

-----------------------------------------------------------------------------
(* dfilter/zstd-decomp.h, dfilter/zstd-comp.h *)
Zstd(f, t) == Buffered(f, t, "DONE") \cup Fails(f, t)

(* plist/m3u-read.h, plist/pls-read.h, plist/cue.c: put what they read into the
   queue; there is nothing to play. *)
ListRead(f, t) ==
    {IF t.first THEN Says(f, "FIN") ELSE Drops(f, "MORE")} \cup Fails(f, t)

(* plist/plheal.c: writes the list only if an entry has been corrected. *)
PlistHeal(f, t) ==
    Fails(f, t) \cup
    IF t.first THEN {Says(f, "FIN"), Gives(f, "DONE", Has(f))} ELSE {Takes(f, "MORE")}

(* plist/m3u-write.h: the first filter of a track that saves a list; waits until
   the lists inside it have been read. *)
M3uWrite(f, t) ==
    {Says(f, "ASYNC"), [Says(f, "LASTOUT") EXCEPT !.out = t.left]} \cup Fails(f, t)

(* pl-aow in core/queue.c: nothing is written if the file holds the same. *)
PlistAow(f, t) ==
    IF t.first THEN {Says(f, "FIN"), Gives(f, "DONE", Has(f))} ELSE {Takes(f, "MORE")}
=============================================================================
