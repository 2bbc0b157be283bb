----------------------------- MODULE TrackOpen -----------------------------
(***************************************************************************)
(* Which filters a track starts with: trk_create(), trk_open(),             *)
(* trk_open_capt(), trk_addfilters() and trk_setout_file() of               *)
(* src/core/track.c, and what each filter may answer when it is called.     *)
(*                                                                         *)
(* The options c of a track:                                                *)
(*   type   FMED_TRK_TYPE_*                                                 *)
(*   in     the reader for the input's file name extension (or, from the    *)
(*          network, its content type); for a recording the audio system    *)
(*   found  the reader that the detector finds when there is none for it    *)
(*   codec  the decoder for the stream in the file, or "pcm"                *)
(*   out    the writer for the output's extension, or "none" to play        *)
(*   flags  properties that the user, or another component, has set         *)
(*   units  bound: units of audio data that the source has                  *)
(*   waits  bound: times that the track waits with nothing done             *)
(***************************************************************************)
EXTENDS AudioFilters, Formats, Codecs

If(cond, kinds) == IF cond THEN kinds ELSE <<>>

(* trk_open(); the dbus module is optional, here always there. *)
Input(c) ==
    CASE Set(c, "dir") -> <<"plist.dir">>
      [] Set(c, "http") -> <<"net.http">>
      [] OTHER -> <<IF Set(c, "stdin") THEN "file.stdin" ELSE "file.in">>
                  \o If(Set(c, "zstd"), <<"zstd">>) \o <<c.in>>

(* trk_create(); in que_export() the filters of a list that is saved; in
   netin_create() those of a stream that is saved while it is played. *)
Create(c) ==
    CASE c.type \in {"EXPAND", "PLAYBACK", "CONVERT", "MIXIN", "PCMINFO", "METAINFO"} ->
           <<"dbus.sleep", "queue.track">> \o Input(c)
      [] c.type = "REC" -> <<"dbus.sleep", "adev.in", "until", "rtpeak">>
      [] c.type = "MIXOUT" -> <<"queue.track", "mixer.out">>
      [] c.type = "PLAYLIST_HEAL" -> <<"file.in", "plist.heal", "file.out">>
      [] c.type = "PLIST" -> <<"m3u.out">> \o If(Set(c, "zstd"), <<"zstd">>) \o <<"pl-aow", "file.out">>
      [] c.type = "NETIN" -> <<"net.in", c.in>>

(* filter_add_ui(): the console's. *)
Ui(c) == If(Set(c, "tui"), <<"tui">>)

(* trk_setout_file(), or the playback device. *)
Output(c) ==
    IF c.out = "none" THEN <<"auto-attenuator", "adev.out">>
    ELSE <<c.out, IF Set(c, "stdout") THEN "file.stdout" ELSE "file.out">>

(* trk_addfilters() *)
AddFilters(c) ==
    LET cue == If(Set(c, "abs_seek"), <<"cuehook">>)
        levels == If(Set(c, "start_level"), <<"startlevel">>)
                  \o If(Set(c, "stop_level"), <<"stoplevel">>)
        norm == If(Set(c, "dynanorm"), <<"dynanorm">>)
        noGain == \/ c.type = "MIXOUT" \/ Set(c, "copy")
                  \/ c.type = "PLAYBACK" /\ Set(c, "attenuate")
    IN CASE c.type \in {"PLAYLIST_HEAL", "PLIST"} -> <<>>
         [] c.type \in {"METAINFO", "EXPAND"} -> Ui(c)
         [] c.type = "PCMINFO" ->
              cue \o <<"until">> \o Ui(c) \o norm \o <<"gain", "autoconv", "peaks">>
         [] c.type = "MIXIN" -> cue \o norm \o <<"autoconv", "mixer.in">>
         [] c.type = "REC" ->
              Ui(c) \o levels \o If(Set(c, "prebuffer"), <<"membuf">>)
              \o <<"gain", "autoconv">> \o Output(c)
         [] c.type \in {"PLAYBACK", "CONVERT", "MIXOUT", "NETIN"} ->
              If(c.type \in {"PLAYBACK", "CONVERT"}, cue)
              \o If(c.type # "NETIN", <<"until">> \o Ui(c)) \o levels \o norm
              \o If(~noGain, <<"gain">>)
              \o (IF Set(c, "split") THEN <<"split">> ELSE <<"autoconv">> \o Output(c))

OpenChain(c) == Create(c) \o AddFilters(c)

-----------------------------------------------------------------------------
(* The filters by their names, as core_getmod2() finds them; "adev.in" is the filter
   of the audio system, for a recording the option `in'. *)
Captures(f, t) ==
    CASE t.c.in = "pulse" -> PulseIn(f, t)
      [] t.c.in = "alsa" -> AlsaIn(f, t)
      [] t.c.in = "oss" -> OssIn(f, t)
      [] t.c.in = "jack" -> JackIn(f, t)
      [] t.c.in = "dsound" -> DsndIn(f, t)
      [] t.c.in = "wasapi" -> WasapiIn(f, t)
      [] t.c.in = "coreaudio" -> CoraudIn(f, t)
      [] t.c.in = "aaudio" -> AaiIn(f, t)

Ends(f, t) ==
    CASE f.kind = "queue.track" -> QueTrack(f, t)
      [] f.kind = "dbus.sleep" -> DbusSleep(f, t)
      [] f.kind = "plist.dir" -> DirInput(f, t)
      [] f.kind = "file.in" -> FileInput(f, t)
      [] f.kind = "file.stdin" -> StdinInput(f, t)
      [] f.kind = "net.http" -> HttpInput(f, t)
      [] f.kind = "net.in" -> NetIn(f, t)
      [] f.kind = "icy" -> Icy(f, t)
      [] f.kind = "hls" -> Hls(f, t)
      [] f.kind = "adev.in" -> Captures(f, t)
      [] f.kind = "mixer.out" -> MixOut(f, t)
      [] f.kind = "file.out" -> FileOutput(f, t)
      [] f.kind = "file.stdout" -> StdoutOutput(f, t)
      [] f.kind = "adev.out" -> Playback(f, t)
      [] f.kind = "mixer.in" -> MixIn(f, t)
      [] f.kind = "peaks" -> Peaks(f, t)
EndKinds ==
    {"queue.track", "dbus.sleep", "plist.dir", "file.in", "file.stdin", "net.http", "net.in",
     "icy", "hls", "adev.in", "mixer.out", "file.out", "file.stdout", "adev.out", "mixer.in",
     "peaks"}

Effects(f, t) ==
    CASE f.kind = "until" -> Until(f, t)
      [] f.kind = "tui" -> Tui(f, t)
      [] f.kind = "cuehook" -> CueHook(f, t)
      [] f.kind = "gain" -> Gain(f, t)
      [] f.kind = "rtpeak" -> RtPeak(f, t)
      [] f.kind = "startlevel" -> StartLevel(f, t)
      [] f.kind = "stoplevel" -> StopLevel(f, t)
      [] f.kind = "membuf" -> MemBuf(f, t)
      [] f.kind = "dynanorm" -> DynaNorm(f, t)
      [] f.kind = "autoconv" -> AutoConv(f, t)
      [] f.kind = "conv" -> Conv(f, t)
      [] f.kind = "soxr" -> Soxr(f, t)
      [] f.kind = "auto-attenuator" -> AutoAtten(f, t)
      [] f.kind = "split" -> Split(f, t)
      [] f.kind = "zstd" -> Zstd(f, t)
EffectKinds ==
    {"until", "tui", "cuehook", "gain", "rtpeak", "startlevel", "stoplevel", "membuf",
     "dynanorm", "autoconv", "conv", "soxr", "auto-attenuator", "split", "zstd"}

Readers(f, t) ==
    CASE f.kind = "wav" -> WavRead(f, t)
      [] f.kind = "raw" -> RawRead(f, t)
      [] f.kind = "mp3" -> Mp3Read(f, t)
      [] f.kind = "flac" -> FlacRead(f, t)
      [] f.kind = "mp4" -> Mp4Read(f, t)
      [] f.kind = "caf" -> CafRead(f, t)
      [] f.kind = "avi" -> AviRead(f, t)
      [] f.kind = "mkv" -> MkvRead(f, t)
      [] f.kind = "aac" -> AdtsRead(f, t)
      [] f.kind = "ape" -> ApeRead(f, t)
      [] f.kind = "wv" -> WvRead(f, t)
      [] f.kind = "mpc" -> MpcRead(f, t)
      [] f.kind = "ogg" -> OggRead(f, t)
      [] f.kind = "flacogg.in" -> FlacOggRead(f, t)
      [] f.kind \in {"vorbis.meta", "opus.meta"} -> OggMeta(f, t)
      [] f.kind = "detector" -> Detector(f, t)
      [] f.kind = "mp3.copy" -> Mp3Copy(f, t)
      [] f.kind \in {"m3u", "pls", "cue"} -> ListRead(f, t)
ReaderKinds ==
    {"wav", "raw", "mp3", "flac", "mp4", "caf", "avi", "mkv", "aac", "ape", "wv", "mpc", "ogg",
     "flacogg.in", "vorbis.meta", "opus.meta", "detector", "mp3.copy", "m3u", "pls", "cue"}

Writers(f, t) ==
    CASE f.kind = "wav.out" -> WavWrite(f, t)
      [] f.kind = "mp3.out" -> Mp3Write(f, t)
      [] f.kind = "mp4.out" -> Mp4Write(f, t)
      [] f.kind = "flac.out" -> FlacWrite(f, t)
      [] f.kind = "ogg.out" -> OggWrite(f, t)
      [] f.kind = "aac.out" -> AdtsWrite(f, t)
      [] f.kind = "plist.heal" -> PlistHeal(f, t)
      [] f.kind = "m3u.out" -> M3uWrite(f, t)
      [] f.kind = "pl-aow" -> PlistAow(f, t)
WriterKinds ==
    {"wav.out", "mp3.out", "mp4.out", "flac.out", "ogg.out", "aac.out", "plist.heal", "m3u.out",
     "pl-aow"}

Coders(f, t) ==
    CASE f.kind = "flac.decode" -> FlacDecode(f, t)
      [] f.kind = "mpeg.decode" -> MpegDecode(f, t)
      [] f.kind = "alac.decode" -> AlacDecode(f, t)
      [] f.kind = "vorbis.decode" -> VorbisDecode(f, t)
      [] f.kind = "opus.decode" -> OpusDecode(f, t)
      [] f.kind = "ape.decode" -> ApeDecode(f, t)
      [] f.kind = "wavpack.decode" -> WavPackDecode(f, t)
      [] f.kind = "mpc.decode" -> MpcDecode(f, t)
      [] f.kind = "aac.decode" -> AacDecode(f, t)
      [] f.kind = "mpeg.encode" -> MpegEncode(f, t)
      [] f.kind = "flac.encode" -> FlacEncode(f, t)
      [] f.kind = "vorbis.encode" -> VorbisEncode(f, t)
      [] f.kind = "opus.encode" -> OpusEncode(f, t)
      [] f.kind = "aac.encode" -> AacEncode(f, t)

FilterAnswers(f, t) ==
    CASE f.kind \in EndKinds -> Ends(f, t)
      [] f.kind \in EffectKinds -> Effects(f, t)
      [] f.kind \in ReaderKinds -> Readers(f, t)
      [] f.kind \in WriterKinds -> Writers(f, t)
      [] OTHER -> Coders(f, t)
=============================================================================
