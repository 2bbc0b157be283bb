---------------------------- MODULE MCTrackChain ----------------------------
(* Tracks of every type, with every filter.  Most have one unit of audio data; two
   copies, one of them split, and a playback that resamples have two.  Broken input and failing devices, and waiting at any place, are in
   some of the tracks only, with filters of all sorts among them. *)
EXTENDS TrackChain

Opt(type, in, codec, o, n, w, flags) ==
    [type |-> type, in |-> in, found |-> "avi", codec |-> codec, out |-> o, units |-> n,
     waits |-> w, flags |-> flags]

Played ==
    {Opt("PLAYBACK", "mp3", "mpeg.decode", "none", 1, 1, {"queued", "tui", "http", "icy"}),
     Opt("PLAYBACK", "aac", "aac.decode", "none", 1, 1, {"http", "hls", "faulty"}),
     Opt("PLAYBACK", "ogg", "vorbis.decode", "none", 1, 0, {"tui", "attenuate"}),
     Opt("PLAYBACK", "flac", "flac.decode", "none", 1, 1, {"abs_seek", "until", "parallel", "tui"}),
     Opt("PLAYBACK", "ogg", "opus.decode", "none", 1, 0, {}),
     Opt("PLAYBACK", "detector", "pcm", "none", 1, 0, {"faulty"}),
     Opt("PLAYBACK", "wav", "pcm", "none", 1, 0, {"dynanorm"}),
     Opt("PLAYBACK", "ape", "ape.decode", "none", 2, 0, {}),
     Opt("PLAYBACK", "wav", "pcm", "none", 1, 0, {"dir"})}

Converted ==
    {Opt("CONVERT", "mp4", "aac.decode", "mp3.out", 1, 0, {}),
     Opt("CONVERT", "ape", "ape.decode", "flac.out", 1, 0, {}),
     Opt("CONVERT", "wv", "wavpack.decode", "ogg.out", 1, 0, {}),
     Opt("CONVERT", "mpc", "mpc.decode", "ogg.out", 1, 0, {"opus"}),
     Opt("CONVERT", "mkv", "vorbis.decode", "wav.out", 1, 0, {"stdin", "stdout"}),
     Opt("CONVERT", "caf", "alac.decode", "mp4.out", 1, 0, {}),
     Opt("CONVERT", "ogg", "flac.decode", "wav.out", 1, 0, {"faulty"}),
     Opt("CONVERT", "raw", "pcm", "wav.out", 1, 0, {"split"})}

Copied ==
    {Opt("CONVERT", "mp3", "mpeg.decode", "mp3.out", 1, 1, {"copy", "until"}),
     Opt("CONVERT", "mp3", "mpeg.decode", "mp3.out", 1, 1, {"copy", "meta"}),
     Opt("CONVERT", "mp4", "aac.decode", "mp4.out", 1, 1, {"copy"}),
     Opt("CONVERT", "aac", "aac.decode", "aac.out", 1, 1, {"copy"}),
     Opt("CONVERT", "ogg", "vorbis.decode", "ogg.out", 2, 1, {"copy", "until"}),
     Opt("CONVERT", "mp3", "mpeg.decode", "ogg.out", 2, 0, {"copy", "meta", "split"})}

Others ==
    {Opt("REC", "pulse", "pcm", "wav.out", 1, 1, {"start_level", "stop_level", "tui"}),
     Opt("REC", "wasapi", "pcm", "wav.out", 1, 0, {"prebuffer", "faulty"}),
     Opt("PCMINFO", "wav", "pcm", "none", 1, 1, {"tui", "until"}),
     Opt("METAINFO", "mp4", "alac.decode", "none", 1, 1, {"tui"}),
     Opt("EXPAND", "m3u", "pcm", "none", 1, 1, {"zstd"}),
     Opt("MIXIN", "wav", "pcm", "none", 1, 1, {}),
     Opt("MIXOUT", "none", "pcm", "wav.out", 1, 1, {}),
     Opt("PLAYLIST_HEAL", "m3u", "pcm", "none", 1, 1, {}),
     Opt("PLIST", "m3u", "pcm", "none", 1, 1, {"zstd"}),
     Opt("NETIN", "mp3", "mpeg.decode", "mp3.out", 1, 1, {"copy", "meta"})}

Recorded ==
    {Opt("REC", system, "pcm", "wav.out", 1, 0, {})
        : system \in {"alsa", "oss", "jack", "dsound", "coreaudio", "aaudio"}}

MCOptions == Played \cup Converted \cup Copied \cup Others \cup Recorded

(* What is played through OSS (Options <- OssPlayed). *)
OssPlayed == {Opt("PLAYBACK", "wav", "pcm", "none", 2, 0, {"oss"})}

(* A split into many parts, and whether each finds room for its filters: the slots
   of the filters of the parts that have been written are to be used again
   (WavParts: they are; OggParts, MCTrackChainOgg.cfg: they are not, because the
   writer ends with FMED_RLASTOUT). *)
WavParts == {Opt("CONVERT", "raw", "pcm", "wav.out", 0, 0, {"split"})}
OggParts == {Opt("CONVERT", "raw", "pcm", "ogg.out", 0, 0, {"split"})}
PartsFindRoom == pc = "call" /\ flt[cur].kind = "split" /\ flt[cur].step = 0 => ~Full(3)
=============================================================================
