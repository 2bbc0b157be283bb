----------------------------- MODULE MCPhoneChain -----------------------------
(* Tracks of every type that the application creates, for every format that it
   knows.  Most have one unit of audio data, the recording and a conversion that
   resamples have two. *)
EXTENDS PhoneChain

Opt(type, in, codec, o, n, flags) ==
    [type |-> type, in |-> in, found |-> in, codec |-> codec, out |-> o, units |-> n,
     waits |-> 1, flags |-> flags]

Converted ==
    {Opt("CONVERT", "mp4", "aac.decode", "mp4.out", 1, {"until"}),
     Opt("CONVERT", "mp4", "alac.decode", "flac.out", 1, {}),
     Opt("CONVERT", "mp3", "mpeg.decode", "mp4.out", 1, {}),
     Opt("CONVERT", "flac", "flac.decode", "flac.out", 1, {"until", "overwrite", "exists", "faulty"}),
     Opt("CONVERT", "flac", "flac.decode", "flac.out", 2, {"until"}),
     Opt("CONVERT", "mp3", "mpeg.decode", "flac.out", 1, {"exists"}),
     Opt("CONVERT", "ogg", "vorbis.decode", "flac.out", 1, {})}

Copied ==
    {Opt("CONVERT", "mp3", "mpeg.decode", "mp3.out", 2, {"copy", "until"}),
     Opt("CONVERT", "mp4", "aac.decode", "mp4.out", 2, {"copy", "until", "faulty"}),
     Opt("CONVERT", "mp4", "aac.decode", "mp3.out", 1, {"copy"}),
     Opt("CONVERT", "mp3", "mpeg.decode", "mp4.out", 1, {"copy"}),
     Opt("CONVERT", "flac", "flac.decode", "flac.out", 1, {"copy"})}

Recorded ==
    {Opt("REC", "aaudio", "pcm", "mp4.out", 1, {"until", "gain"}),
     Opt("REC", "aaudio", "pcm", "flac.out", 2, {}),
     Opt("REC", "aaudio", "pcm", "flac.out", 1, {"faulty"}),
     Opt("REC", "aaudio", "pcm", "mp4.out", 1, {"exists"})}

Lists ==
    {Opt("EXPAND", "m3u", "pcm", "none", 1, {"zstd", "faulty"}),
     Opt("PLIST", "m3u", "pcm", "none", 1, {"tmp", "exists", "overwrite"}),
     Opt("PLIST", "m3u", "pcm", "none", 1, {"tmp", "exists", "overwrite", "zstd", "faulty"}),
     Opt("PLIST", "m3u", "pcm", "none", 0, {"tmp", "overwrite"})}

Shown ==
    {Opt("METAINFO", in, codec, "none", 1, {"faulty"}) :
        <<in, codec>> \in {<<"mp3", "mpeg.decode">>, <<"mp4", "alac.decode">>,
                           <<"flac", "flac.decode">>, <<"ogg", "opus.decode">>}}

MCOptions == Converted \cup Copied \cup Recorded \cup Lists \cup Shown
=============================================================================
