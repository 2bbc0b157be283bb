---------------------------- MODULE MCAudioOut ----------------------------
(* Two tracks, one of them in a format that the device does not play.  A seek is
   the same for the systems that support it; with WASAPI the device may go offline
   instead of being paused. *)
EXTENDS AudioOut
CONSTANTS t1, t2, pcm16, pcm24
MCTracks == {t1, t2}
MCFmt == [t \in MCTracks |-> IF t = t2 THEN pcm24 ELSE pcm16]
MCSeeks == [s \in Systems |-> IF s = "pulse" THEN 1 ELSE 0]
MCPauses == [s \in Systems |-> IF s = "wasapi" THEN 0 ELSE 1]
=============================================================================
