----------------------------- MODULE MCTrackLife -----------------------------
(* Two tracks of the main thread, a playback and another one; or one track,
   also started in parallel. *)
EXTENDS TrackLife
CONSTANTS a, b
Both == {a, b}
One == {a}
None == {}
=============================================================================
