------------------------------- MODULE MCMixer -------------------------------
(* Two files are mixed; "out" is the track that plays the mix. *)
EXTENDS Mixer
Two == <<"a", "b">>
=============================================================================
