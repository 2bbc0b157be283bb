---------------------------- MODULE MCNetStream ----------------------------
(* Responses of two units, the first of which a new title comes after. *)
EXTENDS NetStream
MCTitleAfter == {1}
MCBodies == {"close", "chunked"}
MCLength == {"length"}
=============================================================================
