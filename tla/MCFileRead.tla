----------------------------- MODULE MCFileRead -----------------------------
(* A file of two blocks and a bit; seeks back, to the end and beyond. *)
EXTENDS FileRead
MCSeeks == {3, 6, 9, 11}
=============================================================================
