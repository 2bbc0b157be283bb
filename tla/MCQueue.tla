------------------------------ MODULE MCQueue ------------------------------
(* One list of two entries and a second one that the user may create, one more
   entry to add, two tracks at a time. *)
EXTENDS Queue, TLC
CONSTANTS e1, e2, e3, l1, l2
MCEntries == {e1, e2, e3}
MCLists == {l1, l2}
MCInitLists == l1 :> <<e1, e2>>
MCPlaylistFiles == {e1}
MCOpening == [e \in MCEntries |-> "ok"]
MCOpeningSome == [e \in MCEntries |-> IF e = e2 THEN "format" ELSE "ok"]
=============================================================================
