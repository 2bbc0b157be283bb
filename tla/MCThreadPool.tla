---------------------------- MODULE MCThreadPool ----------------------------
(* Two worker threads that add tasks, a pool of two threads. *)
EXTENDS ThreadPool
CONSTANTS w1, w2
MCWriters == {w1, w2}
MCReaders == 1 .. MaxThreads
MCItems == 1 .. Budget
=============================================================================
