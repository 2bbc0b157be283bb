-------------------------------- MODULE Fifo --------------------------------
(***************************************************************************)
(* What a queue between threads promises: "First in, first out"            *)
(* (src/util/taskqueue.h).  An item is put at the end once, is taken from  *)
(* the front by one reader, and by one only, and is nowhere in between.    *)
(*                                                                         *)
(* TaskQueue (the tasks of a worker) and ThreadPool (its ring of tasks)    *)
(* are shown to implement it.                                              *)
(***************************************************************************)
EXTENDS Naturals, Sequences

CONSTANTS
    Items,
    NoItem,
    Readers,   \* those who take items
    Deleters,  \* those of them who may take out any item while they have one
    Capacity   \* how many items there may be

VARIABLES
    items,     \* first to last
    taken      \* taken[r]: the item that reader r has, or NoItem

vars == <<items, taken>>

Queued(x) == \E i \in 1 .. Len(items) : items[i] = x

Init == items = <<>> /\ taken = [r \in Readers |-> NoItem]

Put(x) ==
    /\ ~Queued(x)
    /\ Len(items) < Capacity
    /\ items' = Append(items, x)
    /\ UNCHANGED taken

Take(r) ==
    /\ items # <<>>
    /\ taken[r] = NoItem
    /\ taken' = [taken EXCEPT ![r] = Head(items)]
    /\ items' = Tail(items)

Finish(r) ==
    /\ taken[r] # NoItem
    /\ taken' = [taken EXCEPT ![r] = NoItem]
    /\ UNCHANGED items

Delete(r, x) ==
    /\ r \in Deleters /\ taken[r] # NoItem
    /\ \E i \in 1 .. Len(items) :
        /\ items[i] = x
        /\ items' = [j \in 1 .. Len(items) - 1 |-> IF j < i THEN items[j] ELSE items[j + 1]]
    /\ UNCHANGED taken

Next ==
    \/ \E x \in Items : Put(x)
    \/ \E r \in Readers : Take(r) \/ Finish(r) \/ \E x \in Items : Delete(r, x)

Spec == Init /\ [][Next]_vars
=============================================================================
