-------------------------------- MODULE Ring --------------------------------
(***************************************************************************)
(* The ring of pointers with many writers and many readers and no lock     *)
(* (src/util/ring.h).  A writer reserves a slot by moving whead on, fills  *)
(* it, waits for the writers before it, and moves wtail on; a reader takes *)
(* the pointer out of the slot first and then moves r on.  Both are        *)
(* compare-and-swap loops: between any two of the accesses below the other *)
(* threads run.                                                            *)
(*                                                                         *)
(* A process makes one call at a time; the module that uses the ring       *)
(* starts it (BeginWrite, BeginRead) and finds its end in call[p].pc.      *)
(***************************************************************************)
EXTENDS Naturals, Sequences

CONSTANTS
    Cap,       \* ring.cap, a power of 2 (64 in the code)
    Writers,   \* threads that write
    Readers,   \* threads that read
    Items,     \* what the pointers point to
    NoItem,
    Start,     \* the positions at the beginning: where earlier use has left them
    MayLap     \* FALSE: no process sleeps between its load of a position and
               \* its compare-and-swap while others go once round the ring

ASSUME CapAssumption == Cap \in Nat /\ Cap > 1 /\ Start \in 0 .. Cap - 1
ASSUME ProcAssumption == Writers \cap Readers = {} /\ NoItem \notin Items /\ MayLap \in BOOLEAN

VARIABLES
    d,         \* the slots
    whead,     \* the end of what writers have reserved
    wtail,     \* the end of what is complete
    r,         \* the first item not read
    call       \* call[p]: the call that process p is in

ring == <<d, whead, wtail, r, call>>

Procs == Writers \cup Readers
Slots == 0 .. Cap - 1

(* ffint_increset2() *)
Inc(n) == (n + 1) % Cap

(* How many there are from one position to another. *)
Distance(from, to) == (to + Cap - from) % Cap
Full == Inc(whead) = r

(* pc: the next access to shared memory, or how the call ended; old: the
   position loaded; item: what to write, or what was read. *)
NoCall == [pc |-> "none", old |-> 0, item |-> NoItem]

RingInit ==
    /\ d = [i \in Slots |-> NoItem]
    /\ whead = Start /\ wtail = Start /\ r = Start
    /\ call = [p \in Procs |-> NoCall]

BeginWrite(p, x) ==
    /\ call' = [call EXCEPT ![p] = [NoCall EXCEPT !.pc = "load", !.item = x]]
    /\ UNCHANGED <<d, whead, wtail, r>>

BeginRead(p) ==
    /\ call' = [call EXCEPT ![p] = [NoCall EXCEPT !.pc = "load"]]
    /\ UNCHANGED <<d, whead, wtail, r>>

-----------------------------------------------------------------------------
(* Moving a position on to next does not bring it back to where another process
   of that kind has loaded it, whose compare-and-swap would then succeed although
   everything has changed. *)
NoLap(p, kind, next) ==
    MayLap \/ \A q \in kind \ {p} : call[q].pc \in {"check", "get", "cas"} => call[q].old # next

(* head_old = ffatom_get(&r->whead) *)
WriteLoad(p) ==
    /\ p \in Writers /\ call[p].pc = "load"
    /\ call' = [call EXCEPT ![p].pc = "check", ![p].old = whead]
    /\ UNCHANGED <<d, whead, wtail, r>>

(* if (head_new == ffatom_get(&r->r)) return -1 *)
WriteCheck(p) ==
    /\ p \in Writers /\ call[p].pc = "check"
    /\ call' = [call EXCEPT ![p] = IF Inc(@.old) = r THEN [NoCall EXCEPT !.pc = "refused"]
                                    ELSE [@ EXCEPT !.pc = "cas"]]
    /\ UNCHANGED <<d, whead, wtail, r>>

(* ffatom_cmpset(&r->whead, head_old, head_new) *)
WriteCas(p) ==
    /\ p \in Writers /\ call[p].pc = "cas"
    /\ IF whead = call[p].old
       THEN /\ NoLap(p, Writers, Inc(whead))
            /\ whead' = Inc(whead)
            /\ call' = [call EXCEPT ![p].pc = "store"]
       ELSE call' = [call EXCEPT ![p].pc = "load", ![p].old = 0] /\ UNCHANGED whead
    /\ UNCHANGED <<d, wtail, r>>

(* r->d[head_old] = p *)
WriteStore(p) ==
    /\ p \in Writers /\ call[p].pc = "store"
    /\ d' = [d EXCEPT ![call[p].old] = call[p].item]
    /\ call' = [call EXCEPT ![p].pc = "tail"]
    /\ UNCHANGED <<whead, wtail, r>>

(* Slip of _ffring_write(): the writers before this one are not waited for. *)
WriteTailAtOnce(p) ==
    /\ p \in Writers /\ call[p].pc = "tail"
    /\ wtail' = Inc(call[p].old)
    /\ call' = [call EXCEPT ![p] = [NoCall EXCEPT !.pc = "written"]]
    /\ UNCHANGED <<d, whead, r>>

(* while (ffatom_get(&r->wtail) != head_old); ffatom_set(&r->wtail, head_new) *)
WriteTail(p) ==
    /\ p \in Writers /\ call[p].pc = "tail"
    /\ wtail = call[p].old
    /\ wtail' = Inc(wtail)
    /\ call' = [call EXCEPT ![p] = [NoCall EXCEPT !.pc = "written"]]
    /\ UNCHANGED <<d, whead, r>>

-----------------------------------------------------------------------------
(* rr = ffatom_get(&r->r) *)
ReadLoad(p) ==
    /\ p \in Readers /\ call[p].pc = "load"
    /\ call' = [call EXCEPT ![p].pc = "check", ![p].old = r]
    /\ UNCHANGED <<d, whead, wtail, r>>

(* if (rr == ffatom_get(&r->wtail)) return -1 *)
ReadCheck(p) ==
    /\ p \in Readers /\ call[p].pc = "check"
    /\ call' = [call EXCEPT ![p] = IF @.old = wtail THEN [NoCall EXCEPT !.pc = "empty"] ELSE [@ EXCEPT !.pc = "get"]]
    /\ UNCHANGED <<d, whead, wtail, r>>

(* rc = r->d[rr] *)
ReadGet(p) ==
    /\ p \in Readers /\ call[p].pc = "get"
    /\ call' = [call EXCEPT ![p].pc = "cas", ![p].item = d[call[p].old]]
    /\ UNCHANGED <<d, whead, wtail, r>>

(* ffatom_cmpset(&r->r, rr, rnew) *)
ReadCas(p) ==
    /\ p \in Readers /\ call[p].pc = "cas"
    /\ IF r = call[p].old
       THEN /\ NoLap(p, Readers, Inc(r))
            /\ r' = Inc(r)
            /\ call' = [call EXCEPT ![p] = [NoCall EXCEPT !.pc = "read", !.item = call[p].item]]
       ELSE call' = [call EXCEPT ![p] = [NoCall EXCEPT !.pc = "load"]] /\ UNCHANGED r
    /\ UNCHANGED <<d, whead, wtail>>

WriteStep(p) == WriteLoad(p) \/ WriteCheck(p) \/ WriteCas(p) \/ WriteStore(p) \/ WriteTail(p)
ReadStep(p) == ReadLoad(p) \/ ReadCheck(p) \/ ReadGet(p) \/ ReadCas(p)

-----------------------------------------------------------------------------
CallType ==
    [pc : {"none", "load", "check", "get", "cas", "store", "tail", "written", "refused", "read", "empty"},
     old : Slots, item : Items \cup {NoItem}]

RingTypeOK ==
    /\ d \in [Slots -> Items \cup {NoItem}]
    /\ {whead, wtail, r} \subseteq Slots
    /\ call \in [Procs -> CallType]

(* The complete items, first to last. *)
Complete == [i \in 1 .. Distance(r, wtail) |-> d[(r + i - 1) % Cap]]

(* "Readers and writers can run in parallel": with the item as taken from the
   moment the compare-and-swap of its reader succeeds, the ring is a queue that
   gives every item to one reader, in the order in which they became complete,
   and holds one item fewer than it has slots. *)
Promise == INSTANCE Fifo WITH
    Deleters <- {}, Capacity <- Cap - 1, items <- Complete,
    taken <- [p \in Readers |-> IF call[p].pc = "read" THEN call[p].item ELSE NoItem]
ImplementsFifo == Promise!Spec

(* "Return 0 on success;  <0 if full" (ring.h:33): no write is refused by a ring
   that has room. *)
RefusedWhenFull ==
    [][\A p \in Writers : call[p].pc # "refused" /\ call'[p].pc = "refused" => Full]_ring
=============================================================================
