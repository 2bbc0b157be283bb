-------------------------- MODULE ThreadPoolProofs --------------------------
(***************************************************************************)
(* Safety of the ring of pointers and of the pool of threads, for a ring   *)
(* of any size, any number of threads that add tasks, any number of threads *)
(* in the pool and any number of tasks.                                    *)
(***************************************************************************)
EXTENDS ThreadPool, FiniteSetTheorems, SequenceTheorems, TLAPS

(* The slots that hold a complete item, and those that a writer has reserved. *)
Filled(s) == Distance(r, s) < Distance(r, wtail)
Reserved(s) == ~Filled(s) /\ Distance(r, s) < Distance(r, whead)

Fills == {"store", "tail"}

(* Each writer fills a slot of its own; a compare-and-swap that succeeds finds
   what was seen before it, as no position comes back to where it was. *)
WriterOK(k) ==
    /\ k.pc \in {"none", "load", "check", "cas", "store", "tail", "written", "refused"}
    /\ k.pc \in Fills => Reserved(k.old)
    /\ k.pc = "tail" => d[k.old] = k.item
    /\ k.pc = "cas" /\ k.old = whead => Inc(whead) # r
ReaderOK(k) ==
    /\ k.pc \in {"none", "load", "check", "get", "cas", "read", "empty"}
    /\ k.pc \in {"get", "cas"} /\ k.old = r => r # wtail
    /\ k.pc = "cas" /\ k.old = r => k.item = d[r]
Apart ==
    \A p, q \in Writers :
        call[p].pc \in Fills /\ call[q].pc \in Fills /\ call[p].old = call[q].old => p = q
RingInv ==
    /\ RingTypeOK
    /\ Distance(r, wtail) <= Distance(r, whead)
    /\ \A p \in Writers : WriterOK(call[p])
    /\ \A h \in Readers : ReaderOK(call[h])
    /\ Apart

-----------------------------------------------------------------------------
(* What a process does in the ring is what it does in the pool. *)
UserInv(p) ==
    /\ at[p].pc = "write" <=> call[p].pc \in {"load", "check", "cas", "store", "tail"}
    /\ at[p].pc = "write" => call[p].item = at[p].t
ThreadInv(h) ==
    /\ at[h].pc = "none" <=> h > nthreads
    /\ at[h].pc = "read" <=> call[h].pc \in {"load", "check", "get", "cas"}
    /\ IF at[h].pc \in {"handler", "free"} THEN call[h].pc = "read" /\ at[h].t = call[h].item
       ELSE at[h].t = NoItem

(* Where a task may be: with the user that writes it, in a slot of the ring, or
   with the thread that runs it. *)
Holders == ({"w"} \X Writers) \cup ({"s"} \X Slots) \cup ({"h"} \X Readers)
Held(A, D, R, W) ==
    [x \in Holders |->
        CASE x[1] = "w" -> IF A[x[2]].pc = "write" THEN A[x[2]].t ELSE NoItem
          [] x[1] = "s" -> IF Distance(R, x[2]) < Distance(R, W) THEN D[x[2]] ELSE NoItem
          [] x[1] = "h" -> A[x[2]].t]
held == Held(at, d, r, wtail)

(* The thread is done with the task's handler. *)
Done(x) == x[1] = "h" /\ at[x[2]].pc = "free"

Once(F) == \A x, y \in Holders : F[x] = F[y] /\ F[x] # NoItem => x = y
IsHeld(F, t) == \E x \in Holders : F[x] = t

(* A task is in one place at most, and has the references that this calls for. *)
HeldInv ==
    /\ Once(held)
    /\ \A x \in Holders : held[x] # NoItem => held[x] \in 1 .. Len(task)

(* A slot of the ring that is complete holds a task, and so does a thread that is
   about to run one. *)
Present ==
    /\ \A s \in Slots : Filled(s) => d[s] # NoItem
    /\ \A h \in Readers : at[h].pc \in {"handler", "free"} => at[h].t # NoItem

Users(k) == IF k.owner = "gone" THEN 0 ELSE 1
RefInv(t) ==
    /\ task[t].ref = Users(task[t]) + IF IsHeld(held, t) THEN 1 ELSE 0
    /\ task[t].freed <=> task[t].ref = 0
    /\ \A x \in Holders : held[x] = t => task[t].runs = 0 \/ Done(x)

(* A task that is being added is its user's alone. *)
AddInv ==
    /\ \A p \in Writers : at[p].pc # "idle" =>
          at[p].t \in 1 .. Len(task) /\ task[at[p].t].owner = "held" /\ task[at[p].t].added = "pending"
    /\ \A p, q \in Writers : at[p].pc # "idle" /\ at[q].pc # "idle" /\ at[p].t = at[q].t => p = q

AddedTasks == {t \in 1 .. Len(task) : task[t].added = "yes"}
SemInv ==
    /\ sem <= Cardinality(AddedTasks) + IF main \in {"run", "post"} THEN 0 ELSE MaxThreads
    /\ main # "run" => \A p \in Writers : at[p].pc = "idle"

PoolTypes ==
    /\ at \in [Procs -> AtType]
    /\ \A p \in Writers : at[p].pc \in UserPcs
    /\ \A h \in Readers : at[h].pc \in ThreadPcs
    /\ nthreads \in 0 .. MaxThreads /\ sem \in Nat
    /\ stop \in BOOLEAN /\ main \in {"run", "post", "join", "freed", "kept"}
    /\ late \subseteq joined /\ joined \subseteq 1 .. nthreads
    /\ task \in Seq(TaskType) /\ Len(task) <= Budget

LocalInv ==
    /\ \A p \in Writers : UserInv(p)
    /\ \A h \in Readers : ThreadInv(h)

TaskInv ==
    /\ HeldInv
    /\ \A t \in 1 .. Len(task) : RefInv(t)
    /\ AddInv

IInv == RingInv /\ PoolTypes /\ LocalInv /\ Present /\ TaskInv /\ SemInv

-----------------------------------------------------------------------------
(* Positions.  Modulo Cap is a subtraction at most. *)
LEMMA ModCap ==
  /\ Cap \in Nat /\ Cap > 1
  /\ \A x \in Nat : (x < Cap => x % Cap = x) /\ (Cap <= x /\ x < Cap + Cap => x % Cap = x - Cap)
  <1>1. \A n \in Nat \ {0} : \A x \in Nat : /\ x < n => x % n = x
                                           /\ n <= x /\ x < n + n => x % n = x - n
    OBVIOUS
  <1>2. Cap \in Nat \ {0} /\ Cap > 1
    BY CapAssumption
  <1> QED BY <1>1, <1>2

LEMMA IncIs ==
  ASSUME NEW a \in Slots
  PROVE  Inc(a) = IF a = Cap - 1 THEN 0 ELSE a + 1
  <1> DEFINE m == (a + 1) % Cap
  <1>1. a \in Nat /\ a + 1 \in Nat /\ a + 1 <= Cap
    BY ModCap DEF Slots
  <1>2. (a + 1 < Cap => m = a + 1) /\ (Cap <= a + 1 /\ a + 1 < Cap + Cap => m = a + 1 - Cap)
    BY <1>1, ModCap
  <1>3. Inc(a) = m
    BY DEF Inc
  <1> HIDE DEF m
  <1> QED BY <1>1, <1>2, <1>3, ModCap

LEMMA DistanceIs ==
  ASSUME NEW a \in Slots, NEW b \in Slots
  PROVE  Distance(a, b) = IF a <= b THEN b - a ELSE b + Cap - a
  <1> DEFINE x == b + Cap - a
             m == x % Cap
  <1>1. a \in Nat /\ b \in Nat /\ a < Cap /\ b < Cap /\ x \in Nat /\ x < Cap + Cap
    BY ModCap DEF Slots
  <1>2. (x < Cap => m = x) /\ (Cap <= x /\ x < Cap + Cap => m = x - Cap)
    <2> HIDE DEF x
    <2> QED BY <1>1, ModCap
  <1>3. Distance(a, b) = m
    BY DEF Distance
  <1> HIDE DEF m
  <1> QED BY <1>1, <1>2, <1>3, ModCap

LEMMA Distances ==
  ASSUME NEW a \in Slots, NEW b \in Slots
  PROVE  /\ Inc(a) \in Slots /\ Inc(a) # a /\ Distance(Inc(a), a) = Cap - 1
         /\ Distance(a, b) \in Nat /\ Distance(a, b) < Cap
         /\ Distance(a, b) = 0 <=> a = b
         /\ Inc(b) # a => Distance(a, Inc(b)) = Distance(a, b) + 1
         /\ Inc(b) = a => Distance(a, b) = Cap - 1
         /\ a # b => Distance(Inc(a), b) = Distance(a, b) - 1
  <1>1. a \in Nat /\ b \in Nat /\ a < Cap /\ b < Cap /\ Cap \in Nat /\ Cap > 1
    BY ModCap DEF Slots
  <1>2. Inc(a) = IF a = Cap - 1 THEN 0 ELSE a + 1
    BY IncIs
  <1>3. Inc(b) = IF b = Cap - 1 THEN 0 ELSE b + 1
    BY IncIs
  <1>4. Inc(a) \in Slots /\ Inc(b) \in Slots
    BY <1>1, <1>2, <1>3 DEF Slots
  <1>5. /\ Distance(a, b) = IF a <= b THEN b - a ELSE b + Cap - a
        /\ Distance(a, Inc(b)) = IF a <= Inc(b) THEN Inc(b) - a ELSE Inc(b) + Cap - a
        /\ Distance(Inc(a), b) = IF Inc(a) <= b THEN b - Inc(a) ELSE b + Cap - Inc(a)
        /\ Distance(Inc(a), a) = IF Inc(a) <= a THEN a - Inc(a) ELSE a + Cap - Inc(a)
    BY <1>4, DistanceIs
  <1> QED BY <1>1, <1>2, <1>3, <1>4, <1>5

LEMMA SameDistance ==
  ASSUME NEW a \in Slots, NEW b \in Slots, NEW e \in Slots, Distance(a, b) = Distance(a, e)
  PROVE  b = e
  <1>1. a \in Nat /\ b \in Nat /\ a < Cap /\ b < Cap /\ Cap \in Nat /\ e \in Nat /\ e < Cap
    BY ModCap DEF Slots
  <1> QED BY <1>1, DistanceIs

LEMMA SameInc ==
  ASSUME NEW a \in Slots, NEW e \in Slots, Inc(a) = Inc(e)
  PROVE  a = e
  <1>1. a \in Nat /\ a < Cap /\ Cap \in Nat /\ e \in Nat /\ e < Cap
    BY ModCap DEF Slots
  <1> QED BY <1>1, IncIs

(* The slot of the i-th item of a ring whose first is in slot a. *)
LEMMA NthSlot ==
  ASSUME NEW a \in Slots, NEW i \in 1 .. Cap
  PROVE  /\ (a + i - 1) % Cap \in Slots /\ Distance(a, (a + i - 1) % Cap) = i - 1
         /\ i < Cap => (Inc(a) + i - 1) % Cap = (a + (i + 1) - 1) % Cap
  <1>1. a \in Nat /\ a < Cap /\ Cap \in Nat /\ Cap > 1 /\ i \in Nat /\ 1 <= i /\ i <= Cap
    BY ModCap DEF Slots
  <1> DEFINE x == a + i - 1
             m == x % Cap
  <1>2. x \in Nat /\ x < Cap + Cap
    BY <1>1
  <1>3. (x < Cap => m = x) /\ (Cap <= x /\ x < Cap + Cap => m = x - Cap)
    <2> HIDE DEF x
    <2> QED BY <1>2, ModCap
  <1>4. m \in Slots /\ Distance(a, m) = i - 1
    <2> HIDE DEF m
    <2>1. m \in Slots
      BY <1>1, <1>2, <1>3 DEF Slots
    <2>2. Distance(a, m) = IF a <= m THEN m - a ELSE m + Cap - a
      BY <2>1, DistanceIs
    <2> QED BY <1>1, <1>2, <1>3, <2>1, <2>2
  <1>5. ASSUME i < Cap PROVE (Inc(a) + i - 1) % Cap = (a + (i + 1) - 1) % Cap
    <2> DEFINE y == a + i
               z == Inc(a) + i - 1
    <2>1. Inc(a) = IF a = Cap - 1 THEN 0 ELSE a + 1
      BY IncIs
    <2>2. CASE a = Cap - 1
      <3>1. y \in Nat /\ Cap <= y /\ y < Cap + Cap /\ z \in Nat /\ z < Cap /\ z = y - Cap
        BY <1>1, <1>5, <2>1, <2>2
      <3>2. y % Cap = y - Cap /\ z % Cap = z
        <4> HIDE DEF y, z
        <4> QED BY <3>1, ModCap
      <3> QED BY <3>1, <3>2, <1>1
    <2>3. CASE a # Cap - 1
      BY <1>1, <2>1, <2>3
    <2> QED BY <2>2, <2>3
  <1> QED BY <1>4, <1>5
-----------------------------------------------------------------------------
(* The ring.  Steps that change a call and nothing else. *)
LEMMA Typed ==
  ASSUME RingInv
  PROVE  /\ d \in [Slots -> Items \cup {NoItem}] /\ whead \in Slots /\ wtail \in Slots /\ r \in Slots
         /\ call \in [Procs -> CallType]
         /\ Distance(r, wtail) \in Nat /\ Distance(r, whead) \in Nat
         /\ Distance(r, wtail) < Cap /\ Distance(r, whead) < Cap
         /\ Distance(r, wtail) <= Distance(r, whead)
         /\ \A p \in Writers : p \in Procs /\ p \notin Readers /\ call[p] \in CallType /\ WriterOK(call[p])
         /\ \A h \in Readers : h \in Procs /\ h \notin Writers /\ call[h] \in CallType /\ ReaderOK(call[h])
  <1>1. d \in [Slots -> Items \cup {NoItem}] /\ whead \in Slots /\ wtail \in Slots /\ r \in Slots
        /\ call \in [Procs -> CallType]
    BY DEF RingInv, RingTypeOK
  <1>2. \A p \in Writers : p \in Procs /\ p \notin Readers
    BY ProcAssumption DEF Procs
  <1>3. \A p \in Readers : p \in Procs /\ p \notin Writers
    BY ProcAssumption DEF Procs
  <1> QED BY <1>1, <1>2, <1>3, Distances DEF RingInv

LEMMA CallOnly ==
  ASSUME RingInv, NEW p \in Procs, NEW k \in CallType, call' = [call EXCEPT ![p] = k],
         UNCHANGED <<d, whead, wtail, r>>,
         p \in Writers => WriterOK(k), p \in Readers => ReaderOK(k),
         p \in Writers /\ k.pc \in Fills => call[p].pc \in Fills /\ k.old = call[p].old
  PROVE  RingInv' /\ call'[p] = k /\ \A q \in Procs : q # p => call'[q] = call[q]
  <1>1. call' \in [Procs -> CallType] /\ call'[p] = k /\ \A q \in Procs : q # p => call'[q] = call[q]
    BY Typed
  <1>2. RingTypeOK' /\ Distance(r, wtail)' <= Distance(r, whead)'
    BY <1>1 DEF RingInv, RingTypeOK, Distance, Slots, CallType, Procs
  <1>3. ASSUME NEW q \in Writers PROVE WriterOK(call[q])'
    <2>1. WriterOK(call'[q])
      BY <1>1, Typed
    <2> QED BY <2>1 DEF WriterOK, Reserved, Filled, Distance, Inc
  <1>4. ASSUME NEW q \in Readers PROVE ReaderOK(call[q])'
    <2>1. ReaderOK(call'[q])
      BY <1>1, Typed
    <2> QED BY <2>1 DEF ReaderOK
  <1>5. Apart'
    <2> SUFFICES ASSUME NEW q \in Writers, NEW u \in Writers, call'[q].pc \in Fills, call'[u].pc \in Fills,
                        call'[q].old = call'[u].old
                 PROVE  q = u
      BY DEF Apart, Fills
    <2>1. \A v \in {q, u} : call[v].pc \in Fills /\ call[v].old = call'[v].old
      BY <1>1, Typed
    <2> QED BY <2>1 DEF RingInv, Apart
  <1> QED BY <1>1, <1>2, <1>3, <1>4, <1>5 DEF RingInv

(* What the rest of the proof needs to know of a step in the ring. *)
Same == UNCHANGED <<r, wtail>> /\ \A s \in Slots : Filled(s) => d'[s] = d[s]
OnlyCall(p) == call' \in [Procs -> CallType] /\ \A q \in Procs : q # p => call'[q] = call[q]

LEMMA BeginWriteRing ==
  ASSUME RingInv, NEW p \in Writers, NEW x \in Items, BeginWrite(p, x)
  PROVE  RingInv' /\ OnlyCall(p) /\ Same /\ call'[p].pc = "load" /\ call'[p].item = x
  <1> DEFINE k == [NoCall EXCEPT !.pc = "load", !.item = x]
  <1>1. k \in CallType /\ k.pc = "load" /\ k.item = x
    <2>1. 0 \in Slots
      BY ModCap DEF Slots
    <2> QED BY <2>1 DEF NoCall, CallType
  <1>2. call' = [call EXCEPT ![p] = k] /\ UNCHANGED <<d, whead, wtail, r>>
    BY DEF BeginWrite
  <1> HIDE DEF k
  <1>3. WriterOK(k) /\ p \in Procs /\ p \notin Readers /\ k.pc \notin Fills
    BY <1>1, Typed DEF WriterOK, Fills
  <1>4. RingInv' /\ call'[p] = k /\ \A q \in Procs : q # p => call'[q] = call[q]
    BY <1>1, <1>2, <1>3, CallOnly
  <1> QED BY <1>1, <1>2, <1>4 DEF OnlyCall, Same, RingInv, RingTypeOK, Procs, CallType, Slots

LEMMA BeginReadRing ==
  ASSUME RingInv, NEW p \in Readers, BeginRead(p)
  PROVE  RingInv' /\ OnlyCall(p) /\ Same /\ call'[p].pc = "load"
  <1> DEFINE k == [NoCall EXCEPT !.pc = "load"]
  <1>1. k \in CallType /\ k.pc = "load"
    <2>1. 0 \in Slots
      BY ModCap DEF Slots
    <2> QED BY <2>1 DEF NoCall, CallType
  <1>2. call' = [call EXCEPT ![p] = k] /\ UNCHANGED <<d, whead, wtail, r>>
    BY DEF BeginRead
  <1> HIDE DEF k
  <1>3. ReaderOK(k) /\ p \in Procs /\ p \notin Writers
    BY <1>1, Typed DEF ReaderOK
  <1>4. RingInv' /\ call'[p] = k /\ \A q \in Procs : q # p => call'[q] = call[q]
    BY <1>1, <1>2, <1>3, CallOnly
  <1> QED BY <1>1, <1>2, <1>4 DEF OnlyCall, Same, RingInv, RingTypeOK, Procs, CallType, Slots
(* A writer's step: the item is put at the end when wtail passes its slot. *)
Puts(p) ==
    /\ UNCHANGED <<d, r>> /\ call[p].pc = "tail" /\ call'[p].pc = "written"
    /\ wtail' = Inc(wtail) /\ Reserved(wtail) /\ d[wtail] = call[p].item
WritesOn(p) ==
    /\ Same /\ call[p].pc \in {"load", "check", "cas", "store"}
    /\ call'[p].pc \in {"load", "check", "cas", "store", "tail", "refused"}
    /\ call'[p].pc = "refused" => call[p].pc = "check"
    /\ call'[p].pc # "refused" => call'[p].item = call[p].item

LEMMA WriteCallRing ==
  ASSUME RingInv, NEW p \in Writers,
         \/ WriteLoad(p) \/ WriteCheck(p)
         \/ WriteCas(p) /\ whead # call[p].old
  PROVE  RingInv' /\ OnlyCall(p) /\ WritesOn(p)
  <1>1. PICK k : /\ call' = [call EXCEPT ![p] = k] /\ UNCHANGED <<d, whead, wtail, r>>
                 /\ call[p].pc \in {"load", "check", "cas"}
                 /\ k \in CallType /\ k.pc \in {"load", "check", "cas", "refused"}
                 /\ k.pc = "refused" => call[p].pc = "check"
                 /\ k.pc # "refused" => k.item = call[p].item
                 /\ k.pc = "cas" => Inc(k.old) # r
    <2>0. p \in Procs /\ call \in [Procs -> CallType] /\ call[p] \in CallType /\ whead \in Slots /\ 0 \in Slots
      BY Typed, ModCap DEF Slots
    <2>1. CASE WriteLoad(p)
      <3> DEFINE k == [call[p] EXCEPT !.pc = "check", !.old = whead]
      <3>1. call' = [call EXCEPT ![p] = k] /\ UNCHANGED <<d, whead, wtail, r>> /\ call[p].pc = "load"
        BY <2>0, <2>1 DEF WriteLoad
      <3>2. k \in CallType /\ k.pc = "check" /\ k.item = call[p].item
        BY <2>0 DEF CallType
      <3> HIDE DEF k
      <3> QED BY <3>1, <3>2
    <2>2. CASE WriteCheck(p)
      <3> DEFINE kr == [NoCall EXCEPT !.pc = "refused"]
                 kc == [call[p] EXCEPT !.pc = "cas"]
      <3>1. /\ call' = [call EXCEPT ![p] = IF Inc(call[p].old) = r THEN kr ELSE kc]
            /\ UNCHANGED <<d, whead, wtail, r>> /\ call[p].pc = "check"
        BY <2>2 DEF WriteCheck
      <3>2. kr \in CallType /\ kr.pc = "refused"
        BY <2>0 DEF CallType, NoCall
      <3>3. kc \in CallType /\ kc.pc = "cas" /\ kc.item = call[p].item /\ kc.old = call[p].old
        BY <2>0 DEF CallType
      <3> HIDE DEF kr, kc
      <3>4. CASE Inc(call[p].old) = r
        BY <3>1, <3>2, <3>4
      <3>5. CASE Inc(call[p].old) # r
        BY <3>1, <3>3, <3>5
      <3> QED BY <3>4, <3>5
    <2>3. CASE WriteCas(p) /\ whead # call[p].old
      <3> DEFINE k == [call[p] EXCEPT !.pc = "load", !.old = 0]
      <3>1. call' = [call EXCEPT ![p] = k] /\ UNCHANGED <<d, whead, wtail, r>> /\ call[p].pc = "cas"
        BY <2>0, <2>3 DEF WriteCas
      <3>2. k \in CallType /\ k.pc = "load" /\ k.item = call[p].item
        BY <2>0 DEF CallType
      <3> HIDE DEF k
      <3> QED BY <3>1, <3>2
    <2> QED BY <2>1, <2>2, <2>3
  <1>2. WriterOK(k) /\ k.pc \notin Fills /\ p \in Procs /\ p \notin Readers
    BY <1>1, Typed DEF WriterOK, Fills
  <1>3. RingInv' /\ call'[p] = k /\ \A q \in Procs : q # p => call'[q] = call[q]
    BY <1>1, <1>2, CallOnly
  <1>4. call' \in [Procs -> CallType]
    BY <1>1, Typed
  <1> QED BY <1>1, <1>3, <1>4 DEF OnlyCall, WritesOn, Same

(* The slot at whead is reserved: no other writer has it. *)
LEMMA WriteCasRing ==
  ASSUME MayLap = FALSE, RingInv, NEW p \in Writers, WriteCas(p), whead = call[p].old
  PROVE  RingInv' /\ OnlyCall(p) /\ WritesOn(p)
  <1>0. /\ p \in Procs /\ call \in [Procs -> CallType] /\ call[p] \in CallType /\ whead \in Slots
        /\ wtail \in Slots /\ r \in Slots
    BY Typed
  <1> DEFINE k == [call[p] EXCEPT !.pc = "store"]
  <1>1. /\ call' = [call EXCEPT ![p] = k] /\ whead' = Inc(whead) /\ UNCHANGED <<d, wtail, r>>
        /\ call[p].pc = "cas" /\ NoLap(p, Writers, Inc(whead))
    BY <1>0 DEF WriteCas
  <1>2. k \in CallType /\ k.pc = "store" /\ k.item = call[p].item /\ k.old = whead
    BY <1>0 DEF CallType
  <1> HIDE DEF k
  <1>3. call' \in [Procs -> CallType] /\ call'[p] = k /\ \A q \in Procs : q # p => call'[q] = call[q]
    BY <1>0, <1>1, <1>2
  <1>4. Inc(whead) # r
    BY <1>1, Typed DEF WriterOK
  <1>5. /\ Inc(whead) \in Slots /\ Distance(r, Inc(whead)) = Distance(r, whead) + 1
        /\ Distance(r, wtail) <= Distance(r, whead) /\ Distance(r, whead) \in Nat
    BY <1>0, <1>4, Distances, Typed
  <1>6. RingTypeOK' /\ Distance(r, wtail)' <= Distance(r, whead)'
    BY <1>1, <1>3, <1>5, Typed DEF RingTypeOK, Distance, Slots, CallType, Procs
  <1>7. \A q \in Writers : q # p => call'[q] = call[q] /\ WriterOK(call[q]) /\ q \in Procs
    BY <1>3, Typed
  <1>8. ASSUME NEW q \in Writers PROVE WriterOK(call[q])'
    <2>1. CASE q = p
      <3>1. Distance(r, whead) < Distance(r, Inc(whead)) /\ ~(Distance(r, whead) < Distance(r, wtail))
        BY <1>5, Typed
      <3>2. k.pc = "store" /\ k.old = whead /\ call'[p] = k
        BY <1>2, <1>3
      <3> QED BY <1>1, <2>1, <3>1, <3>2 DEF WriterOK, Reserved, Filled, Fills, Distance
    <2>2. CASE q # p
      <3>1. call'[q] = call[q] /\ WriterOK(call[q]) /\ call[q] \in CallType
        BY <1>7, <2>2, Typed
      <3>2. call[q].pc = "cas" => call[q].old # Inc(whead)
        BY <1>1, <2>2 DEF NoLap
      <3>3. call[q].pc \in Fills => ~(Distance(r, call[q].old) < Distance(r, wtail))
                                    /\ Distance(r, call[q].old) < Distance(r, Inc(whead))
        <4>1. call[q].old \in Slots
          BY <3>1 DEF CallType
        <4>2. Distance(r, call[q].old) \in Nat
          BY <1>0, <4>1, Distances
        <4> QED BY <1>5, <3>1, <4>2 DEF WriterOK, Reserved, Filled
      <3> QED BY <1>1, <3>1, <3>2, <3>3 DEF WriterOK, Reserved, Filled, Distance
    <2> QED BY <2>1, <2>2
  <1>9. ASSUME NEW q \in Readers PROVE ReaderOK(call[q])'
    <2>1. call'[q] = call[q] /\ ReaderOK(call[q])
      BY <1>3, Typed
    <2> QED BY <1>1, <2>1 DEF ReaderOK
  <1>10. Apart'
    <2>1. ASSUME NEW q \in Writers, q # p, call'[q].pc \in Fills, call'[q].old = whead
          PROVE  FALSE
      <3>1. Reserved(whead)
        BY <1>7, <2>1 DEF WriterOK
      <3> QED BY <1>5, <3>1 DEF Reserved
    <2>2. ASSUME NEW q \in Writers, NEW u \in Writers, q # p, u # p, call'[q].pc \in Fills,
                 call'[u].pc \in Fills, call'[q].old = call'[u].old
          PROVE  q = u
      BY <1>7, <2>2 DEF RingInv, Apart
    <2> QED BY <1>2, <1>3, <2>1, <2>2 DEF Apart, Fills
  <1>11. OnlyCall(p) /\ WritesOn(p)
    BY <1>1, <1>2, <1>3 DEF OnlyCall, WritesOn, Same
  <1> QED BY <1>6, <1>8, <1>9, <1>10, <1>11 DEF RingInv
(* The slot that is filled is the writer's: what is complete stays. *)
LEMMA WriteStoreRing ==
  ASSUME RingInv, NEW p \in Writers, WriteStore(p)
  PROVE  RingInv' /\ OnlyCall(p) /\ WritesOn(p)
  <1>0. /\ p \in Procs /\ call \in [Procs -> CallType] /\ call[p] \in CallType /\ whead \in Slots
        /\ wtail \in Slots /\ r \in Slots /\ d \in [Slots -> Items \cup {NoItem}]
    BY Typed
  <1> DEFINE k == [call[p] EXCEPT !.pc = "tail"]
             o == call[p].old
  <1>1. /\ call' = [call EXCEPT ![p] = k] /\ d' = [d EXCEPT ![o] = call[p].item] /\ UNCHANGED <<whead, wtail, r>>
        /\ call[p].pc = "store"
    BY <1>0 DEF WriteStore
  <1>2. k \in CallType /\ k.pc = "tail" /\ k.item = call[p].item /\ k.old = o
    BY <1>0 DEF CallType
  <1>3. o \in Slots /\ call[p].item \in Items \cup {NoItem} /\ Reserved(o)
    BY <1>0, <1>1, Typed DEF CallType, WriterOK, Fills
  <1> HIDE DEF k
  <1>4. call' \in [Procs -> CallType] /\ call'[p] = k /\ \A q \in Procs : q # p => call'[q] = call[q]
    BY <1>0, <1>1, <1>2
  <1>5. d' \in [Slots -> Items \cup {NoItem}] /\ d'[o] = call[p].item /\ \A s \in Slots : s # o => d'[s] = d[s]
    BY <1>0, <1>1, <1>3
  <1>6. RingTypeOK' /\ Distance(r, wtail)' <= Distance(r, whead)'
    BY <1>1, <1>4, <1>5, Typed DEF RingTypeOK, Distance, Slots, CallType, Procs
  <1>7. ASSUME NEW q \in Writers, q # p
        PROVE  call'[q] = call[q] /\ WriterOK(call[q]) /\ call[q].old \in Slots
               /\ (call[q].pc \in Fills => call[q].old # o)
    <2>1. call'[q] = call[q] /\ WriterOK(call[q]) /\ call[q].old \in Slots
      BY <1>4, <1>7, Typed DEF CallType
    <2>2. call[q].pc \in Fills => call[q].old # o
      BY <1>1, <1>7 DEF RingInv, Apart, Fills
    <2> QED BY <2>1, <2>2
  <1>8. ASSUME NEW q \in Writers PROVE WriterOK(call[q])'
    <2>1. CASE q = p
      BY <1>1, <1>2, <1>3, <1>4, <1>5, <2>1 DEF WriterOK, Reserved, Filled, Fills, Distance
    <2>2. CASE q # p
      BY <1>1, <1>5, <1>7, <2>2 DEF WriterOK, Reserved, Filled, Fills, Distance, Inc
    <2> QED BY <2>1, <2>2
  <1>9. ASSUME NEW q \in Readers PROVE ReaderOK(call[q])'
    <2>1. call'[q] = call[q] /\ ReaderOK(call[q])
      BY <1>4, Typed
    <2>2. r # wtail => r # o
      <3>1. Distance(r, r) = 0
        BY <1>0, Distances
      <3>2. Distance(r, wtail) \in Nat /\ (r # wtail => Distance(r, wtail) # 0)
        BY <1>0, Distances
      <3> QED BY <1>3, <3>1, <3>2 DEF Reserved, Filled
    <2>3. r # wtail => d'[r] = d[r]
      BY <1>0, <1>5, <2>2
    <2>4. call[q].pc = "cas" /\ call[q].old = r => r # wtail
      BY <2>1 DEF ReaderOK
    <2> QED BY <1>1, <2>1, <2>3, <2>4 DEF ReaderOK
  <1>10. Apart'
    <2>1. call'[p].old = call[p].old /\ call[p].pc \in Fills
      BY <1>1, <1>2, <1>4 DEF Fills
    <2>2. \A q \in Writers : call'[q].pc \in Fills => call[q].pc \in Fills /\ call'[q].old = call[q].old
      BY <1>7, <2>1
    <2> QED BY <2>2 DEF RingInv, Apart, Fills
  <1>11. Same
    BY <1>1, <1>3, <1>5 DEF Same, Reserved
  <1>12. OnlyCall(p) /\ WritesOn(p)
    BY <1>1, <1>2, <1>4, <1>11 DEF OnlyCall, WritesOn
  <1> QED BY <1>6, <1>8, <1>9, <1>10, <1>12 DEF RingInv

(* wtail passes the slot of the writer that it waits for, and no other one's. *)
LEMMA WriteTailRing ==
  ASSUME RingInv, NEW p \in Writers, WriteTail(p)
  PROVE  RingInv' /\ OnlyCall(p) /\ Puts(p)
  <1>0. /\ p \in Procs /\ call \in [Procs -> CallType] /\ call[p] \in CallType /\ whead \in Slots
        /\ wtail \in Slots /\ r \in Slots
    BY Typed
  <1> DEFINE k == [NoCall EXCEPT !.pc = "written"]
  <1>1. /\ call' = [call EXCEPT ![p] = k] /\ wtail' = Inc(wtail) /\ UNCHANGED <<d, whead, r>>
        /\ call[p].pc = "tail" /\ wtail = call[p].old
    BY <1>0 DEF WriteTail
  <1>2. k \in CallType /\ k.pc = "written"
    <2>1. 0 \in Slots
      BY ModCap DEF Slots
    <2> QED BY <2>1 DEF CallType, NoCall
  <1> HIDE DEF k
  <1>3. Reserved(wtail) /\ d[wtail] = call[p].item
    BY <1>0, <1>1, Typed DEF WriterOK, Fills
  <1>4. call' \in [Procs -> CallType] /\ call'[p] = k /\ \A q \in Procs : q # p => call'[q] = call[q]
    BY <1>0, <1>1, <1>2
  <1>5. /\ Inc(wtail) \in Slots /\ Distance(r, Inc(wtail)) = Distance(r, wtail) + 1
        /\ Distance(r, Inc(wtail)) <= Distance(r, whead)
    <2>1. Distance(r, wtail) < Distance(r, whead) /\ Distance(r, whead) < Cap
          /\ {Distance(r, wtail), Distance(r, whead)} \subseteq Nat
      BY <1>3, Typed DEF Reserved
    <2>2. Inc(wtail) # r
      BY <1>0, <2>1, ModCap, Distances
    <2>3. Inc(wtail) \in Slots /\ Distance(r, Inc(wtail)) = Distance(r, wtail) + 1
      BY <1>0, <2>2, Distances
    <2> QED BY <2>1, <2>3
  <1>6. RingTypeOK' /\ Distance(r, wtail)' <= Distance(r, whead)'
    BY <1>1, <1>4, <1>5, Typed DEF RingTypeOK, Distance, Slots, CallType, Procs
  <1>7. ASSUME NEW q \in Writers, q # p PROVE WriterOK(call[q])'
    <2>1. call'[q] = call[q] /\ WriterOK(call[q]) /\ call[q].old \in Slots
      BY <1>4, <1>7, Typed DEF CallType
    <2>2. ASSUME call[q].pc \in Fills PROVE ~(Distance(r, call[q].old) < Distance(r, Inc(wtail)))
      <3>1. call[q].old # wtail
        BY <1>1, <1>7, <2>2 DEF RingInv, Apart, Fills
      <3>2. ~(Distance(r, call[q].old) < Distance(r, wtail)) /\ Distance(r, call[q].old) # Distance(r, wtail)
        BY <1>0, <2>1, <2>2, <3>1, SameDistance DEF WriterOK, Reserved, Filled
      <3>3. Distance(r, call[q].old) \in Nat /\ Distance(r, wtail) \in Nat
        BY <1>0, <2>1, Distances
      <3> QED BY <1>5, <3>2, <3>3
    <2> QED BY <1>1, <2>1, <2>2 DEF WriterOK, Reserved, Filled, Distance, Inc
  <1>8. WriterOK(call[p])'
    BY <1>2, <1>4 DEF WriterOK, Fills
  <1>9. ASSUME NEW q \in Readers PROVE ReaderOK(call[q])'
    <2>1. call'[q] = call[q] /\ ReaderOK(call[q])
      BY <1>4, Typed
    <2>2. Inc(wtail) # r
      <3>1. Distance(r, wtail) \in Nat
        BY Typed
      <3>2. Distance(r, r) = 0
        BY <1>0, Distances
      <3> QED BY <1>5, <3>1, <3>2
    <2> QED BY <1>1, <2>1, <2>2 DEF ReaderOK
  <1>10. Apart'
    <2>1. \A q \in Writers : call'[q].pc \in Fills => q # p /\ call'[q] = call[q]
      BY <1>2, <1>4, Typed DEF Fills
    <2> QED BY <2>1 DEF RingInv, Apart, Fills
  <1>11. OnlyCall(p) /\ Puts(p)
    BY <1>1, <1>2, <1>3, <1>4 DEF OnlyCall, Puts
  <1> QED BY <1>6, <1>7, <1>8, <1>9, <1>10, <1>11 DEF RingInv

(* A reader's step: the first item is taken when r passes its slot. *)
Takes(p) ==
    /\ UNCHANGED <<d, wtail>> /\ call[p].pc = "cas" /\ call'[p].pc = "read"
    /\ r' = Inc(r) /\ r # wtail /\ call'[p].item = d[r]
ReadsOn(p) ==
    /\ Same /\ call[p].pc \in {"load", "check", "get", "cas"}
    /\ call'[p].pc \in {"load", "check", "get", "cas", "empty"}

LEMMA ReadCallRing ==
  ASSUME RingInv, NEW p \in Readers,
         \/ ReadLoad(p) \/ ReadCheck(p) \/ ReadGet(p)
         \/ ReadCas(p) /\ r # call[p].old
  PROVE  RingInv' /\ OnlyCall(p) /\ ReadsOn(p)
  <1>1. PICK k : /\ call' = [call EXCEPT ![p] = k] /\ UNCHANGED <<d, whead, wtail, r>>
                 /\ call[p].pc \in {"load", "check", "get", "cas"}
                 /\ k \in CallType /\ k.pc \in {"load", "check", "get", "cas", "empty"}
                 /\ ReaderOK(k)
    <2>0. /\ p \in Procs /\ call \in [Procs -> CallType] /\ call[p] \in CallType /\ r \in Slots /\ 0 \in Slots
          /\ d \in [Slots -> Items \cup {NoItem}] /\ ReaderOK(call[p])
      BY Typed, ModCap DEF Slots
    <2>1. CASE ReadLoad(p)
      <3> DEFINE k == [call[p] EXCEPT !.pc = "check", !.old = r]
      <3>1. call' = [call EXCEPT ![p] = k] /\ UNCHANGED <<d, whead, wtail, r>> /\ call[p].pc = "load"
        BY <2>0, <2>1 DEF ReadLoad
      <3>2. k \in CallType /\ k.pc = "check"
        BY <2>0 DEF CallType
      <3> HIDE DEF k
      <3> QED BY <3>1, <3>2 DEF ReaderOK
    <2>2. CASE ReadCheck(p)
      <3> DEFINE ke == [NoCall EXCEPT !.pc = "empty"]
                 kg == [call[p] EXCEPT !.pc = "get"]
      <3>1. /\ call' = [call EXCEPT ![p] = IF call[p].old = wtail THEN ke ELSE kg]
            /\ UNCHANGED <<d, whead, wtail, r>> /\ call[p].pc = "check"
        BY <2>2 DEF ReadCheck
      <3>2. ke \in CallType /\ ke.pc = "empty"
        BY <2>0 DEF CallType, NoCall
      <3>3. kg \in CallType /\ kg.pc = "get" /\ kg.old = call[p].old
        BY <2>0 DEF CallType
      <3> HIDE DEF ke, kg
      <3>4. CASE call[p].old = wtail
        BY <3>1, <3>2, <3>4 DEF ReaderOK
      <3>5. CASE call[p].old # wtail
        BY <3>1, <3>3, <3>5 DEF ReaderOK
      <3> QED BY <3>4, <3>5
    <2>3. CASE ReadGet(p)
      <3> DEFINE k == [call[p] EXCEPT !.pc = "cas", !.item = d[call[p].old]]
      <3>1. call' = [call EXCEPT ![p] = k] /\ UNCHANGED <<d, whead, wtail, r>> /\ call[p].pc = "get"
        BY <2>0, <2>3 DEF ReadGet
      <3>2. d[call[p].old] \in Items \cup {NoItem}
        BY <2>0 DEF CallType
      <3>3. k \in CallType /\ k.pc = "cas" /\ k.old = call[p].old /\ k.item = d[call[p].old]
        BY <2>0, <3>2 DEF CallType
      <3> HIDE DEF k
      <3> QED BY <2>0, <3>1, <3>3 DEF ReaderOK
    <2>4. CASE ReadCas(p) /\ r # call[p].old
      <3> DEFINE k == [NoCall EXCEPT !.pc = "load"]
      <3>1. call' = [call EXCEPT ![p] = k] /\ UNCHANGED <<d, whead, wtail, r>> /\ call[p].pc = "cas"
        BY <2>4 DEF ReadCas
      <3>2. k \in CallType /\ k.pc = "load"
        BY <2>0 DEF CallType, NoCall
      <3> HIDE DEF k
      <3> QED BY <3>1, <3>2 DEF ReaderOK
    <2> QED BY <2>1, <2>2, <2>3, <2>4
  <1>2. p \in Procs /\ p \notin Writers
    BY Typed
  <1>3. RingInv' /\ call'[p] = k /\ \A q \in Procs : q # p => call'[q] = call[q]
    BY <1>1, <1>2, CallOnly
  <1>4. call' \in [Procs -> CallType]
    BY <1>1, Typed
  <1> QED BY <1>1, <1>3, <1>4 DEF OnlyCall, ReadsOn, Same

(* What the reader has got is still the first item, and there is one. *)
LEMMA ReadCasRing ==
  ASSUME MayLap = FALSE, RingInv, NEW p \in Readers, ReadCas(p), r = call[p].old
  PROVE  RingInv' /\ OnlyCall(p) /\ Takes(p)
  <1>0. /\ p \in Procs /\ call \in [Procs -> CallType] /\ call[p] \in CallType /\ whead \in Slots
        /\ wtail \in Slots /\ r \in Slots /\ ReaderOK(call[p])
    BY Typed
  <1> DEFINE k == [NoCall EXCEPT !.pc = "read", !.item = call[p].item]
  <1>1. /\ call' = [call EXCEPT ![p] = k] /\ r' = Inc(r) /\ UNCHANGED <<d, whead, wtail>>
        /\ call[p].pc = "cas" /\ NoLap(p, Readers, Inc(r))
    BY <1>0 DEF ReadCas
  <1>2. k \in CallType /\ k.pc = "read" /\ k.item = call[p].item
    <2>1. 0 \in Slots
      BY ModCap DEF Slots
    <2> QED BY <1>0, <2>1 DEF CallType, NoCall
  <1> HIDE DEF k
  <1>3. r # wtail /\ call[p].item = d[r]
    BY <1>0, <1>1 DEF ReaderOK
  <1>4. call' \in [Procs -> CallType] /\ call'[p] = k /\ \A q \in Procs : q # p => call'[q] = call[q]
    BY <1>0, <1>1, <1>2
  <1>5. /\ {Distance(r, wtail), Distance(r, whead)} \subseteq Nat /\ Distance(r, wtail) > 0
        /\ Distance(r, wtail) <= Distance(r, whead) /\ Inc(r) \in Slots
        /\ \A s \in Slots \ {r} : /\ Distance(Inc(r), s) = Distance(r, s) - 1
                                  /\ Distance(r, s) \in Nat
    <2>1. {Distance(r, wtail), Distance(r, whead)} \subseteq Nat /\ Distance(r, wtail) <= Distance(r, whead)
      BY Typed
    <2>2. Distance(r, wtail) # 0 /\ Inc(r) \in Slots
      BY <1>0, <1>3, Distances
    <2>3. \A s \in Slots \ {r} : Distance(Inc(r), s) = Distance(r, s) - 1 /\ Distance(r, s) \in Nat
      BY <1>0, Distances
    <2> QED BY <2>1, <2>2, <2>3
  <1>6. r # whead /\ Distance(r, r) = 0
    BY <1>0, <1>5, Distances
  <1>7. /\ Distance(Inc(r), wtail) = Distance(r, wtail) - 1
        /\ Distance(Inc(r), whead) = Distance(r, whead) - 1
    BY <1>0, <1>3, <1>5, <1>6
  <1>8. RingTypeOK' /\ Distance(r, wtail)' <= Distance(r, whead)'
    <2>1. Distance(r, wtail)' <= Distance(r, whead)'
      BY <1>1, <1>5, <1>7 DEF Distance
    <2> QED BY <1>1, <1>4, <1>5, <2>1, Typed DEF RingTypeOK, Slots, CallType, Procs
  <1>9. ASSUME NEW q \in Writers PROVE WriterOK(call[q])'
    <2>1. call'[q] = call[q] /\ WriterOK(call[q]) /\ call[q].old \in Slots
      BY <1>4, Typed DEF CallType
    <2>2. ASSUME call[q].pc \in Fills
          PROVE  /\ ~(Distance(Inc(r), call[q].old) < Distance(Inc(r), wtail))
                 /\ Distance(Inc(r), call[q].old) < Distance(Inc(r), whead)
      <3>1. ~(Distance(r, call[q].old) < Distance(r, wtail)) /\ Distance(r, call[q].old) < Distance(r, whead)
        BY <2>1, <2>2 DEF WriterOK, Reserved, Filled
      <3>2. call[q].old # r
        BY <1>5, <1>6, <3>1
      <3> QED BY <1>5, <1>7, <2>1, <3>1, <3>2
    <2>3. Inc(whead) # Inc(r)
      BY <1>0, <1>6, SameInc
    <2> QED BY <1>1, <2>1, <2>2, <2>3 DEF WriterOK, Reserved, Filled, Distance
  <1>10. ASSUME NEW q \in Readers PROVE ReaderOK(call[q])'
    <2>1. CASE q = p
      BY <1>2, <1>4, <2>1 DEF ReaderOK
    <2>2. CASE q # p
      <3>1. call'[q] = call[q] /\ ReaderOK(call[q])
        BY <1>4, <2>2, Typed
      <3>2. call[q].pc \in {"get", "cas"} => call[q].old # Inc(r)
        BY <1>1, <2>2 DEF NoLap
      <3> QED BY <1>1, <3>1, <3>2 DEF ReaderOK
    <2> QED BY <2>1, <2>2
  <1>11. Apart'
    <2>1. \A q \in Writers : call'[q] = call[q]
      BY <1>4, Typed
    <2> QED BY <2>1 DEF RingInv, Apart, Fills
  <1>12. OnlyCall(p) /\ Takes(p)
    BY <1>1, <1>2, <1>3, <1>4 DEF OnlyCall, Takes
  <1> QED BY <1>8, <1>9, <1>10, <1>11, <1>12 DEF RingInv

(* A write that goes on. *)
LEMMA WriteStepRing ==
  ASSUME MayLap = FALSE, RingInv, NEW p \in Writers, WriteStep(p)
  PROVE  RingInv' /\ OnlyCall(p) /\ (WritesOn(p) \/ Puts(p))
  BY WriteCallRing, WriteCasRing, WriteStoreRing, WriteTailRing DEF WriteStep

(* A read that goes on. *)
LEMMA ReadStepRing ==
  ASSUME MayLap = FALSE, RingInv, NEW p \in Readers, ReadStep(p)
  PROVE  RingInv' /\ OnlyCall(p) /\ (ReadsOn(p) \/ Takes(p))
  BY ReadCallRing, ReadCasRing DEF ReadStep
-----------------------------------------------------------------------------
(* The pool.  What is assumed of the constants, one by one. *)
LEMMA Assumed ==
  /\ MaxThreads \in Nat /\ MaxThreads > 0 /\ Readers = 1 .. MaxThreads
  /\ Budget \in Nat /\ Items = 1 .. Budget /\ NoItem \notin Items
  /\ \A p \in Writers : p \in Procs /\ p \notin Readers
  /\ \A h \in Readers : h \in Procs /\ h \notin Writers
  BY PoolAssumption, ProcAssumption DEF Procs

LEMMA Known ==
  ASSUME PoolTypes
  PROVE  /\ at \in [Procs -> AtType] /\ task \in Seq(TaskType) /\ Len(task) \in Nat /\ Len(task) <= Budget
         /\ nthreads \in Nat /\ nthreads <= MaxThreads /\ sem \in Nat
         /\ \A p \in Writers : at[p] \in AtType /\ at[p].pc \in UserPcs
         /\ \A h \in Readers : at[h] \in AtType /\ at[h].pc \in ThreadPcs
         /\ \A t \in 1 .. Len(task) : t \in Items /\ t # NoItem /\ t \in Nat /\ task[t] \in TaskType
  <1>1. task \in Seq(TaskType) /\ Len(task) \in Nat /\ Len(task) <= Budget
    BY DEF PoolTypes
  <1>2. \A t \in 1 .. Len(task) : t \in Items /\ t # NoItem /\ t \in Nat /\ task[t] \in TaskType
    BY <1>1, Assumed
  <1>3. nthreads \in Nat /\ nthreads <= MaxThreads
    BY Assumed DEF PoolTypes
  <1> QED BY <1>1, <1>2, <1>3, Assumed DEF PoolTypes

(* The three kinds of places. *)
LEMMA HeldIs ==
  ASSUME NEW A, NEW D, NEW R, NEW W
  PROVE  /\ \A p \in Writers : /\ <<"w", p>> \in Holders
                               /\ Held(A, D, R, W)[<<"w", p>>] = IF A[p].pc = "write" THEN A[p].t ELSE NoItem
         /\ \A s \in Slots : /\ <<"s", s>> \in Holders
                             /\ Held(A, D, R, W)[<<"s", s>>] =
                                   IF Distance(R, s) < Distance(R, W) THEN D[s] ELSE NoItem
         /\ \A h \in Readers : <<"h", h>> \in Holders /\ Held(A, D, R, W)[<<"h", h>>] = A[h].t
  BY DEF Held, Holders

LEMMA HolderIs ==
  ASSUME NEW x \in Holders
  PROVE  \/ \E p \in Writers : x = <<"w", p>>
         \/ \E s \in Slots : x = <<"s", s>>
         \/ \E h \in Readers : x = <<"h", h>>
  BY DEF Holders

(* Places: nothing moves, a task moves from one to another that was empty, a task
   comes, a task goes. *)
Loses(x) == held'[x] = NoItem /\ \A z \in Holders : z # x => held'[z] = held[z]
Gains(x, t) == held[x] = NoItem /\ held'[x] = t /\ \A z \in Holders : z # x => held'[z] = held[z]
Moves(x, y) ==
    /\ x # y /\ held[y] = NoItem /\ held'[x] = NoItem /\ held'[y] = held[x]
    /\ \A z \in Holders : z # x /\ z # y => held'[z] = held[z]

LEMMA LosesOnce == ASSUME HeldInv, NEW x \in Holders, Loses(x), Len(task') = Len(task) PROVE HeldInv'
  BY DEF HeldInv, Once, Loses, Holders, Slots

LEMMA MovesOnce ==
  ASSUME HeldInv, NEW x \in Holders, NEW y \in Holders, Moves(x, y), Len(task') = Len(task)
  PROVE  HeldInv'
  BY DEF HeldInv, Once, Moves, Holders, Slots

LEMMA GainsOnce ==
  ASSUME HeldInv, NEW x \in Holders, Len(task) \in Nat, Gains(x, Len(task) + 1), Len(task') = Len(task) + 1
  PROVE  HeldInv'
  <1>1. \A z \in Holders : z # x => held'[z] = held[z] /\ (held[z] = NoItem \/ held[z] \in 1 .. Len(task))
    BY DEF Gains, HeldInv
  <1>2. held'[x] = Len(task) + 1
    BY DEF Gains
  <1>3. Once(held)'
    BY <1>1, <1>2 DEF HeldInv, Once, Holders, Slots
  <1> QED BY <1>1, <1>2, <1>3 DEF HeldInv, Holders, Slots
(* A step of one process. *)
AtOnly(p) == at' \in [Procs -> AtType] /\ \A q \in Procs : q # p => at'[q] = at[q]

LEMMA AtSet ==
  ASSUME PoolTypes, NEW p \in Procs, NEW k \in AtType, at' = [at EXCEPT ![p] = k]
  PROVE  AtOnly(p) /\ at'[p] = k
  BY Known DEF AtOnly

LEMMA RingRests ==
  ASSUME RingInv, UNCHANGED ring
  PROVE  RingInv' /\ Same /\ UNCHANGED call /\ \A p \in Procs : OnlyCall(p)
  <1>1. UNCHANGED <<d, whead, wtail, r, call>>
    BY DEF ring
  <1>2. RingInv'
    BY <1>1 DEF RingInv, RingTypeOK, Distance, Slots, CallType, Procs, WriterOK, ReaderOK, Reserved, Filled,
                Inc, Apart, Fills
  <1> QED BY <1>1, <1>2, Typed DEF Same, OnlyCall

LEMMA UserPlace ==
  ASSUME IInv, NEW p \in Writers, AtOnly(p), Same
  PROVE  /\ \A x \in Holders : x # <<"w", p>> => held'[x] = held[x]
         /\ \A x \in Holders : Done(x)' <=> Done(x)
         /\ <<"w", p>> \in Holders /\ ~Done(<<"w", p>>)
         /\ held[<<"w", p>>] = IF at[p].pc = "write" THEN at[p].t ELSE NoItem
         /\ held'[<<"w", p>>] = IF at'[p].pc = "write" THEN at'[p].t ELSE NoItem
  <1>1. \A q \in Writers : q # p => at'[q] = at[q]
    BY Assumed DEF AtOnly
  <1>2. \A h \in Readers : at'[h] = at[h]
    BY Assumed DEF AtOnly
  <1>3. UNCHANGED <<r, wtail>> /\ \A s \in Slots : Distance(r, s) < Distance(r, wtail) => d'[s] = d[s]
    BY DEF Same, Filled
  <1>4. held = Held(at, d, r, wtail) /\ held' = Held(at', d', r', wtail')
    BY DEF held
  <1>5. ASSUME NEW x \in Holders, x # <<"w", p>> PROVE held'[x] = held[x]
    <2>1. CASE \E q \in Writers : x = <<"w", q>>
      BY <1>1, <1>4, <1>5, <2>1, HeldIs
    <2>2. CASE \E s \in Slots : x = <<"s", s>>
      BY <1>3, <1>4, <2>2, HeldIs
    <2>3. CASE \E h \in Readers : x = <<"h", h>>
      BY <1>2, <1>4, <2>3, HeldIs
    <2> QED BY <2>1, <2>2, <2>3, HolderIs
  <1>6. ASSUME NEW x \in Holders PROVE Done(x)' <=> Done(x)
    <2>1. CASE \E h \in Readers : x = <<"h", h>>
      BY <1>2, <2>1 DEF Done
    <2>2. CASE x[1] # "h"
      BY <2>2 DEF Done
    <2> QED BY <2>1, <2>2, HolderIs
  <1>7. ~Done(<<"w", p>>)
    BY DEF Done
  <1> QED BY <1>4, <1>5, <1>6, <1>7, HeldIs

LEMMA ThreadPlace ==
  ASSUME IInv, NEW p \in Readers, AtOnly(p), Same
  PROVE  /\ \A x \in Holders : x # <<"h", p>> => held'[x] = held[x] /\ (Done(x)' <=> Done(x))
         /\ <<"h", p>> \in Holders
         /\ Done(<<"h", p>>) <=> at[p].pc = "free"
         /\ Done(<<"h", p>>)' <=> at'[p].pc = "free"
         /\ held[<<"h", p>>] = at[p].t /\ held'[<<"h", p>>] = at'[p].t
  <1>1. \A q \in Readers : q # p => at'[q] = at[q]
    BY Assumed DEF AtOnly
  <1>2. \A h \in Writers : at'[h] = at[h]
    BY Assumed DEF AtOnly
  <1>3. UNCHANGED <<r, wtail>> /\ \A s \in Slots : Distance(r, s) < Distance(r, wtail) => d'[s] = d[s]
    BY DEF Same, Filled
  <1>4. held = Held(at, d, r, wtail) /\ held' = Held(at', d', r', wtail')
    BY DEF held
  <1>5. ASSUME NEW x \in Holders, x # <<"h", p>> PROVE held'[x] = held[x] /\ (Done(x)' <=> Done(x))
    <2>1. CASE \E q \in Writers : x = <<"w", q>>
      BY <1>2, <1>4, <2>1, HeldIs DEF Done
    <2>2. CASE \E s \in Slots : x = <<"s", s>>
      BY <1>3, <1>4, <2>2, HeldIs DEF Done
    <2>3. CASE \E h \in Readers : x = <<"h", h>>
      BY <1>1, <1>4, <1>5, <2>3, HeldIs DEF Done
    <2> QED BY <2>1, <2>2, <2>3, HolderIs
  <1> QED BY <1>4, <1>5, HeldIs DEF Done

LEMMA UserLocal ==
  ASSUME IInv, NEW p \in Writers, AtOnly(p), OnlyCall(p), UNCHANGED nthreads, UserInv(p)'
  PROVE  LocalInv'
  <1>1. \A q \in Writers \cup Readers : q # p => at'[q] = at[q] /\ call'[q] = call[q]
    BY Assumed DEF AtOnly, OnlyCall
  <1>2. \A q \in Writers : UserInv(q)'
    BY <1>1 DEF IInv, LocalInv, UserInv
  <1>3. \A h \in Readers : ThreadInv(h)'
    BY <1>1, Assumed DEF IInv, LocalInv, ThreadInv
  <1> QED BY <1>2, <1>3 DEF LocalInv

LEMMA ThreadLocal ==
  ASSUME IInv, NEW p \in Readers, AtOnly(p), OnlyCall(p), UNCHANGED nthreads, ThreadInv(p)'
  PROVE  LocalInv'
  <1>1. \A q \in Writers \cup Readers : q # p => at'[q] = at[q] /\ call'[q] = call[q]
    BY Assumed DEF AtOnly, OnlyCall
  <1>2. \A q \in Writers : UserInv(q)'
    BY <1>1, Assumed DEF IInv, LocalInv, UserInv
  <1>3. \A h \in Readers : ThreadInv(h)'
    BY <1>1 DEF IInv, LocalInv, ThreadInv
  <1> QED BY <1>2, <1>3 DEF LocalInv

(* Tasks that a step does not touch. *)
LEMMA RefRests ==
  ASSUME IInv, NEW u \in 1 .. Len(task), task'[u].ref = task[u].ref, task'[u].owner = task[u].owner,
         task'[u].freed <=> task[u].freed, task'[u].runs = task[u].runs,
         \A x \in Holders : (held'[x] = u <=> held[x] = u) /\ (held[x] = u /\ Done(x) => Done(x)')
  PROVE  RefInv(u)'
  <1>1. RefInv(u)
    BY DEF IInv, TaskInv
  <1>2. IsHeld(held', u) <=> IsHeld(held, u)
    BY DEF IsHeld
  <1>6. Users(task'[u]) = Users(task[u])
    BY DEF Users
  <1>3. \A x \in Holders : held'[x] = u => task'[u].runs = 0 \/ Done(x)'
    BY <1>1 DEF RefInv
  <1>4. RefInv(u)' <=> /\ task'[u].ref = Users(task'[u]) + IF IsHeld(held', u) THEN 1 ELSE 0
                       /\ task'[u].freed <=> task'[u].ref = 0
                       /\ \A x \in Holders : held'[x] = u => task'[u].runs = 0 \/ Done(x)'
    BY DEF RefInv, Users, IsHeld, Holders, Slots
  <1> HIDE DEF RefInv
  <1>5. /\ task[u].ref = Users(task[u]) + IF IsHeld(held, u) THEN 1 ELSE 0
        /\ task[u].freed <=> task[u].ref = 0
    BY <1>1 DEF RefInv
  <1> QED BY <1>2, <1>3, <1>4, <1>5, <1>6

LEMMA AddRests ==
  ASSUME IInv, Len(task') >= Len(task), Len(task') \in Nat,
         \A q \in Writers : at'[q].pc # "idle" =>
            /\ at[q].pc # "idle" /\ at'[q].t = at[q].t
            /\ task'[at[q].t].owner = task[at[q].t].owner /\ task'[at[q].t].added = task[at[q].t].added
  PROVE  AddInv'
  <1>1. Len(task) \in Nat
    BY Known DEF IInv
  <1>2. ASSUME NEW q \in Writers, at'[q].pc # "idle"
        PROVE  /\ at'[q].t \in 1 .. Len(task') /\ task'[at'[q].t].owner = "held" /\ task'[at'[q].t].added = "pending"
               /\ at[q].pc # "idle" /\ at'[q].t = at[q].t
    <2>1. /\ at[q].t \in 1 .. Len(task) /\ task[at[q].t].owner = "held" /\ task[at[q].t].added = "pending"
          /\ at[q].pc # "idle" /\ at'[q].t = at[q].t
      BY <1>2 DEF IInv, TaskInv, AddInv
    <2>2. at[q].t \in 1 .. Len(task')
      <3>1. \A m, n \in Nat : n >= m => 1 .. m \subseteq 1 .. n
        OBVIOUS
      <3> QED BY <1>1, <2>1, <3>1
    <2>3. task'[at[q].t].owner = "held" /\ task'[at[q].t].added = "pending"
      BY <1>2, <2>1
    <2> QED BY <2>1, <2>2, <2>3
  <1>3. ASSUME NEW p \in Writers, NEW q \in Writers, at'[p].pc # "idle", at'[q].pc # "idle", at'[p].t = at'[q].t
        PROVE  p = q
    BY <1>2, <1>3 DEF IInv, TaskInv, AddInv
  <1> QED BY <1>2, <1>3 DEF AddInv

LEMMA TasksRest ==
  ASSUME IInv, UNCHANGED task,
         \A x \in Holders : held'[x] = held[x] /\ (held[x] # NoItem /\ Done(x) => Done(x)'),
         \A q \in Writers : at'[q].pc # "idle" => at[q].pc # "idle" /\ at'[q].t = at[q].t
  PROVE  TaskInv'
  <1>1. HeldInv'
    BY DEF IInv, TaskInv, HeldInv, Once, Holders, Slots
  <1>2. \A u \in 1 .. Len(task) : RefInv(u)'
    BY RefRests, Known DEF IInv
  <1>3. AddInv'
    BY AddRests, Known DEF IInv
  <1> QED BY <1>1, <1>2, <1>3 DEF TaskInv

LEMMA SemRests ==
  ASSUME IInv, UNCHANGED main, AddedTasks' = AddedTasks, sem' \in Nat, sem' <= sem,
         \A p \in Writers : at'[p].pc # "idle" => main = "run" \/ at[p].pc # "idle"
  PROVE  SemInv'
  <1>1. Cardinality(AddedTasks)' = Cardinality(AddedTasks) /\ sem \in Nat
    BY Known DEF IInv
  <1>2. IsFiniteSet(AddedTasks)
    <2>1. AddedTasks \subseteq 1 .. Len(task) /\ Len(task) \in Nat
      BY Known DEF IInv, AddedTasks
    <2>2. IsFiniteSet(1 .. Len(task))
      BY <2>1, FS_Interval
    <2> QED BY <2>1, <2>2, FS_Subset
  <1>3. Cardinality(AddedTasks) \in Nat
    BY <1>2, FS_CardinalityType
  <1>4. sem <= Cardinality(AddedTasks) + IF main \in {"run", "post"} THEN 0 ELSE MaxThreads
    BY DEF IInv, SemInv
  <1> DEFINE c == Cardinality(AddedTasks)
             e == IF main \in {"run", "post"} THEN 0 ELSE MaxThreads
  <1>5. e \in Nat /\ e' = e /\ c' = c /\ c \in Nat /\ sem <= c + e
    BY <1>1, <1>3, <1>4, Assumed
  <1>6. sem' <= c' + e'
    <2> HIDE DEF c, e
    <2> QED BY <1>1, <1>5
  <1>7. main' # "run" => \A p \in Writers : at'[p].pc = "idle"
    BY DEF IInv, SemInv
  <1> QED BY <1>6, <1>7 DEF SemInv
LEMMA AtPc ==
  ASSUME PoolTypes, NEW p \in Procs, NEW c \in UserPcs \cup ThreadPcs, at' = [at EXCEPT ![p].pc = c]
  PROVE  AtOnly(p) /\ at'[p].pc = c /\ at'[p].t = at[p].t
  <1> DEFINE k == [at[p] EXCEPT !.pc = c]
  <1>1. k \in AtType /\ k.pc = c /\ k.t = at[p].t
    BY Known DEF AtType
  <1>2. at' = [at EXCEPT ![p] = k]
    BY Known
  <1> HIDE DEF k
  <1> QED BY <1>1, <1>2, AtSet

LEMMA IdleIs == Idle \in AtType /\ Idle.pc = "idle" /\ Idle.t = NoItem
  BY DEF Idle, AtType, UserPcs

LEMMA TypesRest ==
  ASSUME PoolTypes, NEW p \in Procs, AtOnly(p),
         p \in Writers => at'[p].pc \in UserPcs, p \in Readers => at'[p].pc \in ThreadPcs,
         UNCHANGED <<nthreads, end>>, sem' \in Nat, task' \in Seq(TaskType), Len(task') <= Budget
  PROVE  PoolTypes'
  <1>1. \A q \in Procs : q # p => at'[q] = at[q]
    BY DEF AtOnly
  <1>2. \A q \in Writers : at'[q].pc \in UserPcs
    BY <1>1, Assumed DEF PoolTypes
  <1>3. \A q \in Readers : at'[q].pc \in ThreadPcs
    BY <1>1, Assumed DEF PoolTypes
  <1>4. UNCHANGED <<stop, main, joined, late>>
    BY DEF end
  <1>5. at' \in [Procs -> AtType]
    BY DEF AtOnly
  <1> QED BY <1>2, <1>3, <1>4, <1>5 DEF PoolTypes, AtType, TaskType, Procs

(* Changes of one task. *)
TaskOnly(t) ==
    task' \in Seq(TaskType) /\ Len(task') = Len(task) /\ \A u \in 1 .. Len(task) : u # t => task'[u] = task[u]

LEMMA TaskSet ==
  ASSUME PoolTypes, NEW t \in 1 .. Len(task), NEW k \in TaskType, task' = [task EXCEPT ![t] = k]
  PROVE  TaskOnly(t) /\ task'[t] = k
  <1>1. task \in Seq(TaskType)
    BY Known
  <1>2. task' \in Seq(TaskType) /\ Len(task') = Len(task) /\ task'[t] = k
        /\ \A u \in 1 .. Len(task) : u # t => task'[u] = task[u]
    BY <1>1
  <1> QED BY <1>2 DEF TaskOnly

(* ffthpool_task_free(). *)
LEMMA DropIs ==
  ASSUME NEW k \in TaskType, k.ref # 0
  PROVE  /\ Drop(k) \in TaskType /\ Drop(k).ref = k.ref - 1 /\ (Drop(k).freed <=> k.ref = 1)
         /\ Drop(k).owner = k.owner /\ Drop(k).added = k.added /\ Drop(k).runs = k.runs
  <1> DEFINE b == k.ref = 1
             n == k.ref - 1
  <1>1. b \in BOOLEAN /\ n \in 0 .. 2
    BY DEF TaskType
  <1>2. Drop(k) = [k EXCEPT !.ref = n, !.freed = b]
    BY DEF Drop
  <1> HIDE DEF b, n
  <1>3. /\ Drop(k) \in TaskType /\ Drop(k).ref = n /\ Drop(k).freed = b
        /\ Drop(k).owner = k.owner /\ Drop(k).added = k.added /\ Drop(k).runs = k.runs
    BY <1>1, <1>2 DEF TaskType
  <1> QED BY <1>3 DEF b, n

LEMMA PresentRests ==
  ASSUME IInv, Same,
         \A h \in Readers : at'[h].pc \in {"handler", "free"} =>
            at[h].pc \in {"handler", "free"} /\ at'[h].t = at[h].t
  PROVE  Present'
  <1>1. \A s \in Slots : (Filled(s)' <=> Filled(s)) /\ (Filled(s) => d'[s] = d[s])
    BY DEF Same, Filled, Distance
  <1>2. \A s \in Slots : Filled(s)' => d'[s] # NoItem
    BY <1>1 DEF IInv, Present
  <1>3. \A h \in Readers : at'[h].pc \in {"handler", "free"} => at'[h].t # NoItem
    BY DEF IInv, Present
  <1> QED BY <1>2, <1>3 DEF Present, Slots

-----------------------------------------------------------------------------
(* Steps that touch no task.  A user goes on, with the task that it has. *)
LEMMA UserGoesOn ==
  ASSUME IInv, NEW p \in Writers, RingInv', OnlyCall(p), AtOnly(p), Same,
         at'[p].pc \in UserPcs, at[p].pc # "idle", at'[p].t = at[p].t,
         at'[p].pc = "write" <=> at[p].pc = "write", UserInv(p)', UNCHANGED <<nthreads, sem, end, task>>
  PROVE  IInv'
  <1>1. PoolTypes'
    BY TypesRest, Known, Assumed DEF IInv
  <1>2. LocalInv'
    BY UserLocal
  <1>3. TaskInv'
    <2>1. \A x \in Holders : held'[x] = held[x] /\ (Done(x) => Done(x)')
      BY UserPlace
    <2>2. \A q \in Writers : at'[q].pc # "idle" => at[q].pc # "idle" /\ at'[q].t = at[q].t
      BY Assumed DEF AtOnly
    <2> QED BY <2>1, <2>2, TasksRest
  <1>4. SemInv'
    <2>1. \A q \in Writers : at'[q].pc # "idle" => at[q].pc # "idle"
      BY Assumed DEF AtOnly
    <2>2. UNCHANGED main /\ AddedTasks' = AddedTasks /\ sem' \in Nat /\ sem' <= sem
      BY Known DEF IInv, end, AddedTasks
    <2> QED BY <2>1, <2>2, SemRests
  <1>5. Present'
    BY PresentRests, Assumed DEF AtOnly
  <1> QED BY <1>1, <1>2, <1>3, <1>4, <1>5 DEF IInv

(* A thread goes on, with the task that it has or without one. *)
LEMMA ThreadGoesOn ==
  ASSUME IInv, NEW h \in Readers, RingInv', OnlyCall(h), AtOnly(h), Same,
         at'[h].pc \in ThreadPcs, at'[h].t = at[h].t, at[h].pc # "free",
         at'[h].pc \notin {"handler", "free"},
         ThreadInv(h)', sem' \in Nat, sem' <= sem, UNCHANGED <<nthreads, end, task>>
  PROVE  IInv'
  <1>1. PoolTypes'
    BY TypesRest, Known, Assumed DEF IInv
  <1>2. LocalInv'
    BY ThreadLocal
  <1>3. \A q \in Writers : at'[q] = at[q]
    BY Assumed DEF AtOnly
  <1>4. TaskInv'
    <2>1. \A x \in Holders : held'[x] = held[x] /\ (Done(x) => Done(x)')
      BY ThreadPlace
    <2> QED BY <1>3, <2>1, TasksRest
  <1>5. SemInv'
    <2>1. UNCHANGED main /\ AddedTasks' = AddedTasks
      BY DEF end, AddedTasks
    <2> QED BY <1>3, <2>1, SemRests
  <1>6. Present'
    BY PresentRests, Assumed DEF AtOnly
  <1> QED BY <1>1, <1>2, <1>4, <1>5, <1>6 DEF IInv

(* A step of the main thread, which touches neither the ring nor a process. *)
LEMMA MainGoesOn ==
  ASSUME IInv, UNCHANGED <<ring, at, nthreads, task>>
  PROVE  RingInv' /\ LocalInv' /\ Present' /\ TaskInv'
  <1>1. RingInv' /\ Same /\ UNCHANGED call
    BY RingRests DEF IInv
  <1>2. LocalInv'
    BY <1>1 DEF IInv, LocalInv, UserInv, ThreadInv
  <1>3. \A x \in Holders : held'[x] = held[x] /\ (Done(x) => Done(x)')
    <2>1. held' = held
      BY DEF ring, held, Held, Distance, Holders, Slots
    <2> QED BY <2>1 DEF Done
  <1>4. TaskInv'
    BY <1>3, TasksRest
  <1>5. Present'
    BY <1>1, PresentRests
  <1> QED BY <1>1, <1>2, <1>4, <1>5

LEMMA StutterKeeps == ASSUME IInv, UNCHANGED vars PROVE IInv'
  <1>1. UNCHANGED <<ring, at, nthreads, sem, stop, main, joined, late, task>>
    BY DEF vars, pool, end
  <1>2. PoolTypes'
    BY <1>1 DEF IInv, PoolTypes, AtType, TaskType, Procs
  <1>3. SemInv'
    <2>1. AddedTasks' = AddedTasks /\ sem' \in Nat /\ sem' <= sem
      BY <1>1, Known DEF IInv, AddedTasks
    <2>2. \A p \in Writers : at'[p].pc # "idle" => at[p].pc # "idle"
      BY <1>1
    <2> QED BY <1>1, <2>1, <2>2, SemRests
  <1> QED BY <1>1, <1>2, <1>3, MainGoesOn DEF IInv

LEMMA DecideKeeps == ASSUME IInv, NEW p \in Writers, Decide(p) PROVE IInv'
  <1>1. PICK c \in {"thread", "post"} : at' = [at EXCEPT ![p].pc = c]
    BY DEF Decide
  <1>2. AtOnly(p) /\ at'[p].pc = c /\ at'[p].t = at[p].t
    BY <1>1, AtPc, Assumed DEF IInv, UserPcs
  <1>3. RingInv' /\ Same /\ UNCHANGED call /\ OnlyCall(p)
    BY RingRests, Assumed DEF Decide, IInv
  <1>4. UserInv(p)'
    <2>1. UserInv(p) /\ at[p].pc = "decide"
      BY DEF IInv, LocalInv, Decide
    <2> QED BY <1>2, <1>3, <2>1 DEF UserInv
  <1>5. at[p].pc = "decide" /\ UNCHANGED <<nthreads, sem, end, task>>
    BY DEF Decide
  <1>6. at'[p].pc \in UserPcs /\ (at'[p].pc = "write" <=> at[p].pc = "write")
    BY <1>2, <1>5 DEF UserPcs
  <1> QED BY <1>2, <1>3, <1>4, <1>5, <1>6, UserGoesOn

LEMMA LoopKeeps == ASSUME IInv, NEW h \in Readers, Loop(h) PROVE IInv'
  <1>1. at[h].pc = "loop" /\ UNCHANGED <<nthreads, sem, end, task>> /\ sem \in Nat /\ RingInv
    BY Known DEF Loop, IInv
  <1>2. ThreadInv(h) /\ h \in Procs
    BY Assumed DEF IInv, LocalInv
  <1>3. CASE stop
    <2>1. AtOnly(h) /\ at'[h].pc = "exit" /\ at'[h].t = at[h].t
      BY <1>2, <1>3, AtPc DEF IInv, Loop, Goto, ThreadPcs
    <2>2. RingInv' /\ Same /\ UNCHANGED call /\ OnlyCall(h)
      BY <1>2, <1>3, RingRests DEF Loop, IInv
    <2>3. ThreadInv(h)'
      BY <1>1, <1>2, <2>1, <2>2 DEF ThreadInv
    <2> QED BY <1>1, <2>1, <2>2, <2>3, ThreadGoesOn DEF ThreadPcs
  <1>4. CASE ~stop
    <2>1. AtOnly(h) /\ at'[h].pc = "read" /\ at'[h].t = at[h].t
      BY <1>2, <1>4, AtPc DEF IInv, Loop, Goto, ThreadPcs
    <2>2. RingInv' /\ OnlyCall(h) /\ Same /\ call'[h].pc = "load"
      BY <1>1, <1>4, BeginReadRing DEF Loop
    <2>3. ThreadInv(h)'
      BY <1>1, <1>2, <2>1, <2>2 DEF ThreadInv
    <2> QED BY <1>1, <2>1, <2>2, <2>3, ThreadGoesOn DEF ThreadPcs
  <1> QED BY <1>3, <1>4

LEMMA WaitKeeps == ASSUME IInv, NEW h \in Readers, Wait(h) PROVE IInv'
  <1>1. at[h].pc = "wait" /\ UNCHANGED <<ring, nthreads, end, task>> /\ sem \in Nat /\ sem > 0 /\ sem' = sem - 1
    BY Known DEF Wait, IInv
  <1>2. ThreadInv(h) /\ h \in Procs
    BY Assumed DEF IInv, LocalInv
  <1>3. AtOnly(h) /\ at'[h].pc = "loop" /\ at'[h].t = at[h].t
    BY <1>2, AtPc DEF IInv, Wait, Goto, ThreadPcs
  <1>4. RingInv' /\ Same /\ UNCHANGED call /\ OnlyCall(h)
    BY <1>1, <1>2, RingRests DEF IInv
  <1>5. ThreadInv(h)'
    BY <1>1, <1>2, <1>3, <1>4 DEF ThreadInv
  <1>6. sem' \in Nat /\ sem' <= sem
    BY <1>1
  <1> QED BY <1>1, <1>3, <1>4, <1>5, <1>6, ThreadGoesOn DEF ThreadPcs
-----------------------------------------------------------------------------
(* A task that moves keeps its references. *)
LEMMA MovedTasks ==
  ASSUME IInv, UNCHANGED task, NEW x \in Holders, NEW y \in Holders, Moves(x, y), ~Done(x),
         \A z \in Holders : z # x /\ z # y /\ Done(z) => Done(z)',
         \A q \in Writers : at'[q].pc # "idle" => at[q].pc # "idle" /\ at'[q].t = at[q].t
  PROVE  TaskInv'
  <1>1. HeldInv'
    BY MovesOnce DEF IInv, TaskInv
  <1>2. ASSUME NEW u \in 1 .. Len(task) PROVE RefInv(u)'
    <2>1. u # NoItem
      BY Known DEF IInv
    <2>2. CASE held[x] # u
      <3>1. \A z \in Holders : (held'[z] = u <=> held[z] = u) /\ (held[z] = u /\ Done(z) => Done(z)')
        BY <2>1, <2>2 DEF Moves
      <3> QED BY <3>1, RefRests
    <2>3. CASE held[x] = u
      <3>1. RefInv(u)
        BY DEF IInv, TaskInv
      <3>2. IsHeld(held', u) /\ IsHeld(held, u)
        BY <2>3 DEF IsHeld, Moves
      <3>3. task[u].runs = 0
        BY <2>3, <3>1 DEF RefInv
      <3>4. RefInv(u)' <=> /\ task'[u].ref = Users(task'[u]) + IF IsHeld(held', u) THEN 1 ELSE 0
                           /\ task'[u].freed <=> task'[u].ref = 0
                           /\ \A z \in Holders : held'[z] = u => task'[u].runs = 0 \/ Done(z)'
        BY DEF RefInv, Users, IsHeld, Holders, Slots
      <3>5. /\ task[u].ref = Users(task[u]) + IF IsHeld(held, u) THEN 1 ELSE 0
            /\ task[u].freed <=> task[u].ref = 0
        BY <3>1 DEF RefInv
      <3> QED BY <3>2, <3>3, <3>4, <3>5
    <2> QED BY <2>2, <2>3
  <1>3. AddInv'
    BY AddRests, Known DEF IInv
  <1> QED BY <1>1, <1>2, <1>3 DEF TaskInv

(* The task goes from its user into the last slot of the ring. *)
LEMMA PutMoves ==
  ASSUME IInv, NEW p \in Writers, AtOnly(p), at[p].pc = "write", at'[p].pc # "write", Puts(p), wtail' \in Slots
  PROVE  /\ Moves(<<"w", p>>, <<"s", wtail>>) /\ <<"w", p>> \in Holders /\ <<"s", wtail>> \in Holders
         /\ ~Done(<<"w", p>>) /\ \A z \in Holders : Done(z)' <=> Done(z)
  <1>1. /\ call[p].item = at[p].t /\ wtail \in Slots /\ r \in Slots /\ d[wtail] = call[p].item
        /\ UNCHANGED <<d, r>> /\ wtail' = Inc(wtail) /\ Reserved(wtail)
    BY Typed DEF IInv, LocalInv, UserInv, Puts
  <1>2. Distance(r, wtail) \in Nat /\ Distance(r, Inc(wtail)) = Distance(r, wtail) + 1
    <2>1. Inc(wtail) # r
      <3>1. Distance(r, whead) < Cap /\ Distance(r, wtail) < Distance(r, whead) /\ Distance(r, whead) \in Nat
        BY <1>1, Typed DEF Reserved, IInv
      <3> QED BY <1>1, <3>1, ModCap, Distances
    <2> QED BY <1>1, <2>1, Distances
  <1>3. held = Held(at, d, r, wtail) /\ held' = Held(at', d', r', wtail')
    BY DEF held
  <1>4. held[<<"w", p>>] = at[p].t /\ held'[<<"w", p>>] = NoItem
    BY <1>3, HeldIs
  <1>5. held[<<"s", wtail>>] = NoItem /\ held'[<<"s", wtail>>] = at[p].t
    BY <1>1, <1>2, <1>3, HeldIs
  <1>6. ASSUME NEW z \in Holders, z # <<"w", p>>, z # <<"s", wtail>> PROVE held'[z] = held[z]
    <2>1. CASE \E q \in Writers : z = <<"w", q>>
      BY <1>3, <1>6, <2>1, HeldIs, Assumed DEF AtOnly
    <2>2. CASE \E s \in Slots : z = <<"s", s>>
      <3>1. PICK s \in Slots : z = <<"s", s>>
        BY <2>2
      <3>2. Distance(r, s) \in Nat /\ Distance(r, s) # Distance(r, wtail)
        <4>1. s # wtail
          BY <1>6, <3>1
        <4>2. Distance(r, s) = Distance(r, wtail) => s = wtail
          BY <1>1, SameDistance
        <4> QED BY <1>1, <4>1, <4>2, Distances
      <3>3. Distance(r, s) < Distance(r, Inc(wtail)) <=> Distance(r, s) < Distance(r, wtail)
        BY <1>2, <3>2
      <3> QED BY <1>1, <1>3, <3>1, <3>3, HeldIs
    <2>3. CASE \E h \in Readers : z = <<"h", h>>
      BY <1>3, <2>3, HeldIs, Assumed DEF AtOnly
    <2> QED BY <2>1, <2>2, <2>3, HolderIs
  <1>7. \A z \in Holders : Done(z)' <=> Done(z)
    <2>1. ASSUME NEW h \in Readers PROVE at'[h] = at[h]
      BY Assumed DEF AtOnly
    <2>2. ASSUME NEW z \in Holders PROVE Done(z)' <=> Done(z)
      <3>1. CASE \E h \in Readers : z = <<"h", h>>
        BY <2>1, <3>1 DEF Done
      <3>2. CASE z[1] # "h"
        BY <3>2 DEF Done
      <3> QED BY <3>1, <3>2, HolderIs
    <2> QED BY <2>2
  <1>8. <<"w", p>> # <<"s", wtail>> /\ ~Done(<<"w", p>>)
    BY DEF Done
  <1> QED BY <1>1, <1>4, <1>5, <1>6, <1>7, <1>8, HeldIs DEF Moves

(* The task goes from the first slot of the ring to the thread. *)
LEMMA TakeMoves ==
  ASSUME IInv, NEW h \in Readers, AtOnly(h), at[h].pc = "read", at'[h].t = call'[h].item, Takes(h)
  PROVE  /\ Moves(<<"s", r>>, <<"h", h>>) /\ <<"s", r>> \in Holders /\ <<"h", h>> \in Holders
         /\ ~Done(<<"s", r>>) /\ \A z \in Holders : z # <<"h", h>> => (Done(z)' <=> Done(z))
  <1>1. /\ wtail \in Slots /\ r \in Slots /\ at[h].t = NoItem /\ call'[h].item = d[r]
        /\ UNCHANGED <<d, wtail>> /\ r' = Inc(r) /\ r # wtail
    BY Typed DEF IInv, LocalInv, ThreadInv, Takes
  <1>2. /\ Distance(r, r) = 0 /\ Distance(r, wtail) \in Nat /\ Distance(r, wtail) # 0
        /\ Distance(Inc(r), wtail) = Distance(r, wtail) - 1
        /\ Distance(Inc(r), r) = Cap - 1 /\ Distance(r, wtail) < Cap
    BY <1>1, Distances
  <1>3. held = Held(at, d, r, wtail) /\ held' = Held(at', d', r', wtail')
    BY DEF held
  <1>4. held[<<"h", h>>] = NoItem /\ held'[<<"h", h>>] = d[r]
    BY <1>1, <1>3, HeldIs
  <1>5. held[<<"s", r>>] = d[r] /\ held'[<<"s", r>>] = NoItem
    <2>1. Distance(r, r) < Distance(r, wtail) /\ ~(Distance(Inc(r), r) < Distance(Inc(r), wtail))
      BY <1>2, ModCap
    <2> QED BY <1>1, <1>3, <2>1, HeldIs
  <1>6. ASSUME NEW z \in Holders, z # <<"h", h>>, z # <<"s", r>> PROVE held'[z] = held[z]
    <2>1. CASE \E q \in Writers : z = <<"w", q>>
      BY <1>3, <2>1, HeldIs, Assumed DEF AtOnly
    <2>2. CASE \E s \in Slots : z = <<"s", s>>
      <3>1. PICK s \in Slots : z = <<"s", s>>
        BY <2>2
      <3>2. Distance(Inc(r), s) = Distance(r, s) - 1 /\ Distance(r, s) \in Nat
        BY <1>1, <1>6, <3>1, Distances
      <3>3. Distance(Inc(r), s) < Distance(Inc(r), wtail) <=> Distance(r, s) < Distance(r, wtail)
        BY <1>2, <3>2
      <3> QED BY <1>1, <1>3, <3>1, <3>3, HeldIs
    <2>3. CASE \E g \in Readers : z = <<"h", g>>
      BY <1>3, <1>6, <2>3, HeldIs, Assumed DEF AtOnly
    <2> QED BY <2>1, <2>2, <2>3, HolderIs
  <1>7. ASSUME NEW z \in Holders, z # <<"h", h>> PROVE Done(z)' <=> Done(z)
    <2>1. CASE \E g \in Readers : z = <<"h", g>>
      BY <1>7, <2>1, Assumed DEF Done, AtOnly
    <2>2. CASE z[1] # "h"
      BY <2>2 DEF Done
    <2> QED BY <2>1, <2>2, HolderIs
  <1>8. <<"s", r>> # <<"h", h>> /\ ~Done(<<"s", r>>)
    BY DEF Done
  <1> QED BY <1>1, <1>4, <1>5, <1>6, <1>7, <1>8, HeldIs DEF Moves

LEMMA WritingKeeps == ASSUME MayLap = FALSE, IInv, NEW p \in Writers, Writing(p) PROVE IInv'
  <1>1. /\ at[p].pc = "write" /\ UNCHANGED <<nthreads, sem, end, task>> /\ call'[p].pc # "refused"
        /\ p \in Procs /\ UserInv(p) /\ RingInv
    BY Assumed DEF Writing, IInv, LocalInv
  <1>2. RingInv' /\ OnlyCall(p) /\ (WritesOn(p) \/ Puts(p))
    BY <1>1, WriteStepRing DEF Writing
  <1>3. PICK c \in UserPcs : /\ at' = [at EXCEPT ![p].pc = c]
                             /\ c = IF call'[p].pc = "written" THEN "decide" ELSE "write"
    BY DEF Writing, UserPcs
  <1>4. AtOnly(p) /\ at'[p].pc = c /\ at'[p].t = at[p].t
    BY <1>1, <1>3, AtPc DEF IInv
  <1>5. CASE WritesOn(p)
    <2>1. c = "write" /\ Same
      BY <1>3, <1>5 DEF WritesOn
    <2>2. UserInv(p)'
      BY <1>1, <1>4, <1>5, <2>1 DEF UserInv, WritesOn
    <2> QED BY <1>1, <1>2, <1>4, <2>1, <2>2, UserGoesOn
  <1>6. CASE Puts(p)
    <2>1. c = "decide" /\ call'[p].pc = "written"
      BY <1>3, <1>6 DEF Puts
    <2>2. UserInv(p)'
      BY <1>4, <2>1 DEF UserInv
    <2>3. PoolTypes'
      BY <1>1, <1>4, TypesRest, Known, Assumed DEF IInv
    <2>4. LocalInv'
      BY <1>1, <1>2, <1>4, <2>2, UserLocal
    <2>5. TaskInv'
      <3>1. wtail' \in Slots
        BY <1>2 DEF RingInv, RingTypeOK, Slots
      <3>2. \A q \in Writers : at'[q].pc # "idle" => at[q].pc # "idle" /\ at'[q].t = at[q].t
        BY <1>1, <1>4, Assumed DEF AtOnly
      <3>3. /\ Moves(<<"w", p>>, <<"s", wtail>>) /\ <<"w", p>> \in Holders /\ <<"s", wtail>> \in Holders
            /\ ~Done(<<"w", p>>) /\ \A z \in Holders : Done(z)' <=> Done(z)
        BY <1>1, <1>4, <1>6, <2>1, <3>1, PutMoves
      <3> QED BY <1>1, <3>2, <3>3, MovedTasks
    <2>6. SemInv'
      <3>1. \A q \in Writers : at'[q].pc # "idle" => at[q].pc # "idle"
        BY <1>1, <1>4, Assumed DEF AtOnly
      <3>2. UNCHANGED main /\ AddedTasks' = AddedTasks /\ sem' \in Nat /\ sem' <= sem
        BY <1>1, Known DEF IInv, end, AddedTasks
      <3> QED BY <3>1, <3>2, SemRests
    <2>7. Present'
      <3>1. \A h \in Readers : at'[h] = at[h]
        BY <1>4, Assumed DEF AtOnly
      <3>2. d[wtail] # NoItem /\ wtail \in Slots /\ r \in Slots /\ UNCHANGED <<d, r>> /\ wtail' = Inc(wtail)
        <4>1. d[wtail] = at[p].t /\ at[p].t \in 1 .. Len(task)
          BY <1>1, <1>6 DEF Puts, UserInv, IInv, TaskInv, AddInv
        <4> QED BY <1>1, <1>6, <4>1, Typed, Known DEF Puts, IInv
      <3>3. Distance(r, wtail) \in Nat /\ Distance(r, Inc(wtail)) = Distance(r, wtail) + 1
        <4>1. Inc(wtail) # r
          <5>1. Distance(r, whead) < Cap /\ Distance(r, wtail) < Distance(r, whead) /\ Distance(r, whead) \in Nat
            BY <1>1, <1>6, Typed DEF Reserved, Puts
          <5> QED BY <3>2, <5>1, ModCap, Distances
        <4> QED BY <3>2, <4>1, Distances
      <3>4. ASSUME NEW s \in Slots, Filled(s)' PROVE d'[s] # NoItem
        <4>1. CASE s = wtail
          BY <3>2, <4>1
        <4>2. CASE s # wtail
          <5>1. Distance(r, s) \in Nat /\ (Distance(r, s) = Distance(r, wtail) => s = wtail)
            <6>1. Distance(r, s) = Distance(r, wtail) => s = wtail
              BY <3>2, SameDistance
            <6> QED BY <3>2, <6>1, Distances
          <5>2. Distance(r, s) < Distance(r, Inc(wtail))
            BY <3>2, <3>4 DEF Filled, Distance
          <5>3. Filled(s)
            BY <3>3, <4>2, <5>1, <5>2 DEF Filled
          <5> QED BY <3>2, <5>3 DEF IInv, Present
        <4> QED BY <4>1, <4>2
      <3> QED BY <3>1, <3>4 DEF IInv, Present, Slots
    <2> QED BY <1>2, <2>3, <2>4, <2>5, <2>6, <2>7 DEF IInv
  <1> QED BY <1>2, <1>5, <1>6

LEMMA ReadingKeeps == ASSUME MayLap = FALSE, IInv, NEW h \in Readers, Reading(h) PROVE IInv'
  <1>1. /\ at[h].pc = "read" /\ UNCHANGED <<nthreads, sem, end, task>>
        /\ h \in Procs /\ ThreadInv(h) /\ RingInv /\ sem \in Nat /\ PoolTypes
    BY Assumed, Known DEF Reading, IInv, LocalInv
  <1>2. RingInv' /\ OnlyCall(h) /\ (ReadsOn(h) \/ Takes(h))
    BY <1>1, ReadStepRing DEF Reading
  <1>3. CASE ReadsOn(h)
    <2>1. Same /\ call'[h].pc # "read"
      BY <1>3 DEF ReadsOn
    <2>2. AtOnly(h) /\ at'[h].t = at[h].t /\ at'[h].pc = IF call'[h].pc = "empty" THEN "wait" ELSE "read"
      <3>1. CASE call'[h].pc = "empty"
        <4>1. at' = [at EXCEPT ![h].pc = "wait"]
          BY <3>1 DEF Reading
        <4> QED BY <1>1, <3>1, <4>1, AtPc DEF ThreadPcs
      <3>2. CASE call'[h].pc # "empty"
        <4>1. at' = at
          BY <2>1, <3>2 DEF Reading
        <4> QED BY <1>1, <3>2, <4>1, Known DEF AtOnly
      <3> QED BY <3>1, <3>2
    <2>3. ThreadInv(h)'
      BY <1>1, <1>3, <2>2 DEF ThreadInv, ReadsOn
    <2>4. at'[h].pc \in ThreadPcs /\ sem' \in Nat /\ sem' <= sem
      BY <1>1, <2>2 DEF ThreadPcs
    <2> QED BY <1>1, <1>2, <2>1, <2>2, <2>3, <2>4, ThreadGoesOn
  <1>4. CASE Takes(h)
    <2> DEFINE k == [at[h] EXCEPT !.pc = "handler", !.t = call'[h].item]
    <2>1. call'[h].pc = "read" /\ call'[h].item \in Items \cup {NoItem}
      BY <1>1, <1>2, <1>4 DEF Takes, OnlyCall, CallType
    <2>2. k \in AtType /\ k.pc = "handler" /\ k.t = call'[h].item
      BY <1>1, <2>1, Known DEF AtType, ThreadPcs
    <2>3. at' = [at EXCEPT ![h] = k]
      BY <1>1, <2>1, Known DEF Reading
    <2> HIDE DEF k
    <2>4. AtOnly(h) /\ at'[h].pc = "handler" /\ at'[h].t = call'[h].item
      BY <1>1, <2>2, <2>3, AtSet
    <2>5. ThreadInv(h)'
      BY <1>1, <2>1, <2>4 DEF ThreadInv
    <2>6. PoolTypes'
      BY <1>1, <2>4, TypesRest, Known, Assumed DEF ThreadPcs
    <2>7. LocalInv'
      BY <1>1, <1>2, <2>4, <2>5, ThreadLocal
    <2>8. \A q \in Writers : at'[q] = at[q]
      BY <2>4, Assumed DEF AtOnly
    <2>9. TaskInv'
      <3>1. /\ Moves(<<"s", r>>, <<"h", h>>) /\ <<"s", r>> \in Holders /\ <<"h", h>> \in Holders
            /\ ~Done(<<"s", r>>) /\ \A z \in Holders : z # <<"h", h>> => (Done(z)' <=> Done(z))
        BY <1>1, <1>4, <2>4, TakeMoves
      <3> QED BY <1>1, <2>8, <3>1, MovedTasks
    <2>10. SemInv'
      <3>1. UNCHANGED main /\ AddedTasks' = AddedTasks /\ sem' \in Nat /\ sem' <= sem
        BY <1>1 DEF end, AddedTasks
      <3> QED BY <2>8, <3>1, SemRests
    <2>11. Present'
      <3>1. \A g \in Readers : g # h => at'[g] = at[g]
        BY <2>4, Assumed DEF AtOnly
      <3>2. /\ wtail \in Slots /\ r \in Slots /\ UNCHANGED <<d, wtail>> /\ r' = Inc(r) /\ r # wtail
            /\ at'[h].t = d[r]
        BY <1>1, <1>4, <2>4, Typed DEF Takes
      <3>3. /\ Distance(r, r) = 0 /\ Distance(r, wtail) \in Nat /\ Distance(r, wtail) # 0
            /\ Distance(Inc(r), wtail) = Distance(r, wtail) - 1 /\ Distance(r, wtail) < Cap
            /\ Distance(Inc(r), r) = Cap - 1
        BY <3>2, Distances
      <3>4. d[r] # NoItem
        <4>1. Filled(r)
          BY <3>3 DEF Filled
        <4> QED BY <3>2, <4>1 DEF IInv, Present
      <3>5. ASSUME NEW s \in Slots, Filled(s)' PROVE d'[s] # NoItem
        <4>1. Distance(Inc(r), s) < Distance(Inc(r), wtail)
          BY <3>2, <3>5 DEF Filled, Distance
        <4>2. CASE s = r
          BY <3>3, <4>1, <4>2, ModCap
        <4>3. CASE s # r
          <5>1. Distance(Inc(r), s) = Distance(r, s) - 1 /\ Distance(r, s) \in Nat
            BY <3>2, <4>3, Distances
          <5>2. Filled(s)
            BY <3>3, <4>1, <5>1 DEF Filled
          <5> QED BY <3>2, <5>2 DEF IInv, Present
        <4> QED BY <4>2, <4>3
      <3>6. \A g \in Readers : at'[g].pc \in {"handler", "free"} => at'[g].t # NoItem
        BY <3>1, <3>2, <3>4 DEF IInv, Present
      <3> QED BY <3>5, <3>6 DEF Present, Slots
    <2> QED BY <1>2, <2>6, <2>7, <2>9, <2>10, <2>11 DEF IInv
  <1> QED BY <1>2, <1>3, <1>4
-----------------------------------------------------------------------------
(* Steps that change one task. *)
LEMMA RefIs ==
  ASSUME NEW u, /\ task'[u].ref = Users(task'[u]) + IF IsHeld(held', u) THEN 1 ELSE 0
                /\ task'[u].freed <=> task'[u].ref = 0
                /\ \A x \in Holders : held'[x] = u => task'[u].runs = 0 \/ Done(x)'
  PROVE  RefInv(u)'
  BY DEF RefInv, Users, IsHeld, Holders, Slots

LEMMA RefWas ==
  ASSUME IInv, NEW u \in 1 .. Len(task)
  PROVE  /\ task[u].ref = Users(task[u]) + IF IsHeld(held, u) THEN 1 ELSE 0
         /\ task[u].freed <=> task[u].ref = 0
         /\ \A x \in Holders : held[x] = u => task[u].runs = 0 \/ Done(x)
  <1>1. RefInv(u)
    BY DEF IInv, TaskInv
  <1> QED BY <1>1 DEF RefInv

(* The tasks that are added stay the same, but for the one that is added now. *)
LEMMA AddedFinite == ASSUME PoolTypes PROVE IsFiniteSet(AddedTasks) /\ Cardinality(AddedTasks) \in Nat
  <1>1. AddedTasks \subseteq 1 .. Len(task) /\ Len(task) \in Nat
    BY Known DEF AddedTasks
  <1>2. IsFiniteSet(1 .. Len(task))
    BY <1>1, FS_Interval
  <1>3. IsFiniteSet(AddedTasks)
    BY <1>1, <1>2, FS_Subset
  <1> QED BY <1>3, FS_CardinalityType

LEMMA OneTaskKeeps ==
  ASSUME IInv, NEW t \in 1 .. Len(task), TaskOnly(t), RefInv(t)', HeldInv',
         \A x \in Holders : /\ held'[x] = held[x] \/ (held[x] = t /\ held'[x] = NoItem)
                            /\ held[x] # t /\ Done(x) => Done(x)',
         \A q \in Writers : at'[q].pc # "idle" =>
            /\ at[q].pc # "idle" /\ at'[q].t = at[q].t
            /\ at[q].t = t => task'[t].owner = task[t].owner /\ task'[t].added = task[t].added
  PROVE  TaskInv'
  <1>1. \A u \in 1 .. Len(task) : u # t => task'[u] = task[u]
    BY DEF TaskOnly
  <1>2. ASSUME NEW u \in 1 .. Len(task), u # t PROVE RefInv(u)'
    <2>1. u # NoItem
      BY Known DEF IInv
    <2>2. \A x \in Holders : (held'[x] = u <=> held[x] = u) /\ (held[x] = u /\ Done(x) => Done(x)')
      BY <1>2, <2>1
    <2>3. task'[u] = task[u]
      BY <1>1, <1>2
    <2> QED BY <2>2, <2>3, RefRests
  <1>3. AddInv'
    <2>1. ASSUME NEW q \in Writers, at'[q].pc # "idle"
          PROVE  /\ at[q].pc # "idle" /\ at'[q].t = at[q].t
                 /\ task'[at[q].t].owner = task[at[q].t].owner /\ task'[at[q].t].added = task[at[q].t].added
      <3>1. at[q].pc # "idle" /\ at'[q].t = at[q].t /\ at[q].t \in 1 .. Len(task)
        BY <2>1 DEF IInv, TaskInv, AddInv
      <3>2. CASE at[q].t = t
        BY <2>1, <3>1, <3>2
      <3>3. CASE at[q].t # t
        BY <1>1, <3>1, <3>3
      <3> QED BY <3>1, <3>2, <3>3
    <2>2. Len(task') = Len(task) /\ Len(task) \in Nat
      BY Known DEF IInv, TaskOnly
    <2> QED BY <2>1, <2>2, AddRests
  <1>4. Len(task') = Len(task)
    BY DEF TaskOnly
  <1> QED BY <1>2, <1>3, <1>4 DEF TaskInv

LEMMA AddedSame ==
  ASSUME PoolTypes, NEW t \in 1 .. Len(task), TaskOnly(t), task'[t].added = "yes" <=> task[t].added = "yes"
  PROVE  AddedTasks' = AddedTasks
  <1>1. \A u \in 1 .. Len(task) : task'[u].added = "yes" <=> task[u].added = "yes"
    BY DEF TaskOnly
  <1> QED BY <1>1 DEF AddedTasks, TaskOnly

(* Steps of the track that owns the task. *)
LEMMA OwnerKeeps ==
  ASSUME IInv, NEW t \in 1 .. Len(task), TaskOnly(t), RefInv(t)', UNCHANGED <<ring, at, nthreads, sem, end>>,
         task[t].owner = "held", task[t].added = "yes", task'[t].added = "yes"
  PROVE  IInv'
  <1>1. RingInv' /\ Same /\ UNCHANGED call
    BY RingRests DEF IInv
  <1>2. UNCHANGED <<stop, main, joined, late, at, nthreads, sem>>
    BY DEF end
  <1>3. PoolTypes'
    BY <1>2, Known DEF IInv, PoolTypes, AtType, TaskType, TaskOnly, Procs
  <1>4. LocalInv'
    BY <1>1, <1>2 DEF IInv, LocalInv, UserInv, ThreadInv
  <1>5. held' = held /\ \A x \in Holders : Done(x)' <=> Done(x)
    BY DEF ring, held, Held, Distance, Holders, Slots, Done
  <1>6. TaskInv'
    <2>1. HeldInv'
      BY <1>5 DEF IInv, TaskInv, HeldInv, Once, TaskOnly, Holders, Slots
    <2>2. \A q \in Writers : at[q].pc # "idle" => at[q].t # t
      BY DEF IInv, TaskInv, AddInv
    <2>3. \A q \in Writers : at'[q].pc # "idle" =>
            /\ at[q].pc # "idle" /\ at'[q].t = at[q].t
            /\ at[q].t = t => task'[t].owner = task[t].owner /\ task'[t].added = task[t].added
      BY <1>2, <2>2
    <2>4. \A x \in Holders : /\ held'[x] = held[x] \/ (held[x] = t /\ held'[x] = NoItem)
                             /\ held[x] # t /\ Done(x) => Done(x)'
      BY <1>5
    <2> QED BY <2>1, <2>3, <2>4, OneTaskKeeps
  <1>7. SemInv'
    <2>1. AddedTasks' = AddedTasks
      BY AddedSame DEF IInv
    <2>2. sem' \in Nat /\ sem' <= sem
      BY <1>2, Known DEF IInv
    <2> QED BY <1>2, <2>1, <2>2, SemRests
  <1>8. Present'
    BY <1>1, <1>2, PresentRests
  <1> QED BY <1>1, <1>3, <1>4, <1>6, <1>7, <1>8 DEF IInv

LEMMA CollectKeeps == ASSUME IInv, NEW t \in 1 .. Len(task), Collect(t) PROVE IInv'
  <1> DEFINE k == [Drop(task[t]) EXCEPT !.owner = "gone"]
  <1>1. /\ task[t].owner = "held" /\ task[t].added = "yes" /\ task[t].runs > 0
        /\ UNCHANGED <<ring, at, nthreads, sem, end>> /\ task' = [task EXCEPT ![t] = k]
    BY DEF Collect
  <1>2. task[t] \in TaskType /\ task[t].ref \in 0 .. 2 /\ task[t].runs \in 0 .. 1
    BY Known DEF IInv, TaskType
  <1>3. /\ task[t].ref = 1 + IF IsHeld(held, t) THEN 1 ELSE 0
        /\ task[t].freed <=> task[t].ref = 0
        /\ \A x \in Holders : held[x] = t => Done(x)
    BY <1>1, <1>2, RefWas DEF Users
  <1>4. /\ Drop(task[t]) \in TaskType /\ Drop(task[t]).ref = task[t].ref - 1
        /\ (Drop(task[t]).freed <=> task[t].ref = 1) /\ Drop(task[t]).added = "yes"
    BY <1>1, <1>2, <1>3, DropIs
  <1>5. /\ k \in TaskType /\ k.owner = "gone" /\ k.added = "yes" /\ k.ref = task[t].ref - 1
        /\ (k.freed <=> task[t].ref = 1)
    BY <1>4 DEF TaskType
  <1> HIDE DEF k
  <1>6. TaskOnly(t) /\ task'[t] = k
    BY <1>1, <1>5, TaskSet DEF IInv
  <1>7. RefInv(t)'
    <2>1. held' = held /\ \A x \in Holders : Done(x)' <=> Done(x)
      BY <1>1 DEF ring, held, Held, Distance, Holders, Slots, Done
    <2>2. Users(task'[t]) = 0 /\ (IsHeld(held', t) <=> IsHeld(held, t))
      BY <1>5, <1>6, <2>1 DEF Users, IsHeld
    <2>3. task'[t].ref = task[t].ref - 1 /\ (task'[t].freed <=> task[t].ref = 1)
      BY <1>5, <1>6
    <2>4. /\ task'[t].ref = Users(task'[t]) + IF IsHeld(held', t) THEN 1 ELSE 0
          /\ task'[t].freed <=> task'[t].ref = 0
      BY <1>2, <1>3, <2>2, <2>3
    <2> QED BY <1>3, <2>1, <2>4, RefIs
  <1> QED BY <1>1, <1>5, <1>6, <1>7, OwnerKeeps

LEMMA LeaveKeeps == ASSUME IInv, NEW t \in 1 .. Len(task), Leave(t) PROVE IInv'
  <1> DEFINE k == [task[t] EXCEPT !.owner = "left"]
  <1>2. task \in Seq(TaskType) /\ task[t] \in TaskType
    BY Known DEF IInv
  <1>1. /\ task[t].owner = "held" /\ task[t].added = "yes"
        /\ UNCHANGED <<ring, at, nthreads, sem, end>> /\ task' = [task EXCEPT ![t] = k]
    BY <1>2 DEF Leave
  <1>3. /\ k \in TaskType /\ k.owner = "left" /\ k.ref = task[t].ref /\ k.added = task[t].added
        /\ k.runs = task[t].runs /\ k.freed = task[t].freed
    BY <1>2 DEF TaskType
  <1> HIDE DEF k
  <1>4. TaskOnly(t) /\ task'[t] = k
    BY <1>1, <1>3, TaskSet DEF IInv
  <1>5. RefInv(t)'
    <2>1. held' = held /\ \A x \in Holders : Done(x)' <=> Done(x)
      BY <1>1 DEF ring, held, Held, Distance, Holders, Slots, Done
    <2>2. Users(task'[t]) = Users(task[t]) /\ (IsHeld(held', t) <=> IsHeld(held, t))
      BY <1>1, <1>3, <1>4, <2>1 DEF Users, IsHeld
    <2> QED BY <1>3, <1>4, <2>1, <2>2, RefWas, RefIs
  <1> QED BY <1>1, <1>3, <1>4, <1>5, OwnerKeeps

-----------------------------------------------------------------------------
(* A user's call ends: it has the task no longer. *)
LEMMA UserTask ==
  ASSUME IInv, NEW p \in Writers, at[p].pc # "idle"
  PROVE  /\ p \in Procs /\ at[p].t \in 1 .. Len(task) /\ task \in Seq(TaskType) /\ main = "run"
         /\ task[at[p].t].owner = "held" /\ task[at[p].t].added = "pending"
         /\ task[at[p].t].ref \in 0 .. 2 /\ task[at[p].t].runs \in 0 .. 1
         /\ task[at[p].t].ref = 1 + IF IsHeld(held, at[p].t) THEN 1 ELSE 0
         /\ task[at[p].t].freed <=> task[at[p].t].ref = 0
         /\ at[p].pc = "write" => held[<<"w", p>>] = at[p].t
  <1>1. /\ p \in Procs /\ at[p].t \in 1 .. Len(task) /\ task \in Seq(TaskType)
        /\ task[at[p].t].owner = "held" /\ task[at[p].t].added = "pending"
    BY Known, Assumed DEF IInv, TaskInv, AddInv
  <1>2. main = "run"
    BY DEF IInv, SemInv
  <1>3. task[at[p].t].ref \in 0 .. 2 /\ task[at[p].t].runs \in 0 .. 1
    BY <1>1, Known DEF IInv, TaskType
  <1>4. /\ task[at[p].t].ref = 1 + IF IsHeld(held, at[p].t) THEN 1 ELSE 0
        /\ task[at[p].t].freed <=> task[at[p].t].ref = 0
    BY <1>1, RefWas DEF Users
  <1>5. at[p].pc = "write" => held[<<"w", p>>] = at[p].t
    BY HeldIs DEF held
  <1> QED BY <1>1, <1>2, <1>3, <1>4, <1>5

LEMMA UserEnds ==
  ASSUME IInv, NEW p \in Writers, NEW t \in 1 .. Len(task), at[p].t = t, at[p].pc # "idle",
         RingInv', OnlyCall(p), Same,
         at' = [at EXCEPT ![p] = Idle], call'[p].pc \notin {"load", "check", "cas", "store", "tail"},
         TaskOnly(t), RefInv(t)', UNCHANGED <<nthreads, end>>, sem' \in Nat, SemInv'
  PROVE  IInv'
  <1>1. AtOnly(p) /\ at'[p] = Idle /\ p \in Procs
    BY IdleIs, AtSet, Assumed DEF IInv
  <1>2. PoolTypes'
    <2>1. task' \in Seq(TaskType) /\ Len(task') <= Budget
      BY Known DEF IInv, TaskOnly
    <2>2. at'[p].pc \in UserPcs /\ p \notin Readers
      BY <1>1, IdleIs, Assumed DEF UserPcs
    <2> QED BY <1>1, <2>1, <2>2, TypesRest DEF IInv
  <1>3. LocalInv'
    <2>1. UserInv(p)'
      BY <1>1, IdleIs DEF UserInv
    <2> QED BY <1>1, <2>1, UserLocal
  <1>4. Present'
    <2>1. \A h \in Readers : at'[h] = at[h]
      BY <1>1, Assumed DEF AtOnly
    <2> QED BY <2>1, PresentRests
  <1>5. TaskInv'
    <2>1. /\ \A x \in Holders : x # <<"w", p>> => held'[x] = held[x]
          /\ \A x \in Holders : Done(x)' <=> Done(x)
          /\ <<"w", p>> \in Holders
          /\ held[<<"w", p>>] = IF at[p].pc = "write" THEN t ELSE NoItem
          /\ held'[<<"w", p>>] = NoItem
      BY <1>1, IdleIs, UserPlace
    <2>2. HeldInv'
      BY <2>1, LosesOnce DEF IInv, TaskInv, Loses, TaskOnly
    <2>3. \A x \in Holders : /\ held'[x] = held[x] \/ (held[x] = t /\ held'[x] = NoItem)
                             /\ held[x] # t /\ Done(x) => Done(x)'
      BY <2>1
    <2>4. \A q \in Writers : at'[q].pc # "idle" =>
            /\ at[q].pc # "idle" /\ at'[q].t = at[q].t
            /\ at[q].t = t => task'[t].owner = task[t].owner
                                    /\ task'[t].added = task[t].added
      <3>1. \A q \in Writers : q # p => at'[q] = at[q]
        BY <1>1, Assumed DEF AtOnly
      <3>2. \A q \in Writers : at[q].pc # "idle" /\ at[q].t = t => q = p
        BY DEF IInv, TaskInv, AddInv
      <3>3. at'[p].pc = "idle"
        BY <1>1, IdleIs
      <3> QED BY <3>1, <3>2, <3>3
    <2> QED BY <2>2, <2>3, <2>4, OneTaskKeeps
  <1> QED BY <1>2, <1>3, <1>4, <1>5 DEF IInv

LEMMA RefusedKeeps == ASSUME MayLap = FALSE, IInv, NEW p \in Writers, Refused(p) PROVE IInv'
  <1>0. PICK t \in 1 .. Len(task) : t = at[p].t
    BY UserTask DEF Refused
  <1> DEFINE k == [Drop(Drop(task[t])) EXCEPT !.owner = "gone", !.added = "refused"]
  <1>1. /\ at[p].pc = "write" /\ WriteCheck(p) /\ call'[p].pc = "refused" /\ at' = [at EXCEPT ![p] = Idle]
        /\ UNCHANGED <<nthreads, sem, end>> /\ task' = [task EXCEPT ![t] = k]
    BY <1>0 DEF Refused
  <1>2. /\ p \in Procs /\ t \in 1 .. Len(task) /\ task \in Seq(TaskType)
        /\ task[t].owner = "held" /\ task[t].added = "pending" /\ task[t].ref = 2 /\ held[<<"w", p>>] = t
        /\ <<"w", p>> \in Holders
    <2>1. held[<<"w", p>>] = t /\ <<"w", p>> \in Holders
      BY <1>0, <1>1, UserTask, HeldIs
    <2>2. IsHeld(held, t)
      BY <2>1 DEF IsHeld
    <2> QED BY <1>0, <1>1, <2>1, <2>2, UserTask
  <1>3. RingInv' /\ OnlyCall(p) /\ Same
    BY <1>1, WriteCallRing DEF IInv, WritesOn
  <1>7. k \in TaskType /\ k.ref = 0 /\ k.freed /\ k.owner = "gone" /\ k.added = "refused"
    <2>1. task[t] \in TaskType
      BY Known DEF IInv
    <2>2. Drop(task[t]) \in TaskType /\ Drop(task[t]).ref = 1
      BY <1>2, <2>1, DropIs
    <2>3. Drop(Drop(task[t])) \in TaskType /\ Drop(Drop(task[t])).ref = 0 /\ Drop(Drop(task[t])).freed
      BY <2>2, DropIs
    <2> QED BY <2>3 DEF TaskType
  <1> HIDE DEF k
  <1>8. TaskOnly(t) /\ task'[t] = k
    BY <1>1, <1>7, TaskSet DEF IInv
  <1>9. AtOnly(p) /\ at'[p] = Idle
    BY <1>1, <1>2, IdleIs, AtSet DEF IInv
  <1>10. RefInv(t)'
    <2>1. /\ \A x \in Holders : x # <<"w", p>> => held'[x] = held[x]
          /\ held'[<<"w", p>>] = NoItem
      BY <1>3, <1>9, IdleIs, UserPlace
    <2>2. t # NoItem
      BY <1>2, Known DEF IInv
    <2>3. \A x \in Holders : held'[x] # t
      BY <1>2, <2>1, <2>2 DEF IInv, TaskInv, HeldInv, Once
    <2>4. ~IsHeld(held', t) /\ Users(task'[t]) = 0
      BY <1>7, <1>8, <2>3 DEF IsHeld, Users
    <2>5. task'[t].ref = Users(task'[t]) + IF IsHeld(held', t) THEN 1 ELSE 0
      BY <1>7, <1>8, <2>4
    <2>6. task'[t].freed <=> task'[t].ref = 0
      BY <1>7, <1>8
    <2> QED BY <2>3, <2>5, <2>6, RefIs
  <1>11. SemInv' /\ sem' \in Nat
    <2>1. AddedTasks' = AddedTasks
      BY <1>2, <1>7, <1>8, AddedSame DEF IInv
    <2>2. \A q \in Writers : at'[q].pc # "idle" => at[q].pc # "idle"
      BY <1>1, <1>9, Assumed DEF AtOnly
    <2>3. sem' \in Nat /\ sem' <= sem /\ UNCHANGED main
      BY <1>1, Known DEF IInv, end
    <2> QED BY <2>1, <2>2, <2>3, SemRests
  <1> QED BY <1>1, <1>3, <1>8, <1>10, <1>11, UserEnds, <1>0

LEMMA NoThreadKeeps == ASSUME IInv, NEW p \in Writers, NoThread(p) PROVE IInv'
  <1>0. PICK t \in 1 .. Len(task) : t = at[p].t
    BY UserTask DEF NoThread
  <1> DEFINE k == [Drop(task[t]) EXCEPT !.owner = "gone", !.added = "failed"]
  <1>1. /\ at[p].pc = "thread" /\ at' = [at EXCEPT ![p] = Idle]
        /\ UNCHANGED <<ring, nthreads, sem, end>> /\ task' = [task EXCEPT ![t] = k]
    BY <1>0 DEF NoThread
  <1>2. /\ p \in Procs /\ t \in 1 .. Len(task) /\ task \in Seq(TaskType)
        /\ task[t].owner = "held" /\ task[t].added = "pending" /\ task[t].ref \in 0 .. 2
        /\ task[t].ref = 1 + IF IsHeld(held, t) THEN 1 ELSE 0
    BY <1>0, <1>1, UserTask
  <1>3. RingInv' /\ OnlyCall(p) /\ Same /\ UNCHANGED call
    BY <1>1, <1>2, RingRests DEF IInv
  <1>7. /\ k \in TaskType /\ k.ref = task[t].ref - 1 /\ (k.freed <=> task[t].ref = 1)
        /\ k.owner = "gone" /\ k.added = "failed" /\ k.runs = task[t].runs
    <2>1. task[t] \in TaskType
      BY Known DEF IInv
    <2>2. /\ Drop(task[t]) \in TaskType /\ Drop(task[t]).ref = task[t].ref - 1
          /\ (Drop(task[t]).freed <=> task[t].ref = 1) /\ Drop(task[t]).runs = task[t].runs
      BY <1>2, <2>1, DropIs
    <2> QED BY <2>2 DEF TaskType
  <1> HIDE DEF k
  <1>8. TaskOnly(t) /\ task'[t] = k
    BY <1>1, <1>7, TaskSet DEF IInv
  <1>9. AtOnly(p) /\ at'[p] = Idle
    BY <1>1, <1>2, IdleIs, AtSet DEF IInv
  <1>10. RefInv(t)'
    <2>1. \A x \in Holders : held'[x] = held[x] /\ (Done(x)' <=> Done(x))
      BY <1>1, <1>3, <1>9, IdleIs, UserPlace
    <2>2. (IsHeld(held', t) <=> IsHeld(held, t)) /\ Users(task'[t]) = 0
      BY <1>7, <1>8, <2>1 DEF IsHeld, Users
    <2>3. task'[t].ref = task[t].ref - 1 /\ (task'[t].freed <=> task[t].ref = 1) /\ task'[t].runs = task[t].runs
      BY <1>7, <1>8
    <2>4. /\ task'[t].ref = Users(task'[t]) + IF IsHeld(held', t) THEN 1 ELSE 0
          /\ task'[t].freed <=> task'[t].ref = 0
      BY <1>2, <2>2, <2>3
    <2>5. \A x \in Holders : held'[x] = t => task'[t].runs = 0 \/ Done(x)'
      BY <1>2, <2>1, <2>3, RefWas
    <2> QED BY <2>4, <2>5, RefIs
  <1>11. SemInv' /\ sem' \in Nat
    <2>1. AddedTasks' = AddedTasks
      BY <1>2, <1>7, <1>8, AddedSame DEF IInv
    <2>2. \A q \in Writers : at'[q].pc # "idle" => at[q].pc # "idle"
      BY <1>1, <1>9, Assumed DEF AtOnly
    <2>3. sem' \in Nat /\ sem' <= sem /\ UNCHANGED main
      BY <1>1, Known DEF IInv, end
    <2> QED BY <2>1, <2>2, <2>3, SemRests
  <1>12. call'[p].pc \notin {"load", "check", "cas", "store", "tail"}
    BY <1>1, <1>3 DEF IInv, LocalInv, UserInv
  <1> QED BY <1>1, <1>3, <1>8, <1>10, <1>11, <1>12, UserEnds, <1>0

LEMMA PostKeeps == ASSUME IInv, NEW p \in Writers, Post(p) PROVE IInv'
  <1>0. PICK t \in 1 .. Len(task) : t = at[p].t
    BY UserTask DEF Post
  <1> DEFINE k == [task[t] EXCEPT !.added = "yes"]
  <1>t. task \in Seq(TaskType) /\ task[t] \in TaskType
    BY Known DEF IInv
  <1>1. /\ at[p].pc = "post" /\ at' = [at EXCEPT ![p] = Idle]
        /\ UNCHANGED <<ring, nthreads, end>> /\ task' = [task EXCEPT ![t] = k] /\ sem' = sem + 1
    BY <1>0, <1>t DEF Post
  <1>2. /\ p \in Procs /\ t \in 1 .. Len(task) /\ task \in Seq(TaskType) /\ task[t].added = "pending" /\ main = "run"
    BY <1>0, <1>1, UserTask
  <1>3. RingInv' /\ OnlyCall(p) /\ Same /\ UNCHANGED call
    BY <1>1, <1>2, RingRests DEF IInv
  <1>7. /\ k \in TaskType /\ k.ref = task[t].ref /\ k.freed = task[t].freed /\ k.owner = task[t].owner
        /\ k.added = "yes" /\ k.runs = task[t].runs
    BY <1>t DEF TaskType
  <1> HIDE DEF k
  <1>8. TaskOnly(t) /\ task'[t] = k
    BY <1>1, <1>7, TaskSet DEF IInv
  <1>9. AtOnly(p) /\ at'[p] = Idle
    BY <1>1, <1>2, IdleIs, AtSet DEF IInv
  <1>10. RefInv(t)'
    <2>1. \A x \in Holders : held'[x] = held[x] /\ (Done(x)' <=> Done(x))
      BY <1>1, <1>3, <1>9, IdleIs, UserPlace
    <2>2. (IsHeld(held', t) <=> IsHeld(held, t)) /\ Users(task'[t]) = Users(task[t])
      BY <1>7, <1>8, <2>1 DEF IsHeld, Users
    <2>3. \A x \in Holders : held'[x] = t => task'[t].runs = 0 \/ Done(x)'
      BY <1>2, <1>7, <1>8, <2>1, RefWas
    <2> QED BY <1>2, <1>7, <1>8, <2>2, <2>3, RefWas, RefIs
  <1>11. SemInv' /\ sem' \in Nat
    <2>1. t \notin AddedTasks /\ AddedTasks' = AddedTasks \cup {t}
      <3>1. t \notin AddedTasks
        BY <1>2 DEF AddedTasks
      <3>2. \A u \in 1 .. Len(task) : u # t => task'[u].added = task[u].added
        BY <1>8 DEF TaskOnly
      <3> QED BY <1>2, <1>7, <1>8, <3>1, <3>2 DEF AddedTasks, TaskOnly
    <2>2. Cardinality(AddedTasks') = Cardinality(AddedTasks) + 1 /\ Cardinality(AddedTasks) \in Nat
      BY <2>1, AddedFinite, FS_AddElement DEF IInv
    <2>3. sem \in Nat /\ sem <= Cardinality(AddedTasks) /\ main' = "run"
      BY <1>1, <1>2, AddedFinite, Known DEF IInv, SemInv, end
    <2>4. sem' \in Nat /\ sem' <= Cardinality(AddedTasks')
      BY <1>1, <2>2, <2>3
    <2> QED BY <2>2, <2>3, <2>4 DEF SemInv
  <1>12. call'[p].pc \notin {"load", "check", "cas", "store", "tail"}
    BY <1>1, <1>3 DEF IInv, LocalInv, UserInv
  <1> QED BY <1>1, <1>3, <1>8, <1>10, <1>11, <1>12, UserEnds, <1>0
-----------------------------------------------------------------------------
(* A thread and the task that it runs. *)
LEMMA ThreadTask ==
  ASSUME IInv, NEW h \in Readers, at[h].pc \in {"handler", "free"}
  PROVE  /\ h \in Procs /\ h \notin Writers /\ at[h].t \in 1 .. Len(task)
         /\ <<"h", h>> \in Holders /\ held[<<"h", h>>] = at[h].t /\ IsHeld(held, at[h].t)
         /\ call[h].pc = "read" /\ at[h].t = call[h].item
         /\ \A x \in Holders : held[x] = at[h].t => x = <<"h", h>>
  <1>1. h \in Procs /\ h \notin Writers
    BY Assumed
  <1>2. <<"h", h>> \in Holders /\ held[<<"h", h>>] = at[h].t
    BY HeldIs DEF held
  <1>3. at[h].t # NoItem
    BY DEF IInv, Present
  <1>4. at[h].t \in 1 .. Len(task) /\ IsHeld(held, at[h].t)
    BY <1>2, <1>3 DEF IInv, TaskInv, HeldInv, IsHeld
  <1>5. call[h].pc = "read" /\ at[h].t = call[h].item
    BY DEF IInv, LocalInv, ThreadInv
  <1>6. \A x \in Holders : held[x] = at[h].t => x = <<"h", h>>
    BY <1>2, <1>3 DEF IInv, TaskInv, HeldInv, Once
  <1> QED BY <1>1, <1>2, <1>4, <1>5, <1>6

(* A step of a thread that changes its task, or gives it up. *)
LEMMA RunnerKeeps ==
  ASSUME IInv, NEW h \in Readers, at[h].pc \in {"handler", "free"}, NEW t \in 1 .. Len(task), at[h].t = t,
         UNCHANGED <<ring, nthreads, sem, end>>, AtOnly(h), at'[h].pc \in {"loop", "free"},
         at'[h].t = IF at'[h].pc = "free" THEN t ELSE NoItem,
         TaskOnly(t), RefInv(t)', task'[t].added = task[t].added,
         task[t].owner = "held" => task'[t].owner = "held"
  PROVE  IInv'
  <1>1. RingInv' /\ Same /\ UNCHANGED call /\ OnlyCall(h)
    BY RingRests, ThreadTask DEF IInv
  <1>2. \A q \in Writers : at'[q] = at[q]
    BY ThreadTask, Assumed DEF AtOnly
  <1>3. PoolTypes'
    <2>1. task' \in Seq(TaskType) /\ Len(task') <= Budget /\ sem' \in Nat
      BY Known DEF IInv, TaskOnly
    <2> QED BY <2>1, ThreadTask, TypesRest DEF IInv, ThreadPcs
  <1>4. LocalInv'
    <2>1. ThreadInv(h)'
      <3>1. ThreadInv(h) /\ call'[h] = call[h]
        BY <1>1 DEF IInv, LocalInv
      <3> QED BY <3>1 DEF ThreadInv
    <2> QED BY <1>1, <2>1, ThreadLocal
  <1>5. Present'
    <2>1. \A g \in Readers : at'[g].pc \in {"handler", "free"} => at[g].pc \in {"handler", "free"} /\ at'[g].t = at[g].t
      BY Assumed DEF AtOnly
    <2> QED BY <1>1, <2>1, PresentRests
  <1>6. TaskInv'
    <2>1. /\ \A x \in Holders : x # <<"h", h>> => held'[x] = held[x] /\ (Done(x)' <=> Done(x))
          /\ <<"h", h>> \in Holders /\ held[<<"h", h>>] = t
          /\ held'[<<"h", h>>] = IF at'[h].pc = "free" THEN t ELSE NoItem
      BY <1>1, ThreadPlace
    <2>2. HeldInv'
      <3>1. CASE at'[h].pc = "free"
        <4>1. \A x \in Holders : held'[x] = held[x]
          BY <2>1, <3>1
        <4> QED BY <4>1 DEF IInv, TaskInv, HeldInv, Once, TaskOnly, Holders, Slots
      <3>2. CASE at'[h].pc # "free"
        <4>1. Loses(<<"h", h>>) /\ Len(task') = Len(task)
          BY <2>1, <3>2 DEF Loses, TaskOnly
        <4> QED BY <2>1, <4>1, LosesOnce DEF IInv, TaskInv
      <3> QED BY <3>1, <3>2
    <2>3. \A x \in Holders : /\ held'[x] = held[x] \/ (held[x] = t /\ held'[x] = NoItem)
                             /\ held[x] # t /\ Done(x) => Done(x)'
      BY <2>1
    <2>4. \A q \in Writers : at'[q].pc # "idle" =>
            /\ at[q].pc # "idle" /\ at'[q].t = at[q].t
            /\ at[q].t = t => task'[t].owner = task[t].owner /\ task'[t].added = task[t].added
      BY <1>2 DEF IInv, TaskInv, AddInv
    <2> QED BY <2>2, <2>3, <2>4, OneTaskKeeps
  <1>7. SemInv'
    <2>1. AddedTasks' = AddedTasks
      BY AddedSame DEF IInv
    <2>2. sem' \in Nat /\ sem' <= sem /\ UNCHANGED main
      BY Known DEF IInv, end
    <2> QED BY <1>2, <2>1, <2>2, SemRests
  <1> QED BY <1>1, <1>3, <1>4, <1>5, <1>6, <1>7 DEF IInv

LEMMA HandlerKeeps == ASSUME IInv, NEW h \in Readers, Handler(h) PROVE IInv'
  <1>0. PICK t \in 1 .. Len(task) : t = at[h].t
    BY ThreadTask DEF Handler
  <1> DEFINE m == [task[t] EXCEPT !.runs = @ + 1]
             k == IF m.owner = "left" THEN [Drop(m) EXCEPT !.owner = "gone"] ELSE m
  <1>1. /\ at[h].pc = "handler" /\ task' = [task EXCEPT ![t] = k] /\ at' = [at EXCEPT ![h].pc = "free"]
        /\ UNCHANGED <<ring, nthreads, sem, end>>
    BY <1>0 DEF Handler, Goto
  <1>2. /\ h \in Procs /\ <<"h", h>> \in Holders /\ held[<<"h", h>>] = t /\ IsHeld(held, t)
        /\ \A x \in Holders : held[x] = t => x = <<"h", h>>
    BY <1>0, <1>1, ThreadTask
  <1>3. task[t] \in TaskType /\ task[t].ref \in 0 .. 2
    BY Known DEF IInv, TaskType
  <1>4. /\ task[t].ref = Users(task[t]) + 1 /\ (task[t].freed <=> task[t].ref = 0) /\ task[t].runs = 0
    <2>1. ~Done(<<"h", h>>)
      BY <1>1 DEF Done
    <2> QED BY <1>2, <2>1, RefWas
  <1>5. /\ m \in TaskType /\ m.ref = task[t].ref /\ m.owner = task[t].owner /\ m.added = task[t].added
        /\ m.freed = task[t].freed
    <2>1. task[t].runs + 1 \in 0 .. 1
      BY <1>4
    <2> QED BY <1>3, <2>1 DEF TaskType
  <1> HIDE DEF m
  <1>6. /\ k \in TaskType /\ k.added = task[t].added /\ (task[t].owner = "held" => k.owner = "held")
        /\ k.ref = Users(k) + 1 /\ (k.freed <=> k.ref = 0)
    <2>1. CASE m.owner = "left"
      <3>1. m.ref = 2
        BY <1>4, <1>5, <2>1 DEF Users
      <3>2. Drop(m) \in TaskType /\ Drop(m).ref = 1 /\ ~Drop(m).freed /\ Drop(m).added = m.added
        BY <1>5, <3>1, DropIs
      <3>3. /\ [Drop(m) EXCEPT !.owner = "gone"] \in TaskType
            /\ [Drop(m) EXCEPT !.owner = "gone"].owner = "gone"
            /\ [Drop(m) EXCEPT !.owner = "gone"].ref = 1
            /\ ~[Drop(m) EXCEPT !.owner = "gone"].freed
            /\ [Drop(m) EXCEPT !.owner = "gone"].added = m.added
        BY <3>2 DEF TaskType
      <3> QED BY <1>5, <2>1, <3>3 DEF Users
    <2>2. CASE m.owner # "left"
      BY <1>4, <1>5, <2>2 DEF Users
    <2> QED BY <2>1, <2>2
  <1> HIDE DEF k
  <1>7. TaskOnly(t) /\ task'[t] = k
    BY <1>1, <1>6, TaskSet DEF IInv
  <1>8. AtOnly(h) /\ at'[h].pc = "free" /\ at'[h].t = t
    BY <1>0, <1>1, <1>2, AtPc DEF IInv, ThreadPcs
  <1>9. RefInv(t)'
    <2>1. Same
      BY <1>1, RingRests DEF IInv
    <2>2. /\ \A x \in Holders : x # <<"h", h>> => held'[x] = held[x]
          /\ held'[<<"h", h>>] = t /\ Done(<<"h", h>>)'
      BY <1>8, <2>1, ThreadPlace
    <2>3. IsHeld(held', t)
      BY <1>2, <2>2 DEF IsHeld
    <2>4. \A x \in Holders : held'[x] = t => task'[t].runs = 0 \/ Done(x)'
      BY <1>2, <2>2
    <2>5. task'[t].ref = Users(task'[t]) + IF IsHeld(held', t) THEN 1 ELSE 0
      BY <1>6, <1>7, <2>3
    <2>6. task'[t].freed <=> task'[t].ref = 0
      BY <1>6, <1>7
    <2> QED BY <2>4, <2>5, <2>6, RefIs
  <1> QED BY <1>0, <1>1, <1>6, <1>7, <1>8, <1>9, RunnerKeeps

LEMMA FreeTaskKeeps == ASSUME IInv, NEW h \in Readers, FreeTask(h) PROVE IInv'
  <1>0. PICK t \in 1 .. Len(task) : t = at[h].t
    BY ThreadTask DEF FreeTask
  <1> DEFINE k == Drop(task[t])
             i == [Idle EXCEPT !.pc = "loop"]
  <1>1. /\ at[h].pc = "free" /\ task' = [task EXCEPT ![t] = k] /\ at' = [at EXCEPT ![h] = i]
        /\ UNCHANGED <<ring, nthreads, sem, end>>
    BY <1>0 DEF FreeTask
  <1>2. /\ h \in Procs /\ <<"h", h>> \in Holders /\ held[<<"h", h>>] = t /\ IsHeld(held, t)
        /\ \A x \in Holders : held[x] = t => x = <<"h", h>>
    BY <1>0, <1>1, ThreadTask
  <1>3. task[t] \in TaskType /\ task[t].ref \in 0 .. 2
    BY Known DEF IInv, TaskType
  <1>4. task[t].ref = Users(task[t]) + 1
    BY <1>2, RefWas
  <1>5. task[t].ref # 0 /\ Users(task[t]) \in 0 .. 1
    BY <1>4 DEF Users
  <1>6. /\ k \in TaskType /\ k.added = task[t].added /\ k.owner = task[t].owner
        /\ k.ref = Users(k) /\ (k.freed <=> k.ref = 0)
    <2>1. /\ k \in TaskType /\ k.added = task[t].added /\ k.owner = task[t].owner
          /\ k.ref = task[t].ref - 1 /\ (k.freed <=> task[t].ref = 1)
      BY <1>3, <1>5, DropIs
    <2> HIDE DEF k
    <2>2. Users(k) = Users(task[t])
      BY <2>1 DEF Users
    <2> QED BY <1>3, <1>4, <1>5, <2>1, <2>2
  <1> HIDE DEF k
  <1>7. TaskOnly(t) /\ task'[t] = k
    BY <1>1, <1>6, TaskSet DEF IInv
  <1>8. AtOnly(h) /\ at'[h].pc = "loop" /\ at'[h].t = NoItem
    <2>1. i \in AtType /\ i.pc = "loop" /\ i.t = NoItem
      BY DEF Idle, AtType, ThreadPcs
    <2> HIDE DEF i
    <2> QED BY <1>1, <1>2, <2>1, AtSet DEF IInv
  <1> HIDE DEF i
  <1>9. RefInv(t)'
    <2>1. Same
      BY <1>1, RingRests DEF IInv
    <2>2. /\ \A x \in Holders : x # <<"h", h>> => held'[x] = held[x]
          /\ held'[<<"h", h>>] = NoItem
      BY <1>8, <2>1, ThreadPlace
    <2>3. t # NoItem
      BY Known DEF IInv
    <2>4. \A x \in Holders : held'[x] # t
      BY <1>2, <2>2, <2>3
    <2>5. ~IsHeld(held', t)
      BY <2>4 DEF IsHeld
    <2>6. task'[t].ref = Users(task'[t]) + IF IsHeld(held', t) THEN 1 ELSE 0
      <3>1. Users(k) \in Nat
        BY DEF Users
      <3> QED BY <1>6, <1>7, <2>5, <3>1
    <2>7. task'[t].freed <=> task'[t].ref = 0
      BY <1>6, <1>7
    <2> QED BY <2>4, <2>6, <2>7, RefIs
  <1> QED BY <1>0, <1>1, <1>6, <1>7, <1>8, <1>9, RunnerKeeps
-----------------------------------------------------------------------------
(* A new task: nobody but its user knows of it. *)
LEMMA AddKeeps == ASSUME IInv, NEW p \in Writers, Add(p) PROVE IInv'
  <1> DEFINE k == [pc |-> "write", t |-> Len(task) + 1, empty |-> (r = wtail)]
  <1>0. PICK t : t = Len(task) + 1
    OBVIOUS
  <1>1. /\ at[p].pc = "idle" /\ main = "run" /\ Len(task) < Budget /\ task' = Append(task, MadeTask)
        /\ at' = [at EXCEPT ![p] = k] /\ BeginWrite(p, t) /\ UNCHANGED <<nthreads, sem, end>>
    BY <1>0 DEF Add
  <1>2. /\ task \in Seq(TaskType) /\ Len(task) \in Nat /\ Len(task) <= Budget /\ p \in Procs /\ p \notin Readers
        /\ sem \in Nat /\ Budget \in Nat /\ Items = 1 .. Budget
    BY Known, Assumed DEF IInv
  <1>3. t \in Items /\ t \notin 1 .. Len(task) /\ t \in Nat
    BY <1>0, <1>1, <1>2
  <1>4. MadeTask \in TaskType
    BY DEF MadeTask, NewTask, TaskType
  <1>5. /\ task' \in Seq(TaskType) /\ Len(task') = t /\ task'[t] = MadeTask
        /\ \A u \in 1 .. Len(task) : task'[u] = task[u]
    <2> HIDE DEF k
    <2> QED BY <1>0, <1>1, <1>2, <1>4
  <1>6. k \in AtType /\ k.pc = "write" /\ k.t = t
    BY <1>0, <1>3 DEF AtType, UserPcs
  <1> HIDE DEF k
  <1>7. AtOnly(p) /\ at'[p].pc = "write" /\ at'[p].t = t
    BY <1>1, <1>2, <1>6, AtSet DEF IInv
  <1>8. RingInv' /\ OnlyCall(p) /\ Same /\ call'[p].pc = "load" /\ call'[p].item = t
    BY <1>1, <1>3, BeginWriteRing DEF IInv
  <1>9. \A q \in Writers : q # p => at'[q] = at[q]
    BY <1>7, Assumed DEF AtOnly
  <1>10. PoolTypes'
    <2>1. Len(task') <= Budget
      BY <1>0, <1>1, <1>2, <1>5
    <2> QED BY <1>1, <1>2, <1>5, <1>7, <2>1, TypesRest DEF IInv, UserPcs
  <1>11. LocalInv'
    <2>1. UserInv(p)'
      BY <1>7, <1>8 DEF UserInv
    <2> QED BY <1>1, <1>7, <1>8, <2>1, UserLocal
  <1>12. Present'
    <2>1. \A h \in Readers : at'[h] = at[h]
      BY <1>7, Assumed DEF AtOnly
    <2> QED BY <1>8, <2>1, PresentRests
  <1>13. TaskInv'
    <2>1. /\ \A x \in Holders : x # <<"w", p>> => held'[x] = held[x]
          /\ \A x \in Holders : Done(x)' <=> Done(x)
          /\ <<"w", p>> \in Holders /\ held[<<"w", p>>] = NoItem /\ held'[<<"w", p>>] = t
      BY <1>1, <1>7, <1>8, UserPlace
    <2>2. HeldInv'
      <3>1. Gains(<<"w", p>>, Len(task) + 1) /\ Len(task') = Len(task) + 1
        BY <1>0, <1>5, <2>1 DEF Gains
      <3> QED BY <1>2, <2>1, <3>1, GainsOnce DEF IInv, TaskInv
    <2>3. ASSUME NEW u \in 1 .. Len(task) PROVE RefInv(u)'
      <3>1. u # NoItem /\ u # t
        BY <1>3, Known DEF IInv
      <3>2. \A x \in Holders : (held'[x] = u <=> held[x] = u) /\ (held[x] = u /\ Done(x) => Done(x)')
        BY <2>1, <3>1
      <3>3. task'[u] = task[u]
        BY <1>5
      <3> QED BY <3>2, <3>3, RefRests
    <2>4. RefInv(t)'
      <3>1. IsHeld(held', t)
        BY <2>1 DEF IsHeld
      <3>2. Users(task'[t]) = 1 /\ task'[t].ref = 2 /\ ~task'[t].freed /\ task'[t].runs = 0
        BY <1>5 DEF MadeTask, NewTask, Users
      <3>3. task'[t].ref = Users(task'[t]) + IF IsHeld(held', t) THEN 1 ELSE 0
        BY <3>1, <3>2
      <3>4. task'[t].freed <=> task'[t].ref = 0
        BY <3>2
      <3> QED BY <3>2, <3>3, <3>4, RefIs
    <2>5. \A u \in 1 .. Len(task') : RefInv(u)'
      <3>1. \A u \in 1 .. Len(task') : u = t \/ u \in 1 .. Len(task)
        BY <1>0, <1>2, <1>5
      <3> QED BY <2>3, <2>4, <3>1
    <2>6. AddInv'
      <3>1. ASSUME NEW q \in Writers, q # p, at'[q].pc # "idle"
            PROVE  /\ at[q].pc # "idle" /\ at'[q].t = at[q].t /\ at[q].t \in 1 .. Len(task) /\ at[q].t # t
                   /\ task'[at[q].t].owner = "held" /\ task'[at[q].t].added = "pending"
        <4>1. at[q].pc # "idle" /\ at'[q].t = at[q].t
          BY <1>9, <3>1
        <4>2. at[q].t \in 1 .. Len(task) /\ task[at[q].t].owner = "held" /\ task[at[q].t].added = "pending"
          BY <4>1 DEF IInv, TaskInv, AddInv
        <4> QED BY <1>3, <1>5, <4>1, <4>2
      <3>2. task'[t].owner = "held" /\ task'[t].added = "pending"
        BY <1>5 DEF MadeTask, NewTask
      <3>3. \A u \in 1 .. Len(task) : u \in 1 .. Len(task')
        BY <1>0, <1>2, <1>5
      <3>4. t \in 1 .. Len(task')
        BY <1>0, <1>2, <1>5
      <3>5. \A q \in Writers : at'[q].pc # "idle" =>
               at'[q].t \in 1 .. Len(task') /\ task'[at'[q].t].owner = "held" /\ task'[at'[q].t].added = "pending"
        BY <1>7, <3>1, <3>2, <3>3, <3>4
      <3>6. ASSUME NEW q \in Writers, NEW v \in Writers, at'[q].pc # "idle", at'[v].pc # "idle", at'[q].t = at'[v].t
            PROVE  q = v
        <4>1. CASE q # p /\ v # p
          BY <3>1, <3>6, <4>1 DEF IInv, TaskInv, AddInv
        <4>2. CASE q = p /\ v # p
          BY <1>7, <3>1, <3>6, <4>2
        <4>3. CASE q # p /\ v = p
          BY <1>7, <3>1, <3>6, <4>3
        <4> QED BY <4>1, <4>2, <4>3
      <3> QED BY <3>5, <3>6 DEF AddInv
    <2> QED BY <2>2, <2>5, <2>6 DEF TaskInv
  <1>14. SemInv'
    <2>1. AddedTasks' = AddedTasks
      <3>1. task'[t].added # "yes"
        BY <1>5 DEF MadeTask, NewTask
      <3>2. 1 .. Len(task') = (1 .. Len(task)) \cup {t}
        BY <1>0, <1>2, <1>5
      <3> QED BY <1>5, <3>1, <3>2 DEF AddedTasks
    <2>2. sem' \in Nat /\ sem' <= sem /\ UNCHANGED main
      BY <1>1, <1>2 DEF end
    <2> QED BY <1>1, <1>9, <2>1, <2>2, SemRests
  <1> QED BY <1>8, <1>10, <1>11, <1>12, <1>13, <1>14 DEF IInv

(* A new thread begins with no task. *)
LEMMA NewThreadKeeps == ASSUME IInv, NEW p \in Writers, NewThread(p) PROVE IInv'
  <1>1. at[p].pc = "thread" /\ UNCHANGED <<ring, sem, end, task>> /\ p \in Procs /\ UserInv(p)
    BY Assumed DEF NewThread, IInv, LocalInv
  <1>2. RingInv' /\ Same /\ UNCHANGED call /\ \A q \in Procs : OnlyCall(q)
    BY <1>1, RingRests DEF IInv
  <1>3. CASE nthreads = MaxThreads
    <2>1. at' = [at EXCEPT ![p].pc = "post"] /\ UNCHANGED nthreads
      BY <1>3 DEF NewThread
    <2>2. AtOnly(p) /\ at'[p].pc = "post" /\ at'[p].t = at[p].t
      BY <1>1, <2>1, AtPc DEF IInv, UserPcs
    <2>3. UserInv(p)'
      BY <1>1, <1>2, <2>2 DEF UserInv
    <2> QED BY <1>1, <1>2, <2>1, <2>2, <2>3, UserGoesOn DEF UserPcs
  <1>4. CASE nthreads # MaxThreads
    <2>0. PICK n : n = nthreads + 1
      OBVIOUS
    <2> DEFINE kp == [at[p] EXCEPT !.pc = "post"]
               kn == [at[n] EXCEPT !.pc = "loop"]
    <2>1. nthreads' = n /\ n \in Readers /\ n \in Procs /\ n \notin Writers /\ p # n /\ nthreads \in Nat /\ n <= MaxThreads
      BY <1>1, <1>4, <2>0, Known, Assumed DEF NewThread, IInv
    <2>2. at \in [Procs -> AtType] /\ at[p] \in AtType /\ at[n] \in AtType
      BY <1>1, <2>1, Known DEF IInv
    <2>3. at' = [at EXCEPT ![p] = kp, ![n] = kn]
      BY <1>1, <1>4, <2>0, <2>1, <2>2 DEF NewThread
    <2>4. /\ kp \in AtType /\ kp.pc = "post" /\ kp.t = at[p].t
          /\ kn \in AtType /\ kn.pc = "loop" /\ kn.t = at[n].t
      BY <2>2 DEF AtType, UserPcs, ThreadPcs
    <2> HIDE DEF kp, kn
    <2>5. /\ at' \in [Procs -> AtType] /\ at'[p] = kp /\ at'[n] = kn
          /\ \A q \in Procs : q # p /\ q # n => at'[q] = at[q]
      BY <1>1, <2>1, <2>2, <2>3, <2>4
    <2>6. /\ ThreadInv(n) /\ at[n].pc = "none" /\ at[n].t = NoItem
      <3>1. ThreadInv(n) /\ n > nthreads
        BY <2>0, <2>1 DEF IInv, LocalInv
      <3> QED BY <3>1 DEF ThreadInv
    <2>7. \A q \in Writers : q # p => at'[q] = at[q]
      BY <2>1, <2>5, Assumed
    <2>8. \A h \in Readers : h # n => at'[h] = at[h]
      BY <1>1, <2>5, Assumed
    <2>9. PoolTypes'
      <3>1. \A q \in Writers : at'[q].pc \in UserPcs
        BY <2>4, <2>5, <2>7, Known DEF IInv, UserPcs
      <3>2. \A h \in Readers : at'[h].pc \in ThreadPcs
        BY <2>4, <2>5, <2>8, Known DEF IInv, ThreadPcs
      <3>3. nthreads' \in 0 .. MaxThreads /\ sem' \in Nat
        BY <1>1, <2>1, Known, Assumed DEF IInv
      <3>4. late' \subseteq joined' /\ joined' \subseteq 1 .. nthreads'
        <4>1. late \subseteq joined /\ joined \subseteq 1 .. nthreads
          BY DEF IInv, PoolTypes
        <4>2. 1 .. nthreads \subseteq 1 .. n
          BY <2>0, <2>1
        <4> QED BY <1>1, <2>1, <4>1, <4>2 DEF end
      <3>5. stop' \in BOOLEAN /\ main' \in {"run", "post", "join", "freed", "kept"}
            /\ task' \in Seq(TaskType) /\ Len(task') <= Budget
        BY <1>1 DEF IInv, PoolTypes, end
      <3> QED BY <2>5, <3>1, <3>2, <3>3, <3>4, <3>5 DEF PoolTypes, AtType, TaskType, Procs
    <2>10. LocalInv'
      <3>1. \A q \in Writers : UserInv(q)'
        <4>1. UserInv(p)'
          BY <1>1, <1>2, <2>4, <2>5 DEF UserInv
        <4>2. ASSUME NEW q \in Writers, q # p PROVE UserInv(q)'
          BY <1>2, <2>7, <4>2 DEF IInv, LocalInv, UserInv
        <4> QED BY <4>1, <4>2
      <3>2. ThreadInv(n)'
        <4>1. ~(n > nthreads') /\ call'[n] = call[n] /\ at'[n].pc = "loop" /\ at'[n].t = NoItem
          <5>1. ~(n > nthreads')
            BY <2>0, <2>1
          <5> QED BY <1>2, <2>1, <2>4, <2>5, <2>6, <5>1
        <4>2. call[n].pc \notin {"load", "check", "get", "cas"}
          BY <2>6 DEF ThreadInv
        <4> QED BY <4>1, <4>2 DEF ThreadInv
      <3>3. ASSUME NEW h \in Readers, h # n PROVE ThreadInv(h)'
        <4>1. ThreadInv(h) /\ at'[h] = at[h] /\ call'[h] = call[h]
          BY <1>2, <2>8, <3>3 DEF IInv, LocalInv
        <4>2. h > nthreads' <=> h > nthreads
          BY <2>0, <2>1, <3>3, Assumed
        <4> QED BY <4>1, <4>2 DEF ThreadInv
      <3> QED BY <3>1, <3>2, <3>3 DEF LocalInv
    <2>11. Present'
      <3>1. \A h \in Readers : at'[h].pc \in {"handler", "free"} =>
               at[h].pc \in {"handler", "free"} /\ at'[h].t = at[h].t
        BY <2>4, <2>5, <2>8
      <3> QED BY <1>2, <3>1, PresentRests
    <2>12. TaskInv'
      <3>1. ASSUME NEW x \in Holders PROVE held'[x] = held[x] /\ (Done(x) => Done(x)')
        <4>0. held = Held(at, d, r, wtail) /\ held' = Held(at', d', r', wtail')
          BY DEF held
        <4>1. CASE \E q \in Writers : x = <<"w", q>>
          BY <1>1, <2>4, <2>5, <2>7, <4>0, <4>1, HeldIs DEF Done
        <4>2. CASE \E s \in Slots : x = <<"s", s>>
          <5>1. UNCHANGED <<d, r, wtail>>
            BY <1>1 DEF ring
          <5> QED BY <4>0, <4>2, <5>1, HeldIs DEF Done
        <4>3. CASE \E h \in Readers : x = <<"h", h>>
          <5>1. PICK h \in Readers : x = <<"h", h>>
            BY <4>3
          <5>2. at'[h].t = at[h].t /\ (at[h].pc = "free" => at'[h].pc = "free")
            <6>1. CASE h = n
              BY <2>4, <2>5, <2>6, <6>1
            <6>2. CASE h # n
              BY <2>8, <6>2
            <6> QED BY <6>1, <6>2
          <5> QED BY <4>0, <5>1, <5>2, HeldIs DEF Done
        <4> QED BY <4>1, <4>2, <4>3, HolderIs
      <3>2. \A q \in Writers : at'[q].pc # "idle" => at[q].pc # "idle" /\ at'[q].t = at[q].t
        BY <1>1, <2>4, <2>5, <2>7
      <3> QED BY <1>1, <3>1, <3>2, TasksRest
    <2>13. SemInv'
      <3>1. \A q \in Writers : at'[q].pc # "idle" => at[q].pc # "idle"
        BY <1>1, <2>7
      <3>2. UNCHANGED main /\ AddedTasks' = AddedTasks /\ sem' \in Nat /\ sem' <= sem
        BY <1>1, Known DEF IInv, end, AddedTasks
      <3> QED BY <3>1, <3>2, SemRests
    <2> QED BY <1>2, <2>9, <2>10, <2>11, <2>12, <2>13 DEF IInv
  <1> QED BY <1>3, <1>4
-----------------------------------------------------------------------------
(* ffthpool_free(). *)
LEMMA StopKeeps == ASSUME IInv, Stop PROVE IInv'
  <1>1. /\ main = "run" /\ \A p \in Writers : at[p].pc = "idle"
        /\ stop' = TRUE /\ main' = "post" /\ UNCHANGED <<ring, at, nthreads, sem, joined, late, task>>
    BY DEF Stop
  <1>2. RingInv' /\ LocalInv' /\ Present' /\ TaskInv'
    BY <1>1, MainGoesOn
  <1>3. PoolTypes'
    BY <1>1 DEF IInv, PoolTypes, AtType, TaskType, Procs
  <1>4. SemInv'
    <2>1. AddedTasks' = AddedTasks
      BY <1>1 DEF AddedTasks
    <2>2. sem <= Cardinality(AddedTasks) + 0
      BY <1>1 DEF IInv, SemInv
    <2> QED BY <1>1, <2>1, <2>2 DEF SemInv
  <1> QED BY <1>2, <1>3, <1>4 DEF IInv

LEMMA WakeAllKeeps == ASSUME IInv, WakeAll PROVE IInv'
  <1>1. /\ main = "post" /\ sem' = sem + nthreads /\ main' = "join"
        /\ UNCHANGED <<ring, at, nthreads, stop, joined, late, task>>
    BY DEF WakeAll
  <1>2. RingInv' /\ LocalInv' /\ Present' /\ TaskInv'
    BY <1>1, MainGoesOn
  <1>3. nthreads \in Nat /\ nthreads <= MaxThreads /\ sem \in Nat /\ sem' \in Nat /\ MaxThreads \in Nat
    BY <1>1, Known, Assumed DEF IInv
  <1>4. PoolTypes'
    BY <1>1, <1>3 DEF IInv, PoolTypes, AtType, TaskType, Procs
  <1>5. SemInv'
    <2>1. AddedTasks' = AddedTasks
      BY <1>1 DEF AddedTasks
    <2>2. sem <= Cardinality(AddedTasks) + 0 /\ \A p \in Writers : at[p].pc = "idle"
      BY <1>1 DEF IInv, SemInv
    <2>3. Cardinality(AddedTasks) \in Nat
      BY AddedFinite DEF IInv
    <2>4. sem' <= Cardinality(AddedTasks') + MaxThreads
      BY <1>1, <1>3, <2>1, <2>2, <2>3
    <2> QED BY <1>1, <2>2, <2>4 DEF SemInv
  <1> QED BY <1>2, <1>4, <1>5 DEF IInv

LEMMA SameMainPhase ==
  ASSUME IInv, UNCHANGED <<at, sem, task>>, main = "join", main' \in {"join", "freed", "kept"}
  PROVE  SemInv'
  <1>1. AddedTasks' = AddedTasks
    BY DEF AddedTasks
  <1>2. sem <= Cardinality(AddedTasks) + MaxThreads /\ \A p \in Writers : at[p].pc = "idle"
    BY DEF IInv, SemInv
  <1> QED BY <1>1, <1>2 DEF SemInv

LEMMA JoinKeeps == ASSUME IInv, Join PROVE IInv'
  <1>1. /\ main = "join" /\ Cardinality(joined) < nthreads
        /\ UNCHANGED <<ring, at, nthreads, sem, stop, main, task>>
    BY DEF Join
  <1>2. PICK h : /\ h = Cardinality(joined) + 1 /\ joined' = joined \cup {h}
                 /\ late' = late \/ late' = late \cup {h}
    BY DEF Join
  <1>3. RingInv' /\ LocalInv' /\ Present' /\ TaskInv'
    BY <1>1, MainGoesOn
  <1>4. h \in 1 .. nthreads
    <2>1. joined \subseteq 1 .. nthreads /\ nthreads \in Nat
      BY Known DEF IInv, PoolTypes
    <2>2. IsFiniteSet(joined)
      <3>1. IsFiniteSet(1 .. nthreads)
        BY <2>1, FS_Interval
      <3> QED BY <2>1, <3>1, FS_Subset
    <2>3. Cardinality(joined) \in Nat
      BY <2>2, FS_CardinalityType
    <2> QED BY <1>1, <1>2, <2>1, <2>3
  <1>5. PoolTypes'
    <2>1. late' \subseteq joined' /\ joined' \subseteq 1 .. nthreads
      BY <1>2, <1>4 DEF IInv, PoolTypes
    <2> QED BY <1>1, <2>1 DEF IInv, PoolTypes, AtType, TaskType, Procs
  <1>6. SemInv'
    BY <1>1, SameMainPhase
  <1> QED BY <1>3, <1>5, <1>6 DEF IInv

LEMMA FreePoolKeeps == ASSUME IInv, FreePool PROVE IInv'
  <1>1. /\ main = "join" /\ main' \in {"freed", "kept"}
        /\ UNCHANGED <<ring, at, nthreads, sem, stop, joined, late, task>>
    BY DEF FreePool
  <1>2. RingInv' /\ LocalInv' /\ Present' /\ TaskInv'
    BY <1>1, MainGoesOn
  <1>3. PoolTypes'
    BY <1>1 DEF IInv, PoolTypes, AtType, TaskType, Procs
  <1>4. SemInv'
    BY <1>1, SameMainPhase
  <1> QED BY <1>2, <1>3, <1>4 DEF IInv

LEMMA InitHolds == ASSUME Init PROVE IInv
  <1>0. 0 \in Slots /\ Start \in Slots /\ Distance(Start, Start) = 0
    <2>1. 0 \in Slots /\ Start \in Slots
      BY CapAssumption, ModCap DEF Slots
    <2> QED BY <2>1, Distances
  <1>1. /\ d = [i \in Slots |-> NoItem] /\ whead = Start /\ wtail = Start /\ r = Start
        /\ call = [p \in Procs |-> NoCall]
        /\ at = [p \in Procs |-> IF p \in Writers THEN Idle ELSE [Idle EXCEPT !.pc = "none"]]
        /\ nthreads = 0 /\ sem = 0 /\ stop = FALSE /\ main = "run" /\ joined = {} /\ late = {}
        /\ task = <<>>
    BY DEF Init, RingInit
  <1>2. NoCall \in CallType /\ NoCall.pc = "none"
    BY <1>0 DEF NoCall, CallType
  <1> DEFINE n == [Idle EXCEPT !.pc = "none"]
  <1>3. n \in AtType /\ n.pc = "none" /\ n.t = NoItem /\ Idle \in AtType /\ Idle.pc = "idle"
    BY DEF Idle, AtType, UserPcs, ThreadPcs
  <1>4. /\ \A p \in Writers : at[p] = Idle /\ call[p] = NoCall
        /\ \A h \in Readers : at[h] = n /\ call[h] = NoCall
    BY <1>1, Assumed
  <1>5. at \in [Procs -> AtType] /\ call \in [Procs -> CallType]
    <2> HIDE DEF n
    <2>1. at = [p \in Procs |-> IF p \in Writers THEN Idle ELSE n]
      BY <1>1 DEF n
    <2> QED BY <1>1, <1>2, <1>3, <2>1
  <1> HIDE DEF n
  <1>6. RingInv
    <2>1. RingTypeOK
      BY <1>0, <1>1, <1>5 DEF RingTypeOK
    <2>2. \A p \in Writers : WriterOK(call[p])
      BY <1>2, <1>4 DEF WriterOK, Fills
    <2>3. \A h \in Readers : ReaderOK(call[h])
      BY <1>2, <1>4 DEF ReaderOK
    <2>4. Apart
      BY <1>2, <1>4 DEF Apart, Fills
    <2>5. Distance(r, wtail) <= Distance(r, whead)
      BY <1>0, <1>1
    <2> QED BY <2>1, <2>2, <2>3, <2>4, <2>5 DEF RingInv
  <1>7. PoolTypes
    <2>1. \A p \in Writers : at[p].pc \in UserPcs
      BY <1>3, <1>4 DEF UserPcs
    <2>2. \A h \in Readers : at[h].pc \in ThreadPcs
      BY <1>3, <1>4 DEF ThreadPcs
    <2>3. nthreads \in 0 .. MaxThreads /\ sem \in Nat
      BY <1>1, Assumed
    <2>4. task \in Seq(TaskType) /\ Len(task) <= Budget
      BY <1>1, Assumed
    <2>5. stop \in BOOLEAN /\ main \in {"run", "post", "join", "freed", "kept"}
          /\ late \subseteq joined /\ joined \subseteq 1 .. nthreads
      BY <1>1
    <2> QED BY <1>5, <2>1, <2>2, <2>3, <2>4, <2>5 DEF PoolTypes
  <1>8. LocalInv
    <2>1. \A p \in Writers : UserInv(p)
      BY <1>2, <1>3, <1>4 DEF UserInv
    <2>2. \A h \in Readers : ThreadInv(h)
      <3>1. \A h \in Readers : h > nthreads
        BY <1>1, Assumed
      <3> QED BY <1>2, <1>3, <1>4, <3>1 DEF ThreadInv
    <2> QED BY <2>1, <2>2 DEF LocalInv
  <1>9. Present
    <2>1. \A s \in Slots : ~Filled(s)
      <3>1. \A s \in Slots : Distance(Start, s) \in Nat
        BY <1>0, Distances
      <3> QED BY <1>0, <1>1, <3>1 DEF Filled
    <2> QED BY <1>3, <1>4, <2>1 DEF Present
  <1>10. TaskInv
    <2>1. ASSUME NEW x \in Holders PROVE held[x] = NoItem
      <3>0. held = Held(at, d, r, wtail)
        BY DEF held
      <3>1. CASE \E p \in Writers : x = <<"w", p>>
        BY <1>3, <1>4, <3>0, <3>1, HeldIs
      <3>2. CASE \E s \in Slots : x = <<"s", s>>
        <4>1. PICK s \in Slots : x = <<"s", s>>
          BY <3>2
        <4>2. d[s] = NoItem
          BY <1>1
        <4> QED BY <3>0, <4>1, <4>2, HeldIs
      <3>3. CASE \E h \in Readers : x = <<"h", h>>
        BY <1>3, <1>4, <3>0, <3>3, HeldIs
      <3> QED BY <3>1, <3>2, <3>3, HolderIs
    <2>2. HeldInv
      BY <2>1 DEF HeldInv, Once
    <2>3. \A t \in 1 .. Len(task) : FALSE
      BY <1>1
    <2>4. AddInv
      BY <1>3, <1>4 DEF AddInv
    <2> QED BY <2>2, <2>3, <2>4 DEF TaskInv
  <1>11. SemInv
    <2>1. Cardinality(AddedTasks) \in Nat
      BY <1>7, AddedFinite
    <2> QED BY <1>1, <1>3, <1>4, <2>1 DEF SemInv
  <1> QED BY <1>6, <1>7, <1>8, <1>9, <1>10, <1>11 DEF IInv

LEMMA NextKeeps == ASSUME MayLap = FALSE, IInv, [Next]_vars PROVE IInv'
  <1>1. ASSUME NEW p \in Writers, Add(p) \/ UserStep(p) PROVE IInv'
    BY <1>1, AddKeeps, WritingKeeps, RefusedKeeps, DecideKeeps, NewThreadKeeps, NoThreadKeeps, PostKeeps DEF UserStep
  <1>2. ASSUME NEW t \in 1 .. Len(task), Collect(t) \/ Leave(t) PROVE IInv'
    BY <1>2, CollectKeeps, LeaveKeeps
  <1>3. ASSUME NEW h \in Readers, ThreadStep(h) PROVE IInv'
    BY <1>3, LoopKeeps, ReadingKeeps, WaitKeeps, HandlerKeeps, FreeTaskKeeps DEF ThreadStep
  <1>4. CASE Stop \/ MainStep
    BY <1>4, StopKeeps, WakeAllKeeps, JoinKeeps, FreePoolKeeps DEF MainStep
  <1>5. CASE Terminated \/ UNCHANGED vars
    BY <1>5, StutterKeeps DEF Terminated
  <1> QED BY <1>1, <1>2, <1>3, <1>4, <1>5 DEF Next

(* The invariant holds in every reachable state, for a ring of any size, any number
   of users, threads and tasks. *)
THEOREM Invariance == ASSUME MayLap = FALSE PROVE Spec => []IInv
  <1>1. Init => IInv
    BY InitHolds
  <1>2. IInv /\ [Next]_vars => IInv'
    BY NextKeeps
  <1> QED BY <1>1, <1>2, PTL DEF Spec, SafeSpec
-----------------------------------------------------------------------------
(* The handler of a task is not run twice, no counter of references goes below zero
   and the semaphore is not posted more often than there are tasks and threads. *)
THEOREM TypeCorrect == ASSUME MayLap = FALSE PROVE Spec => []TypeOK
  <1>1. IInv => TypeOK
    <2> SUFFICES ASSUME IInv PROVE TypeOK
      OBVIOUS
    <2>1. sem \in 0 .. Budget + MaxThreads
      <3>1. IsFiniteSet(1 .. Len(task)) /\ Cardinality(1 .. Len(task)) = Len(task) /\ Len(task) \in Nat
        <4>1. Len(task) \in Nat
          BY Known DEF IInv
        <4>2. PICK n \in Nat : n = Len(task)
          BY <4>1
        <4>3. IsFiniteSet(1 .. n) /\ Cardinality(1 .. n) = IF 1 > n THEN 0 ELSE n - 1 + 1
          BY FS_Interval
        <4>4. (IF 1 > n THEN 0 ELSE n - 1 + 1) = n
          OBVIOUS
        <4> QED BY <4>1, <4>2, <4>3, <4>4
      <3>2. AddedTasks \subseteq 1 .. Len(task)
        BY DEF AddedTasks
      <3>3. Cardinality(AddedTasks) <= Len(task) /\ Cardinality(AddedTasks) \in Nat
        <4>1. Cardinality(AddedTasks) <= Cardinality(1 .. Len(task))
          BY <3>1, <3>2, FS_Subset
        <4> QED BY <3>1, <4>1, AddedFinite DEF IInv
      <3>4. sem <= Cardinality(AddedTasks) + MaxThreads /\ sem \in Nat /\ Len(task) <= Budget
        <4>1. sem <= Cardinality(AddedTasks) + IF main \in {"run", "post"} THEN 0 ELSE MaxThreads
          BY DEF IInv, SemInv
        <4>2. sem \in Nat /\ Len(task) <= Budget
          BY Known DEF IInv
        <4> QED BY <3>3, <4>1, <4>2, Assumed
      <3> QED BY <3>1, <3>3, <3>4, Assumed
    <2>2. RingTypeOK
      BY DEF IInv, RingInv
    <2>3. /\ at \in [Procs -> AtType]
          /\ \A p \in Writers : at[p].pc \in UserPcs
          /\ \A h \in Readers : at[h].pc \in ThreadPcs
          /\ nthreads \in 0 .. MaxThreads
          /\ stop \in BOOLEAN /\ main \in {"run", "post", "join", "freed", "kept"}
          /\ late \subseteq joined /\ joined \subseteq 1 .. nthreads
          /\ task \in Seq(TaskType) /\ Len(task) <= Budget
      BY DEF IInv, PoolTypes
    <2> QED BY <2>1, <2>2, <2>3 DEF TypeOK
  <1> QED BY <1>1, Invariance, PTL

(* Appending to a sequence and taking its first element off, element by element. *)
LEMMA AppendIs ==
  ASSUME NEW S, NEW s \in Seq(S), NEW n \in Nat, Len(s) = n, NEW x \in S,
         NEW e \in [1 .. n + 1 -> S], e[n + 1] = x, \A i \in 1 .. n : e[i] = s[i]
  PROVE  Append(s, x) = e
  <1>1. e \in Seq(S) /\ Len(e) = n + 1
    OBVIOUS
  <1>2. /\ Append(s, x) \in Seq(S) /\ Len(Append(s, x)) = n + 1
        /\ Append(s, x)[n + 1] = x /\ \A i \in 1 .. n : Append(s, x)[i] = s[i]
    BY AppendProperties
  <1>3. ASSUME NEW i \in 1 .. n + 1 PROVE Append(s, x)[i] = e[i]
    <2>1. i \in 1 .. n \/ i = n + 1
      OBVIOUS
    <2> QED BY <1>2, <2>1
  <1> QED BY <1>1, <1>2, <1>3, SeqEqual

LEMMA TailIs ==
  ASSUME NEW S, NEW s \in Seq(S), NEW n \in Nat \ {0}, Len(s) = n,
         NEW e \in [1 .. n - 1 -> S], \A i \in 1 .. n - 1 : e[i] = s[i + 1]
  PROVE  Tail(s) = e
  <1>1. e \in Seq(S) /\ Len(e) = n - 1 /\ s # <<>>
    OBVIOUS
  <1>2. /\ Tail(s) \in Seq(S) /\ Len(Tail(s)) = n - 1
        /\ \A i \in 1 .. n - 1 : Tail(s)[i] = s[i + 1]
    BY <1>1, HeadTailProperties
  <1> QED BY <1>1, <1>2, SeqEqual

(* The items of the ring, first to last, are what its filled slots hold. *)
LEMMA CompleteIs ==
  ASSUME RingInv
  PROVE  /\ Complete \in Seq(Items \cup {NoItem}) /\ Len(Complete) = Distance(r, wtail)
         /\ \A i \in 1 .. Distance(r, wtail) : /\ Complete[i] = d[(r + i - 1) % Cap] /\ i \in 1 .. Cap
                                               /\ (r + i - 1) % Cap \in Slots /\ Filled((r + i - 1) % Cap)
  <1>1. Distance(r, wtail) \in Nat /\ Distance(r, wtail) < Cap /\ Cap \in Nat /\ r \in Slots
        /\ d \in [Slots -> Items \cup {NoItem}]
    BY Typed, ModCap
  <1>2. ASSUME NEW i \in 1 .. Distance(r, wtail)
        PROVE  i \in 1 .. Cap /\ (r + i - 1) % Cap \in Slots /\ Filled((r + i - 1) % Cap)
               /\ d[(r + i - 1) % Cap] \in Items \cup {NoItem}
    <2>1. i \in 1 .. Cap /\ i - 1 < Distance(r, wtail)
      BY <1>1
    <2>2. (r + i - 1) % Cap \in Slots /\ Distance(r, (r + i - 1) % Cap) = i - 1
      BY <1>1, <2>1, NthSlot
    <2>3. Filled((r + i - 1) % Cap)
      BY <2>1, <2>2 DEF Filled
    <2>4. d[(r + i - 1) % Cap] \in Items \cup {NoItem}
      BY <1>1, <2>2
    <2> QED BY <2>1, <2>2, <2>3, <2>4
  <1> DEFINE n == Distance(r, wtail)
             e(i) == d[(r + i - 1) % Cap]
  <1>3. Complete = [i \in 1 .. n |-> e(i)]
    BY DEF Complete
  <1>4. n \in Nat /\ \A i \in 1 .. n : e(i) \in Items \cup {NoItem}
    BY <1>1, <1>2
  <1> HIDE DEF n, e
  <1>5. Complete \in Seq(Items \cup {NoItem}) /\ Len(Complete) = n /\ \A i \in 1 .. n : Complete[i] = e(i)
    BY <1>3, <1>4
  <1> QED BY <1>2, <1>5 DEF n, e

LEMMA CompleteHas ==
  ASSUME RingInv, NEW t
  PROVE  (\E i \in 1 .. Len(Complete) : Complete[i] = t) <=> \E s \in Slots : Filled(s) /\ d[s] = t
  <1>1. ASSUME NEW i \in 1 .. Len(Complete), Complete[i] = t PROVE \E s \in Slots : Filled(s) /\ d[s] = t
    BY <1>1, CompleteIs
  <1>2. ASSUME NEW s \in Slots, Filled(s), d[s] = t PROVE \E i \in 1 .. Len(Complete) : Complete[i] = t
    <2> DEFINE i == Distance(r, s) + 1
               m == (r + i - 1) % Cap
    <2>1. r \in Slots /\ Distance(r, s) \in Nat /\ Distance(r, s) < Cap /\ Cap \in Nat /\ Distance(r, wtail) \in Nat
      BY Typed, ModCap, Distances
    <2>2. i \in 1 .. Cap /\ i - 1 = Distance(r, s)
      BY <2>1
    <2>3. i \in 1 .. Distance(r, wtail)
      BY <1>2, <2>1 DEF Filled
    <2> HIDE DEF i
    <2>4. m \in Slots /\ Distance(r, m) = i - 1
      BY <2>1, <2>2, NthSlot
    <2> HIDE DEF m
    <2>5. m = s
      BY <2>1, <2>2, <2>4, SameDistance
    <2>6. Complete[i] = d[m]
      BY <2>3, CompleteIs DEF m
    <2> QED BY <1>2, <2>3, <2>5, <2>6, CompleteIs
  <1> QED BY <1>1, <1>2

(* A task is freed with its last reference, and has one for its user and one for the
   ring or the thread that runs it. *)
THEOREM TaskRefsHolds == ASSUME MayLap = FALSE PROVE Spec => []TaskRefs
  <1>1. IInv => TaskRefs
    <2> SUFFICES ASSUME IInv, NEW t \in 1 .. Len(task)
                 PROVE  /\ task[t].ref = Users(task[t])
                              + IF InRing(t) \/ \E h \in Readers : at[h].t = t THEN 1 ELSE 0
                        /\ task[t].freed <=> task[t].ref = 0
      BY DEF TaskRefs, Users
    <2>0. held = Held(at, d, r, wtail) /\ t # NoItem /\ RingInv
      BY Known DEF held, IInv
    <2>1. InRing(t) \/ (\E h \in Readers : at[h].t = t) <=> IsHeld(held, t)
      <3>1. ASSUME NEW p \in Writers, at[p].pc = "write", at[p].t = t PROVE IsHeld(held, t)
        <4>1. <<"w", p>> \in Holders /\ held[<<"w", p>>] = t
          BY <2>0, <3>1, HeldIs
        <4> QED BY <4>1 DEF IsHeld
      <3>2. ASSUME NEW s \in Slots, Filled(s), d[s] = t PROVE IsHeld(held, t)
        <4>1. <<"s", s>> \in Holders /\ held[<<"s", s>>] = t
          BY <2>0, <3>2, HeldIs DEF Filled
        <4> QED BY <4>1 DEF IsHeld
      <3>3. ASSUME NEW h \in Readers, at[h].t = t PROVE IsHeld(held, t)
        <4>1. <<"h", h>> \in Holders /\ held[<<"h", h>>] = t
          BY <2>0, <3>3, HeldIs
        <4> QED BY <4>1 DEF IsHeld
      <3>4. ASSUME NEW x \in Holders, held[x] = t PROVE InRing(t) \/ \E h \in Readers : at[h].t = t
        <4>1. CASE \E p \in Writers : x = <<"w", p>>
          BY <2>0, <3>4, <4>1, HeldIs DEF InRing
        <4>2. CASE \E s \in Slots : x = <<"s", s>>
          <5>1. PICK s \in Slots : x = <<"s", s>>
            BY <4>2
          <5>2. Filled(s) /\ d[s] = t
            BY <2>0, <3>4, <5>1, HeldIs DEF Filled
          <5> QED BY <2>0, <5>2, CompleteHas DEF InRing
        <4>3. CASE \E h \in Readers : x = <<"h", h>>
          BY <2>0, <3>4, <4>3, HeldIs
        <4> QED BY <4>1, <4>2, <4>3, HolderIs
      <3>5. InRing(t) => IsHeld(held, t)
        BY <2>0, <3>1, <3>2, CompleteHas DEF InRing
      <3> QED BY <3>3, <3>4, <3>5 DEF IsHeld
    <2> QED BY <2>1, RefWas
  <1> QED BY <1>1, Invariance, PTL
-----------------------------------------------------------------------------
(* The ring is a queue.  What readers have taken: *)
Taken(k) == IF k.pc = "read" THEN k.item ELSE NoItem
taken == [h \in Readers |-> Taken(call[h])]

LEMMA TakenIs ==
  ASSUME RingInv
  PROVE  taken = [h \in Readers |-> IF call[h].pc = "read" THEN call[h].item ELSE NoItem]
  BY DEF taken, Taken

(* A step that neither puts an item nor takes one. *)
LEMMA CompleteRests == ASSUME RingInv, RingInv', Same PROVE Complete' = Complete
  <1>1. UNCHANGED <<r, wtail>> /\ \A s \in Slots : Filled(s) => d'[s] = d[s]
    BY DEF Same
  <1>2. \A i \in 1 .. Distance(r, wtail) : d'[(r + i - 1) % Cap] = d[(r + i - 1) % Cap]
    BY <1>1, CompleteIs
  <1> DEFINE n == Distance(r, wtail)
  <1>3. Complete = [i \in 1 .. n |-> d[(r + i - 1) % Cap]] /\ Complete' = [i \in 1 .. n |-> d'[(r + i - 1) % Cap]]
    BY <1>1 DEF Complete, Distance
  <1> HIDE DEF n
  <1>4. \A i \in 1 .. n : d'[(r + i - 1) % Cap] = d[(r + i - 1) % Cap]
    BY <1>2 DEF n
  <1> QED BY <1>3, <1>4

LEMMA RestRefines ==
  ASSUME RingInv, RingInv', Same, taken' = taken
  PROVE  UNCHANGED Promise!vars
  <1>1. Complete' = Complete
    BY CompleteRests
  <1> QED BY <1>1 DEF Promise!vars, taken, Taken

(* The items of writers, and calls of readers that have not ended, are no matter. *)
LEMMA TakenRests ==
  ASSUME NEW p \in Procs, OnlyCall(p), p \in Readers => Taken(call'[p]) = Taken(call[p])
  PROVE  taken' = taken
  <1>1. \A h \in Readers : Taken(call'[h]) = Taken(call[h])
    BY Assumed DEF OnlyCall
  <1>2. taken' = [h \in Readers |-> Taken(call'[h])]
    BY DEF taken, Taken
  <1> QED BY <1>1, <1>2 DEF taken

LEMMA PutRefines ==
  ASSUME IInv, RingInv', NEW p \in Writers, OnlyCall(p), Puts(p), at[p].pc = "write"
  PROVE  Promise!Next
  <1>0. PICK x : x = at[p].t
    OBVIOUS
  <1>1. /\ wtail \in Slots /\ r \in Slots /\ UNCHANGED <<d, r>> /\ wtail' = Inc(wtail) /\ d[wtail] = x
        /\ x \in 1 .. Len(task) /\ p \in Procs /\ p \notin Readers /\ RingInv /\ held[<<"w", p>>] = x
        /\ <<"w", p>> \in Holders
    <2>1. call[p].item = x /\ x \in 1 .. Len(task)
      BY <1>0 DEF IInv, LocalInv, UserInv, TaskInv, AddInv
    <2>2. held[<<"w", p>>] = x /\ <<"w", p>> \in Holders
      BY <1>0, HeldIs DEF held
    <2> QED BY <2>1, <2>2, Typed, Assumed DEF IInv, Puts
  <1>2. x \in Items /\ x # NoItem
    BY <1>1, Known DEF IInv
  <1>3. taken' = taken
    BY <1>1, TakenRests
  <1>4. /\ Distance(r, wtail) \in Nat /\ Distance(r, Inc(wtail)) = Distance(r, wtail) + 1
        /\ Distance(r, Inc(wtail)) < Cap
    <2>1. Inc(wtail) # r
      <3>1. Distance(r, whead) < Cap /\ Distance(r, wtail) < Distance(r, whead) /\ Distance(r, whead) \in Nat
            /\ Distance(r, wtail) \in Nat
        BY <1>1, Typed DEF Reserved, Puts
      <3> QED BY <1>1, <3>1, ModCap, Distances
    <2>2. Inc(wtail) \in Slots
      BY <1>1, Distances
    <2> QED BY <1>1, <2>1, <2>2, Distances
  <1>5. Len(Complete) < Cap - 1
    BY <1>1, <1>4, CompleteIs, ModCap
  <1>6. ~\E i \in 1 .. Len(Complete) : Complete[i] = x
    <2>1. ASSUME NEW s \in Slots, Filled(s), d[s] = x PROVE FALSE
      <3>1. held[<<"s", s>>] = x /\ <<"s", s>> \in Holders
        BY <2>1, HeldIs DEF held, Filled
      <3>2. <<"s", s>> # <<"w", p>>
        OBVIOUS
      <3> QED BY <1>1, <1>2, <3>1, <3>2 DEF IInv, TaskInv, HeldInv, Once
    <2> QED BY <1>1, <2>1, CompleteHas
  <1>7. Complete' = Append(Complete, x)
    <2> DEFINE n == Distance(r, wtail)
    <2>1. /\ Complete \in Seq(Items \cup {NoItem}) /\ Len(Complete) = n
          /\ \A i \in 1 .. n : Complete[i] = d[(r + i - 1) % Cap]
      BY <1>1, CompleteIs
    <2>2. Complete' = [i \in 1 .. n + 1 |-> d[(r + i - 1) % Cap]]
      <3>1. Distance(r, wtail)' = Distance(r, Inc(wtail))
        BY <1>1 DEF Distance
      <3>2. Distance(r, wtail)' = n + 1
        BY <1>4, <3>1
      <3> HIDE DEF n
      <3> QED BY <1>1, <3>2 DEF Complete
    <2>3. d[(r + (n + 1) - 1) % Cap] = x
      <3> DEFINE i == n + 1
                 m == (r + i - 1) % Cap
      <3>1. i \in 1 .. Cap /\ i - 1 = n
        BY <1>4, ModCap
      <3> HIDE DEF i
      <3>2. m \in Slots /\ Distance(r, m) = i - 1
        BY <1>1, <3>1, NthSlot
      <3> HIDE DEF m
      <3>3. m = wtail
        BY <1>1, <3>1, <3>2, SameDistance
      <3> QED BY <1>1, <3>3 DEF m, i
    <2>4. n \in Nat
      BY <1>4
    <2> HIDE DEF n
    <2> DEFINE e(i) == d[(r + i - 1) % Cap]
    <2>5. /\ Complete' = [i \in 1 .. n + 1 |-> e(i)] /\ e(n + 1) = x
          /\ \A i \in 1 .. n : Complete[i] = e(i)
      BY <2>1, <2>2, <2>3
    <2> HIDE DEF e
    <2>6. PICK f : f = Complete'
      OBVIOUS
    <2>7. f[n + 1] = x /\ \A i \in 1 .. n : f[i] = Complete[i]
      BY <2>4, <2>5, <2>6
    <2> DEFINE S == Items \cup {NoItem}
    <2>8. x \in S /\ Complete \in Seq(S) /\ Len(Complete) = n /\ \A i \in 1 .. n : Complete[i] \in S
      BY <1>2, <2>1
    <2>9. f \in [1 .. n + 1 -> S]
      <3>1. ASSUME NEW i \in 1 .. n + 1 PROVE f[i] \in S
        <4>1. i \in 1 .. n \/ i = n + 1
          BY <2>4
        <4> HIDE DEF S
        <4> QED BY <2>7, <2>8, <4>1
      <3> HIDE DEF S
      <3> QED BY <2>5, <2>6, <3>1
    <2> HIDE DEF S
    <2>10. Append(Complete, x) = f
      BY <2>4, <2>7, <2>8, <2>9, AppendIs
    <2> QED BY <2>6, <2>10
  <1>8. Promise!Put(x)
    BY <1>3, <1>5, <1>6, <1>7 DEF Promise!Put, Promise!Queued, taken, Taken
  <1> QED BY <1>2, <1>8 DEF Promise!Next

LEMMA TakeRefines ==
  ASSUME RingInv, RingInv', NEW h \in Readers, OnlyCall(h), Takes(h)
  PROVE  Promise!Next
  <1>1. /\ wtail \in Slots /\ r \in Slots /\ UNCHANGED <<d, wtail>> /\ r' = Inc(r) /\ r # wtail
        /\ call[h].pc = "cas" /\ call'[h].pc = "read" /\ call'[h].item = d[r]
    BY Typed DEF Takes
  <1>2. /\ Distance(r, wtail) \in Nat /\ Distance(r, wtail) > 0 /\ Distance(r, wtail) < Cap
        /\ Distance(Inc(r), wtail) = Distance(r, wtail) - 1
    BY <1>1, Distances
  <1> DEFINE n == Distance(r, wtail)
  <1>3. /\ Complete \in Seq(Items \cup {NoItem}) /\ Len(Complete) = n
        /\ \A i \in 1 .. n : Complete[i] = d[(r + i - 1) % Cap]
    BY CompleteIs
  <1>4. d[(r + 1 - 1) % Cap] = d[r]
    <2>1. 1 \in 1 .. Cap
      BY ModCap
    <2> DEFINE m == (r + 1 - 1) % Cap
    <2>2. m \in Slots /\ Distance(r, m) = 0
      BY <1>1, <2>1, NthSlot
    <2> HIDE DEF m
    <2>3. m = r
      BY <1>1, <2>2, Distances
    <2> QED BY <2>3 DEF m
  <1>5. Complete # <<>> /\ Head(Complete) = d[r]
    <2>1. Complete[1] = d[r] /\ Len(Complete) > 0
      BY <1>2, <1>3, <1>4
    <2> QED BY <1>3, <2>1
  <1>6. Complete' = Tail(Complete)
    <2>1. Distance(r, wtail)' = n - 1
      <3>1. Distance(r, wtail)' = Distance(Inc(r), wtail)
        BY <1>1 DEF Distance
      <3> QED BY <1>2, <3>1
    <2>2. Complete' = [i \in 1 .. n - 1 |-> d[(Inc(r) + i - 1) % Cap]]
      <3> HIDE DEF n
      <3> QED BY <1>1, <2>1 DEF Complete
    <2>3. ASSUME NEW i \in 1 .. n - 1 PROVE d[(Inc(r) + i - 1) % Cap] = Complete[i + 1]
      <3>1. i \in 1 .. Cap /\ i < Cap /\ i + 1 \in 1 .. n
        BY <1>2, ModCap
      <3>2. (Inc(r) + i - 1) % Cap = (r + (i + 1) - 1) % Cap
        BY <1>1, <3>1, NthSlot
      <3> HIDE DEF n
      <3> QED BY <1>3, <3>1, <3>2
    <2> DEFINE e(i) == d[(Inc(r) + i - 1) % Cap]
    <2>4. n \in Nat /\ n > 0 /\ Len(Complete) = n /\ \A i \in 1 .. n - 1 : e(i) = Complete[i + 1]
      BY <1>2, <1>3, <2>3
    <2>5. Complete' = [i \in 1 .. n - 1 |-> e(i)]
      BY <2>2
    <2> HIDE DEF n, e
    <2>6. PICK f : f = Complete'
      OBVIOUS
    <2>7. \A i \in 1 .. n - 1 : f[i] = Complete[i + 1]
      BY <2>4, <2>5, <2>6
    <2> DEFINE S == Items \cup {NoItem}
    <2>8. n \in Nat \ {0} /\ Complete \in Seq(S) /\ \A i \in 1 .. n : Complete[i] \in S
      BY <1>3, <2>4
    <2>9. f \in [1 .. n - 1 -> S]
      <3>1. ASSUME NEW i \in 1 .. n - 1 PROVE f[i] \in S
        <4>1. i + 1 \in 1 .. n
          BY <2>8
        <4> HIDE DEF S
        <4> QED BY <2>7, <2>8, <4>1
      <3> HIDE DEF S
      <3> QED BY <2>5, <2>6, <3>1
    <2> HIDE DEF S
    <2>10. Tail(Complete) = f
      BY <2>4, <2>7, <2>8, <2>9, TailIs
    <2> QED BY <2>6, <2>10
  <1>7. taken[h] = NoItem /\ taken' = [taken EXCEPT ![h] = Head(Complete)]
    <2>1. \A g \in Readers : g # h => call'[g] = call[g]
      BY Assumed DEF OnlyCall
    <2>2. taken' = [g \in Readers |-> Taken(call'[g])] /\ taken = [g \in Readers |-> Taken(call[g])]
      BY DEF taken, Taken
    <2>3. Taken(call'[h]) = d[r] /\ Taken(call[h]) = NoItem
      BY <1>1 DEF Taken
    <2> QED BY <1>5, <2>1, <2>2, <2>3
  <1>8. Promise!Take(h)
    BY <1>5, <1>6, <1>7 DEF Promise!Take, taken, Taken
  <1> QED BY <1>8 DEF Promise!Next

(* A reader that begins a call is done with what it had. *)
LEMMA BeginRefines ==
  ASSUME RingInv, NEW h \in Readers, BeginRead(h)
  PROVE  Promise!Next \/ UNCHANGED Promise!vars
  <1>1. RingInv' /\ OnlyCall(h) /\ Same /\ call'[h].pc = "load"
    BY BeginReadRing
  <1>2. Complete' = Complete
    BY <1>1, CompleteRests
  <1>3. taken' = [taken EXCEPT ![h] = NoItem]
    <2>1. \A g \in Readers : g # h => call'[g] = call[g]
      BY <1>1, Assumed DEF OnlyCall
    <2>2. taken' = [g \in Readers |-> Taken(call'[g])] /\ taken = [g \in Readers |-> Taken(call[g])]
      BY DEF taken, Taken
    <2>3. Taken(call'[h]) = NoItem
      BY <1>1 DEF Taken
    <2> QED BY <2>1, <2>2, <2>3
  <1>4. CASE taken[h] = NoItem
    <2>1. taken' = taken
      BY <1>3, <1>4 DEF taken
    <2> QED BY <1>1, <2>1, RestRefines
  <1>5. CASE taken[h] # NoItem
    <2>1. Promise!Finish(h)
      BY <1>2, <1>3, <1>5 DEF Promise!Finish, taken, Taken
    <2> QED BY <2>1 DEF Promise!Next
  <1> QED BY <1>4, <1>5

LEMMA StepRefines ==
  ASSUME MayLap = FALSE, IInv, [Next]_vars
  PROVE  Promise!Next \/ UNCHANGED Promise!vars
  <1>0. RingInv /\ RingInv'
    BY NextKeeps DEF IInv
  <1>1. CASE UNCHANGED ring
    <2>1. Same /\ taken' = taken
      BY <1>0, <1>1, RingRests DEF taken, Taken
    <2> QED BY <1>0, <2>1, RestRefines
  <1>2. ASSUME NEW p \in Writers, Add(p) PROVE Promise!Next \/ UNCHANGED Promise!vars
    <2>1. PICK t : t = Len(task) + 1
      OBVIOUS
    <2>2. BeginWrite(p, t) /\ t \in Items /\ p \in Procs /\ p \notin Readers
      <3>1. Len(task) \in Nat /\ Len(task) < Budget
        BY <1>2, Known DEF IInv, Add
      <3> QED BY <1>2, <2>1, <3>1, Assumed DEF Add
    <2>3. OnlyCall(p) /\ Same
      BY <1>0, <2>2, BeginWriteRing
    <2> QED BY <1>0, <2>2, <2>3, TakenRests, RestRefines
  <1>3. ASSUME NEW p \in Writers, Writing(p) PROVE Promise!Next \/ UNCHANGED Promise!vars
    <2>1. OnlyCall(p) /\ (WritesOn(p) \/ Puts(p)) /\ at[p].pc = "write"
      BY <1>0, <1>3, WriteStepRing DEF Writing
    <2>2. CASE WritesOn(p)
      <3>1. Same /\ p \in Procs /\ p \notin Readers
        BY <2>2, Assumed DEF WritesOn
      <3> QED BY <1>0, <2>1, <3>1, TakenRests, RestRefines
    <2>3. CASE Puts(p)
      BY <1>0, <2>1, <2>3, PutRefines
    <2> QED BY <2>1, <2>2, <2>3
  <1>4. ASSUME NEW p \in Writers, Refused(p) PROVE Promise!Next \/ UNCHANGED Promise!vars
    <2>1. OnlyCall(p) /\ Same /\ p \in Procs /\ p \notin Readers
      BY <1>0, <1>4, WriteCallRing, Assumed DEF Refused, WritesOn
    <2> QED BY <1>0, <2>1, TakenRests, RestRefines
  <1>5. ASSUME NEW h \in Readers, Loop(h) PROVE Promise!Next \/ UNCHANGED Promise!vars
    BY <1>0, <1>1, <1>5, BeginRefines DEF Loop
  <1>6. ASSUME NEW h \in Readers, Reading(h) PROVE Promise!Next \/ UNCHANGED Promise!vars
    <2>1. OnlyCall(h) /\ (ReadsOn(h) \/ Takes(h))
      BY <1>0, <1>6, ReadStepRing DEF Reading
    <2>2. CASE ReadsOn(h)
      <3>1. Same /\ h \in Procs /\ Taken(call'[h]) = Taken(call[h])
        BY <2>2, Assumed DEF ReadsOn, Taken
      <3> QED BY <1>0, <2>1, <3>1, TakenRests, RestRefines
    <2>3. CASE Takes(h)
      BY <1>0, <2>1, <2>3, TakeRefines
    <2> QED BY <2>1, <2>2, <2>3
  <1>7. ASSUME NEW p \in Writers, Decide(p) \/ NewThread(p) \/ NoThread(p) \/ Post(p) PROVE UNCHANGED ring
    BY <1>7 DEF Decide, NewThread, NoThread, Post
  <1>8. ASSUME NEW t \in 1 .. Len(task), Collect(t) \/ Leave(t) PROVE UNCHANGED ring
    BY <1>8 DEF Collect, Leave
  <1>9. ASSUME NEW h \in Readers, Wait(h) \/ Handler(h) \/ FreeTask(h) PROVE UNCHANGED ring
    BY <1>9 DEF Wait, Handler, FreeTask
  <1>10. CASE Stop \/ MainStep \/ Terminated \/ UNCHANGED vars
    <2>1. UNCHANGED ring
      BY <1>10 DEF Stop, MainStep, WakeAll, Join, FreePool, Terminated, vars
    <2> QED BY <1>1, <2>1
  <1> QED BY <1>1, <1>2, <1>3, <1>4, <1>5, <1>6, <1>7, <1>8, <1>9, <1>10 DEF Next, UserStep, ThreadStep

LEMMA InitRefines == ASSUME Init PROVE Promise!Init
  <1>1. /\ wtail = Start /\ r = Start /\ Start \in Slots /\ call = [p \in Procs |-> NoCall]
    BY CapAssumption, ModCap DEF Init, RingInit, Slots
  <1>2. Distance(r, wtail) = 0
    BY <1>1, Distances
  <1>3. Complete = <<>>
    BY <1>2 DEF Complete
  <1>4. [h \in Readers |-> IF call[h].pc = "read" THEN call[h].item ELSE NoItem] = [h \in Readers |-> NoItem]
    BY <1>1, Assumed DEF NoCall
  <1> QED BY <1>3, <1>4 DEF Promise!Init

(* "Readers and writers can run in parallel": whatever they do between the accesses
   of a call, the ring is a first-in-first-out queue that gives every item to one
   reader. *)
THEOREM Refinement == ASSUME MayLap = FALSE PROVE Spec => ImplementsFifo
  <1>1. Init => Promise!Init
    BY InitRefines
  <1>2. IInv /\ [Next]_vars => [Promise!Next]_(Promise!vars)
    BY StepRefines
  <1> QED BY <1>1, <1>2, Invariance, PTL DEF Spec, SafeSpec, ImplementsFifo, Promise!Spec
=============================================================================
