--------------------------- MODULE FileWriteProofs ---------------------------
(***************************************************************************)
(* Safety of the file writer for any size of the buffers, one or two of    *)
(* them, any number of threads in the pool, any data, seeks and failures.  *)
(***************************************************************************)
EXTENDS FileWrite, FiniteSetTheorems, SequenceTheorems, TLAPS

Mems == {s \in Seq(Units) : Len(s) <= BufSize}
BufType == [len : 0 .. BufSize, off : Positions, mem : Mems]
RunType == {NoRun} \cup [pc : {"run", "wrote", "flagged"}, task : Task]
Files == [Positions -> Units \cup {0}]

UserTypes ==
    /\ upc \in {"idle", "top", "add", "park", "prealloc", "submit", "parked", "done",
                "error", "closing", "closed"}
    /\ data \in Seq(Units) /\ Len(data) + allwr <= MaxLen
    /\ off \in {-1} \cup Positions /\ allwr \in Nat /\ flush \in BOOLEAN /\ woken \in BOOLEAN
    /\ upos \in 0 .. MaxPos + 1 /\ chunks \in 0 .. MaxChunks
    /\ expected \in Files

BufTypes ==
    /\ bufs \in [Bufs -> BufType] /\ locked \in {-1} \cup Bufs /\ buf_r \in Bufs /\ buf_w \in Bufs
    /\ cur_off \in 0 .. MaxPos + 1 /\ cur_len \in 0 .. BufSize - 1

WriterTypes ==
    /\ state \in {"OK", "ASYNC", "CLOSED"}
    /\ {aio_done, nfy_user, completed, iotask, iores, fdOpen, failed} \subseteq BOOLEAN
    /\ size \in 0 .. MaxPos + 1 /\ prealloc_size \in Nat /\ fileSize \in Nat
    /\ queue \in Seq(Task) /\ Len(queue) <= 1
    /\ run \in [PoolThreads -> RunType]
    /\ file \in Files

Types == UserTypes /\ BufTypes /\ WriterTypes

-----------------------------------------------------------------------------
(* The buffers from r on are full, those from w on are not; n units are in the one that is
   being filled and the next one belongs at position o. *)
LayoutOf(B, r, w, n, o) ==
    /\ r = w => \A b \in Bufs : B[b].len # 0 <=> B[r].len # 0
    /\ r # w => B[r].len # 0 /\ B[w].len = 0
    /\ \A b \in Bufs : B[b].len # 0 => /\ Len(B[b].mem) = B[b].len
                                       /\ B[b].off + B[b].len <= MaxPos + 1
    /\ n # 0 => B[w].len = 0 /\ Len(B[w].mem) = n /\ B[w].off + n = o

Layout == LayoutOf(bufs, buf_r, buf_w, cur_len, cur_off)

(* Where the data that is left belongs. *)
Here == IF off = -1 THEN cur_off ELSE off

Outside == {"error", "closing", "closed"}

UserOK ==
    /\ Here + Len(data) = upos
    /\ upc \in {"idle", "prealloc", "submit", "done"} => off = -1
    /\ upc \in {"park", "parked"} /\ off # -1 => off = cur_off
    /\ upc = "idle" => data = <<>> /\ ~flush
    /\ upc = "done" => completed
    /\ fdOpen <=> upc \notin {"closing", "closed"}

(* The write under way: the buffer's task is in the queue, with a thread, or has ended. *)
Pending == {h \in PoolThreads : run[h].pc \in {"run", "wrote"}}
NoWrite == queue = <<>> /\ Pending = {} /\ ~aio_done
IsTask(t) ==
    /\ locked = t.buf /\ t.len = bufs[buf_r].len /\ t.off = bufs[buf_r].off /\ t.was = bufs[buf_r].mem

OnDisk == Overlay(file, bufs[buf_r].off, Take(bufs[buf_r].mem, bufs[buf_r].len)) = file

WriteOK ==
    /\ locked # -1 => locked = buf_r /\ bufs[buf_r].len # 0
    /\ locked = -1 \/ upc \in {"prealloc", "submit"} => NoWrite
    /\ upc \in {"prealloc", "submit"} => locked # -1
    /\ queue # <<>> => Pending = {} /\ ~aio_done /\ IsTask(queue[1])
    /\ \A h \in Pending : /\ queue = <<>> /\ ~aio_done /\ IsTask(run[h].task)
                          /\ \A g \in Pending : g = h
                          /\ run[h].pc = "wrote" /\ iores /\ fdOpen => OnDisk
    /\ aio_done /\ iores /\ fdOpen => OnDisk
    /\ failed /\ upc \notin Outside =>
           locked # -1 /\ ~iores /\ (aio_done \/ \E h \in Pending : run[h].pc = "wrote")

(* What the file becomes when all that was handed over is written. *)
WithBuf(f, b) == Overlay(f, b.off, Take(b.mem, b.len))
Queued(f, B, r) == WithBuf(WithBuf(f, B[r]), B[(r + 1) % NBufs])
ToBeOf(f, B, r, w, n, h, d) ==
    Overlay(Overlay(Queued(f, B, r), B[w].off, Take(B[w].mem, n)), h, d)

ToBe == ToBeOf(file, bufs, buf_r, buf_w, cur_len, Here, data)

DataOK == ~failed /\ upc \notin Outside => ToBe = expected

(* The file's size is where its data ends. *)
SizeOK ==
    /\ size > 0 => file[size - 1] # 0
    /\ upc # "error" => \A p \in Positions : file[p] # 0 /\ p >= size =>
           locked # -1 /\ p < bufs[buf_r].off + bufs[buf_r].len
    /\ upc \in {"closing", "closed"} => fileSize = size

Ended ==
    completed =>
        /\ upc \in {"top", "add", "done", "closing", "closed"} /\ flush /\ data = <<>>
        /\ locked = -1 /\ bufs[buf_r].len = 0 /\ buf_r = buf_w /\ cur_len = 0
        /\ file = expected /\ ~failed

IInv == Types /\ Layout /\ UserOK /\ WriteOK /\ DataOK /\ SizeOK /\ Ended

(* The object has one task at most, is not freed before its last task has ended, and is freed
   once: the task finds the state in which it was left to the pool. *)
Active == {h \in PoolThreads : run[h].pc # "idle"}
Kept ==
    /\ queue # <<>> => Active = {}
    /\ \A g, h \in Active : g = h
    /\ upc = "submit" => queue = <<>> /\ Active = {}
    /\ Busy => freed = 0 /\ state # "OK"
    /\ state = "CLOSED" => upc = "closed"
    /\ freed > 0 => freed = 1 /\ upc = "closed"
FreeOK == freed \in Nat /\ raced \in BOOLEAN /\ lost \in BOOLEAN /\ (raced \/ lost \/ Kept)

-----------------------------------------------------------------------------
LEMMA Assumed ==
  /\ BufSize \in Nat /\ BufSize > 0 /\ NBufs \in {1, 2} /\ Prealloc \in Nat /\ MayFail \in BOOLEAN
  /\ MaxPos \in Nat /\ MaxChunks \in Nat /\ MaxLen \in Nat /\ Seeks \subseteq 0 .. MaxPos
  BY BufAssumption, FailAssumption, BoundAssumption, SeekAssumption

(* One buffer, or two in turn. *)
LEMMA NextBuf ==
  ASSUME NEW r \in Bufs
  PROVE  /\ (r + 1) % NBufs \in Bufs
         /\ NBufs = 1 => Bufs = {0} /\ r = 0 /\ (r + 1) % NBufs = r
         /\ NBufs = 2 => /\ Bufs = {0, 1} /\ (r + 1) % NBufs # r
                         /\ \A b \in Bufs : b = r \/ b = (r + 1) % NBufs
  <1>1. CASE NBufs = 1
    <2>1. Bufs = {0} /\ r = 0
      BY <1>1 DEF Bufs
    <2> QED BY <1>1, <2>1
  <1>2. CASE NBufs = 2
    <2>1. Bufs = {0, 1} /\ (r = 0 \/ r = 1)
      BY <1>2 DEF Bufs
    <2>2. CASE r = 0
      BY <1>2, <2>1, <2>2
    <2>3. CASE r = 1
      BY <1>2, <2>1, <2>3
    <2> QED BY <2>1, <2>2, <2>3
  <1> QED BY <1>1, <1>2, Assumed

LEMMA TakeIs ==
  ASSUME NEW S, NEW s \in Seq(S), NEW k \in 0 .. Len(s)
  PROVE  /\ Take(s, k) \in Seq(S) /\ Len(Take(s, k)) = k
         /\ Drop(s, k) \in Seq(S) /\ Len(Drop(s, k)) = Len(s) - k
         /\ Take(s, k) \o Drop(s, k) = s
         /\ k = 0 => Take(s, k) = <<>> /\ Drop(s, k) = s
         /\ k = Len(s) => Take(s, k) = s
  <1>1. Len(s) \in Nat /\ \A i \in 1 .. Len(s) : s[i] \in S
    BY ElementOfSeq
  <1>2. Take(s, k) \in Seq(S) /\ Len(Take(s, k)) = k
    <2>1. /\ SubSeq(s, 1, k) \in Seq(S)
          /\ Len(SubSeq(s, 1, k)) = IF 1 <= k THEN k - 1 + 1 ELSE 0
      BY <1>1, SubSeqProperties
    <2> QED BY <1>1, <2>1 DEF Take
  <1>3. Drop(s, k) \in Seq(S) /\ Len(Drop(s, k)) = Len(s) - k
    <2>1. /\ SubSeq(s, k + 1, Len(s)) \in Seq(S)
          /\ Len(SubSeq(s, k + 1, Len(s))) = IF k + 1 <= Len(s) THEN Len(s) - (k + 1) + 1 ELSE 0
      BY <1>1, SubSeqProperties
    <2> QED BY <1>1, <2>1 DEF Drop
  <1>4. SubSeq(s, 1, Len(s)) = s
    BY SubSeqFull
  <1>5. Take(s, k) \o Drop(s, k) = s
    <2>1. SubSeq(s, 1, k) \o SubSeq(s, k + 1, Len(s)) = SubSeq(s, 1, Len(s))
      <3>1. 1 \in 1 .. Len(s) + 1 /\ k \in (1 - 1) .. Len(s) /\ Len(s) \in k .. Len(s)
        BY <1>1
      <3> QED BY <3>1, ConcatAdjacentSubSeq
    <2> QED BY <1>4, <2>1 DEF Take, Drop
  <1>6. k = 0 => Take(s, k) = <<>> /\ Drop(s, k) = s
    <2>1. SubSeq(s, 1, 0) = <<>>
      BY SubSeqEmpty
    <2> QED BY <1>4, <2>1 DEF Take, Drop
  <1>7. k = Len(s) => Take(s, k) = s
    BY <1>4 DEF Take
  <1> QED BY <1>2, <1>3, <1>5, <1>6, <1>7

-----------------------------------------------------------------------------
(* Writing to the file. *)
LEMMA OverlayType ==
  ASSUME NEW f \in Files, NEW p \in Nat, NEW s \in Seq(Units)
  PROVE  /\ Overlay(f, p, s) \in Files
         /\ \A x \in Positions : Overlay(f, p, s)[x] = IF x >= p /\ x < p + Len(s) THEN s[x - p + 1] ELSE f[x]
  <1>1. Len(s) \in Nat /\ \A i \in 1 .. Len(s) : s[i] \in Units
    BY ElementOfSeq
  <1>2. DOMAIN f = Positions
    BY DEF Files
  <1>3. Overlay(f, p, s) = [x \in Positions |-> IF x >= p /\ x < p + Len(s) THEN s[x - p + 1] ELSE f[x]]
    BY <1>2 DEF Overlay
  <1>4. ASSUME NEW x \in Positions
        PROVE  (IF x >= p /\ x < p + Len(s) THEN s[x - p + 1] ELSE f[x]) \in Units \cup {0}
    <2>1. CASE x >= p /\ x < p + Len(s)
      <3>1. x - p + 1 \in 1 .. Len(s)
        BY <1>1, <2>1, Assumed DEF Positions
      <3> QED BY <1>1, <2>1, <3>1
    <2>2. CASE ~(x >= p /\ x < p + Len(s))
      BY <2>2 DEF Files
    <2> QED BY <2>1, <2>2
  <1> QED BY <1>3, <1>4 DEF Files

LEMMA OverlayEmpty ==
  ASSUME NEW f \in Files, NEW p \in Nat
  PROVE  Overlay(f, p, <<>>) = f
  <1>1. <<>> \in Seq(Units) /\ Len(<<>>) = 0
    BY EmptySeq
  <1>2. \A x \in Positions : ~(x >= p /\ x < p + Len(<<>>))
    BY <1>1, Assumed DEF Positions
  <1>3. Overlay(f, p, <<>>) \in Files /\ \A x \in Positions : Overlay(f, p, <<>>)[x] = f[x]
    BY <1>1, <1>2, OverlayType
  <1> QED BY <1>3 DEF Files

LEMMA OverlayTwice ==
  ASSUME NEW f \in Files, NEW p \in Nat, NEW s \in Seq(Units)
  PROVE  Overlay(Overlay(f, p, s), p, s) = Overlay(f, p, s)
  <1> DEFINE g == Overlay(f, p, s)
             h == Overlay(g, p, s)
  <1>1. g \in Files /\ \A x \in Positions : g[x] = IF x >= p /\ x < p + Len(s) THEN s[x - p + 1] ELSE f[x]
    BY OverlayType
  <1> HIDE DEF g
  <1>2. h \in Files /\ \A x \in Positions : h[x] = IF x >= p /\ x < p + Len(s) THEN s[x - p + 1] ELSE g[x]
    BY <1>1, OverlayType
  <1> HIDE DEF h
  <1>3. \A x \in Positions : h[x] = g[x]
    BY <1>1, <1>2
  <1>4. h = g
    BY <1>1, <1>2, <1>3 DEF Files
  <1> QED BY <1>4 DEF g, h

LEMMA OverlayConcat ==
  ASSUME NEW f \in Files, NEW p \in Nat, NEW s \in Seq(Units), NEW t \in Seq(Units), NEW q, q = p + Len(s)
  PROVE  Overlay(Overlay(f, p, s), q, t) = Overlay(f, p, s \o t)
  <1> DEFINE g == Overlay(f, p, s)
             h == Overlay(g, q, t)
             k == Overlay(f, p, s \o t)
             st == s \o t
  <1>1. Len(s) \in Nat /\ Len(t) \in Nat /\ q \in Nat
    BY LenProperties
  <1>2. /\ st \in Seq(Units) /\ Len(st) = Len(s) + Len(t)
        /\ \A i \in 1 .. Len(s) + Len(t) : st[i] = IF i <= Len(s) THEN s[i] ELSE t[i - Len(s)]
    BY ConcatProperties
  <1> HIDE DEF st
  <1>3. g \in Files /\ \A x \in Positions : g[x] = IF x >= p /\ x < p + Len(s) THEN s[x - p + 1] ELSE f[x]
    BY OverlayType
  <1> HIDE DEF g
  <1>4. h \in Files /\ \A x \in Positions : h[x] = IF x >= q /\ x < q + Len(t) THEN t[x - q + 1] ELSE g[x]
    BY <1>1, <1>3, OverlayType
  <1>5. Overlay(f, p, st) \in Files /\ \A x \in Positions :
           Overlay(f, p, st)[x] = IF x >= p /\ x < p + Len(st) THEN st[x - p + 1] ELSE f[x]
    BY <1>2, OverlayType
  <1> HIDE DEF h
  <1>6. ASSUME NEW x \in Positions PROVE Overlay(f, p, st)[x] = h[x]
    <2>0. x \in Nat /\ q = p + Len(s)
      BY Assumed DEF Positions
    <2>1. CASE x < p
      BY <1>1, <1>2, <1>3, <1>4, <1>5, <2>0, <2>1
    <2>2. CASE x >= p /\ x < q
      <3>1. x - p + 1 \in 1 .. Len(s) + Len(t) /\ x - p + 1 <= Len(s) /\ x < p + Len(s)
        BY <1>1, <2>0, <2>2
      <3>2. h[x] = g[x] /\ g[x] = s[x - p + 1]
        BY <1>1, <1>3, <1>4, <2>0, <2>2
      <3>3. Overlay(f, p, st)[x] = st[x - p + 1]
        BY <1>1, <1>2, <1>5, <2>0, <2>2, <3>1
      <3> QED BY <1>2, <3>1, <3>2, <3>3
    <2>3. CASE x >= q /\ x < q + Len(t)
      <3>0. x - p + 1 \in Nat /\ x - q + 1 \in Nat
        BY <1>1, <2>0, <2>3
      <3>1. PICK i \in Nat, j \in Nat : i = x - p + 1 /\ j = x - q + 1
        BY <3>0, Zenon
      <3>2. i \in 1 .. Len(s) + Len(t) /\ ~(i <= Len(s)) /\ i - Len(s) = j
        BY <1>1, <2>0, <2>3, <3>1
      <3>3. h[x] = t[j]
        BY <1>4, <2>3, <3>1
      <3>4. Overlay(f, p, st)[x] = st[i]
        BY <1>1, <1>2, <1>5, <2>0, <2>3, <3>1
      <3>5. st[i] = t[i - Len(s)]
        BY <1>2, <3>2
      <3> QED BY <3>2, <3>3, <3>4, <3>5
    <2>4. CASE x >= q + Len(t)
      BY <1>1, <1>2, <1>3, <1>4, <1>5, <2>0, <2>4
    <2> QED BY <1>1, <2>0, <2>1, <2>2, <2>3, <2>4
  <1>7. Overlay(f, p, st) = h
    BY <1>4, <1>5, <1>6 DEF Files
  <1> QED BY <1>7 DEF st, h, g

(* Buffers and the queue of them. *)
LEMMA WithBufType ==
  ASSUME NEW f \in Files, NEW b \in BufType, b.len # 0 => Len(b.mem) = b.len
  PROVE  /\ WithBuf(f, b) \in Files
         /\ b.off \in Nat /\ Take(b.mem, b.len) \in Seq(Units) /\ Len(Take(b.mem, b.len)) = b.len
         /\ WithBuf(WithBuf(f, b), b) = WithBuf(f, b)
         /\ b.len = 0 => WithBuf(f, b) = f
  <1>1. /\ b.mem \in Seq(Units) /\ b.len \in Nat /\ b.off \in Nat
    BY Assumed DEF BufType, Mems, Positions
  <1>2. b.len \in 0 .. Len(b.mem)
    BY <1>1, LenProperties
  <1>3. /\ Take(b.mem, b.len) \in Seq(Units) /\ Len(Take(b.mem, b.len)) = b.len
        /\ b.len = 0 => Take(b.mem, b.len) = <<>>
    <2>1. PICK m \in Seq(Units), k \in Nat : m = b.mem /\ k = b.len
      BY <1>1
    <2>2. k \in 0 .. Len(m)
      BY <1>2, <2>1
    <2>3. Take(m, k) \in Seq(Units) /\ Len(Take(m, k)) = k /\ (k = 0 => Take(m, k) = <<>>)
      BY <2>2, TakeIs
    <2> QED BY <2>1, <2>3
  <1>4. PICK s \in Seq(Units) : s = Take(b.mem, b.len)
    BY <1>3
  <1>5. PICK o \in Nat : o = b.off
    BY <1>1
  <1>6. \A g : WithBuf(g, b) = Overlay(g, o, s)
    BY <1>4, <1>5 DEF WithBuf
  <1>7. Overlay(f, o, s) \in Files /\ Overlay(Overlay(f, o, s), o, s) = Overlay(f, o, s)
    BY OverlayType, OverlayTwice
  <1>8. s = <<>> => Overlay(f, o, s) = f
    BY OverlayEmpty
  <1> QED BY <1>1, <1>3, <1>4, <1>6, <1>7, <1>8

LEMMA QueuedType ==
  ASSUME NEW f \in Files, NEW B \in [Bufs -> BufType], NEW r \in Bufs,
         \A b \in Bufs : B[b].len # 0 => Len(B[b].mem) = B[b].len
  PROVE  /\ Queued(f, B, r) \in Files
         /\ (\A b \in Bufs : B[b].len = 0) => Queued(f, B, r) = f
  <1>1. r \in Bufs /\ (r + 1) % NBufs \in Bufs
    BY NextBuf
  <1>2. PICK n \in Bufs : n = (r + 1) % NBufs
    BY <1>1
  <1>3. B[r] \in BufType /\ B[n] \in BufType
    BY <1>1
  <1>4. WithBuf(f, B[r]) \in Files /\ (B[r].len = 0 => WithBuf(f, B[r]) = f)
    BY <1>3, WithBufType
  <1>5. PICK g \in Files : g = WithBuf(f, B[r])
    BY <1>4
  <1>6. WithBuf(g, B[n]) \in Files /\ (B[n].len = 0 => WithBuf(g, B[n]) = g)
    BY <1>3, WithBufType
  <1>7. Queued(f, B, r) = WithBuf(g, B[n])
    BY <1>2, <1>5 DEF Queued
  <1> QED BY <1>4, <1>5, <1>6, <1>7

(* A buffer that is handed over comes after the ones that wait already. *)
LEMMA QueuedPut ==
  ASSUME NEW f \in Files, NEW B \in [Bufs -> BufType], NEW r \in Bufs, NEW w \in Bufs, NEW c \in BufType,
         \A b \in Bufs : B[b].len # 0 => Len(B[b].mem) = B[b].len,
         c.len # 0 => Len(c.mem) = c.len,
         B[w].len = 0, r = w => \A b \in Bufs : B[b].len = 0
  PROVE  Queued(f, [B EXCEPT ![w] = c], r) = WithBuf(Queued(f, B, r), c)
  <1> DEFINE C == [B EXCEPT ![w] = c]
  <1>1. PICK n \in Bufs : n = (r + 1) % NBufs
    BY NextBuf
  <1>2. Queued(f, C, r) = WithBuf(WithBuf(f, C[r]), C[n]) /\ Queued(f, B, r) = WithBuf(WithBuf(f, B[r]), B[n])
    BY <1>1 DEF Queued
  <1>3. C[w] = c /\ \A b \in Bufs : b # w => C[b] = B[b]
    OBVIOUS
  <1> HIDE DEF C
  <1>4. \A b \in Bufs : B[b] \in BufType
    OBVIOUS
  <1>5. \A g \in Files : WithBuf(g, c) \in Files /\ WithBuf(WithBuf(g, c), c) = WithBuf(g, c)
    BY WithBufType
  <1>6. \A g \in Files, b \in Bufs : WithBuf(g, B[b]) \in Files /\ (B[b].len = 0 => WithBuf(g, B[b]) = g)
    BY <1>4, WithBufType
  <1>7. CASE r = w /\ NBufs = 1
    <2>1. n = r
      BY <1>1, <1>7, NextBuf
    <2>2. Queued(f, B, r) = f
      BY <1>2, <1>6, <1>7
    <2> QED BY <1>2, <1>3, <1>5, <1>7, <2>1, <2>2 DEF C
  <1>8. CASE r = w /\ NBufs = 2
    <2>1. n # r
      BY <1>1, <1>8, NextBuf
    <2>2. Queued(f, B, r) = f
      BY <1>2, <1>6, <1>8
    <2>3. Queued(f, C, r) = WithBuf(WithBuf(f, c), B[n])
      BY <1>2, <1>3, <1>8, <2>1
    <2>4. WithBuf(WithBuf(f, c), B[n]) = WithBuf(f, c)
      BY <1>5, <1>6, <1>8
    <2> QED BY <2>2, <2>3, <2>4 DEF C
  <1>9. CASE r # w
    <2>1. n = w
      BY <1>1, <1>9, NextBuf, Assumed
    <2>2. Queued(f, B, r) = WithBuf(f, B[r])
      BY <1>2, <1>6, <2>1
    <2>3. Queued(f, C, r) = WithBuf(WithBuf(f, B[r]), c)
      BY <1>2, <1>3, <1>9, <2>1
    <2> QED BY <2>2, <2>3 DEF C
  <1> QED BY <1>7, <1>8, <1>9, Assumed

(* The buffer that was being filled and the units taken from the input, or nothing of it. *)
LEMMA Moves ==
  ASSUME NEW Q \in Files, NEW o \in Nat, NEW s \in Seq(Units), NEW here \in Nat, NEW d \in Seq(Units),
         NEW k \in 0 .. Len(d), NEW start \in Nat,
         \/ s = <<>> /\ start = here
         \/ s # <<>> /\ start = o /\ here = o + Len(s)
         \/ start = o /\ k = 0
  PROVE  Overlay(Overlay(Q, start, s \o Take(d, k)), here + k, Drop(d, k)) = Overlay(Overlay(Q, o, s), here, d)
  <1>1. PICK t1 \in Seq(Units) : t1 = Take(d, k) /\ Len(t1) = k /\ (k = 0 => t1 = <<>>)
    BY TakeIs
  <1>2. PICK t2 \in Seq(Units) : t2 = Drop(d, k) /\ t1 \o t2 = d
    BY TakeIs, <1>1
  <1>3. PICK G \in Files : G = Overlay(Q, o, s)
    BY OverlayType
  <1>4. Overlay(Q, start, s \o t1) = Overlay(G, here, t1)
    <2>1. CASE s = <<>> /\ start = here
      <3>1. s \o t1 = t1
        BY <2>1, ConcatEmptySeq
      <3>2. G = Q
        BY <1>3, <2>1, OverlayEmpty
      <3> QED BY <2>1, <3>1, <3>2
    <2>2. CASE s # <<>> /\ start = o /\ here = o + Len(s)
      BY <1>3, <2>2, OverlayConcat
    <2>3. CASE start = o /\ k = 0
      <3>1. s \o t1 = s
        BY <1>1, <2>3, ConcatEmptySeq
      <3>2. Overlay(G, here, t1) = G
        BY <1>1, <2>3, OverlayEmpty
      <3> QED BY <1>3, <2>3, <3>1, <3>2
    <2> QED BY <2>1, <2>2, <2>3
  <1>5. Overlay(Overlay(G, here, t1), here + k, t2) = Overlay(G, here, t1 \o t2)
    <2>1. here + k = here + Len(t1)
      BY <1>1
    <2> QED BY <2>1, OverlayConcat
  <1> QED BY <1>1, <1>2, <1>3, <1>4, <1>5

-----------------------------------------------------------------------------
(* The buffer of the writer as it is being filled. *)
LEMMA BufTyped ==
  ASSUME BufTypes, NEW b \in Bufs
  PROVE  /\ bufs[b] \in BufType /\ bufs[b].len \in 0 .. BufSize /\ bufs[b].off \in Positions
         /\ bufs[b].mem \in Seq(Units) /\ Len(bufs[b].mem) \in 0 .. BufSize
         /\ bufs[b].len \in Nat /\ bufs[b].off \in Nat /\ bufs[b].mem \in Mems
  <1>1. bufs[b] \in BufType
    BY DEF BufTypes
  <1>2. bufs[b].len \in 0 .. BufSize /\ bufs[b].off \in Positions /\ bufs[b].mem \in Mems
    BY <1>1 DEF BufType
  <1>3. bufs[b].mem \in Seq(Units) /\ Len(bufs[b].mem) <= BufSize
    BY <1>2 DEF Mems
  <1>4. Len(bufs[b].mem) \in Nat
    BY <1>3, LenProperties
  <1> QED BY <1>1, <1>2, <1>3, <1>4, Assumed DEF Positions

LEMMA HereTyped ==
  ASSUME Types, UserOK
  PROVE  /\ Here \in 0 .. MaxPos + 1 /\ Here \in Nat /\ Len(data) \in Nat /\ Here + Len(data) <= MaxPos + 1
         /\ data \in Seq(Units)
  <1>1. Len(data) \in Nat /\ data \in Seq(Units)
    BY LenProperties DEF Types, UserTypes
  <1>2. Here \in 0 .. MaxPos + 1
    BY Assumed DEF Types, UserTypes, BufTypes, Here, Positions
  <1> QED BY <1>1, <1>2, Assumed DEF Types, UserTypes, UserOK

(* What fw_buf_add() does: nothing, or the data goes to the buffer, which is kept or handed over. *)
LEMMA BufAddCases ==
  ASSUME Types, Layout, UserOK, NEW add, add = BufAdd(data)
  PROVE  /\ add.cur_off = Here + add.wr /\ add.wr \in 0 .. Len(data)
         /\ \/ /\ BufFull \/ data = <<>>
               /\ cur_len = 0 /\ add.wr = 0 /\ add.cur_len = 0
               /\ add.buf = bufs[buf_w] /\ add.buf_w = buf_w
            \/ /\ ~BufFull /\ cur_len + add.wr # 0 /\ cur_len + add.wr <= BufSize
               /\ add.buf \in BufType
               /\ add.buf.mem = Take(bufs[buf_w].mem, cur_len) \o Take(data, add.wr)
               /\ Len(add.buf.mem) = cur_len + add.wr
               /\ add.buf.off + Len(add.buf.mem) <= MaxPos + 1
               /\ \/ cur_len = 0 /\ add.buf.off = Here
                  \/ cur_len # 0 /\ add.buf.off = bufs[buf_w].off /\ Here = bufs[buf_w].off + cur_len
                  \/ cur_len # 0 /\ add.buf.off = bufs[buf_w].off /\ add.wr = 0
               /\ \/ /\ add.buf.len = 0 /\ add.buf_w = buf_w /\ ~flush
                     /\ add.cur_len = cur_len + add.wr /\ add.cur_len < BufSize
                     /\ add.buf.off + add.cur_len = add.cur_off
                  \/ /\ add.buf.len = cur_len + add.wr /\ add.cur_len = 0
                     /\ add.buf_w = (buf_w + 1) % NBufs
  <1> DEFINE b == bufs[buf_w]
             jump == SeekElsewhere
             full == BufFull
             here == Here
             k == IF full \/ jump THEN 0 ELSE Least(BufSize - cur_len, Len(data))
             filled == cur_len + k
             mem == Take(b.mem, cur_len) \o Take(data, k)
             start == IF cur_len = 0 THEN here ELSE b.off
             push == filled # 0 /\ (filled = BufSize \/ flush \/ jump) /\ ~full
             len == IF push THEN filled ELSE b.len
             buf == IF full \/ filled = 0 THEN b ELSE [len |-> len, off |-> start, mem |-> mem]
  <1>1. add = [wr |-> k, cur_off |-> here + k,
               cur_len |-> IF full THEN cur_len ELSE IF push THEN 0 ELSE filled,
               buf |-> buf, buf_w |-> IF push THEN (buf_w + 1) % NBufs ELSE buf_w]
    BY DEF BufAdd, Here
  <1> HIDE DEF buf
  <1>2. /\ add.wr = k /\ add.cur_off = here + k /\ add.buf = buf
        /\ add.cur_len = IF full THEN cur_len ELSE IF push THEN 0 ELSE filled
        /\ add.buf_w = IF push THEN (buf_w + 1) % NBufs ELSE buf_w
    <2> HIDE DEF k, here, push, filled, full
    <2> QED BY ONLY <1>1
  <1>3. /\ buf_w \in Bufs /\ cur_len \in 0 .. BufSize - 1 /\ cur_len \in Nat /\ BufSize \in Nat /\ BufSize > 0
        /\ cur_off \in 0 .. MaxPos + 1 /\ MaxPos \in Nat
    BY Assumed DEF Types, BufTypes
  <1>4. b \in BufType /\ b.len \in Nat /\ b.off \in Positions /\ b.mem \in Seq(Units) /\ Len(b.mem) \in Nat
    BY <1>3, BufTyped DEF Types
  <1>5. here \in Nat /\ here + Len(data) <= MaxPos + 1 /\ Len(data) \in Nat /\ data \in Seq(Units)
    BY HereTyped
  <1>6. /\ full => cur_len = 0
        /\ ~full => b.len = 0
    BY <1>3, <1>4 DEF BufFull, Layout, LayoutOf
  <1>7. cur_len # 0 => Len(b.mem) = cur_len /\ b.off + cur_len = cur_off
    BY DEF Layout, LayoutOf
  <1>8. /\ jump => cur_len # 0
        /\ ~jump /\ cur_len # 0 => here = cur_off
    BY DEF SeekElsewhere, Here
  <1> HIDE DEF jump, full, here
  <1>9. /\ k \in 0 .. Len(data) /\ cur_len + k <= BufSize
        /\ full \/ jump => k = 0
        /\ ~full /\ ~jump => k = Least(BufSize - cur_len, Len(data))
    BY <1>3, <1>5, <1>6 DEF Least
  <1>10. ~full /\ ~jump /\ cur_len + k = 0 => Len(data) = 0
    BY <1>3, <1>5, <1>9 DEF Least
  <1> HIDE DEF k
  <1>11. /\ mem \in Seq(Units) /\ Len(mem) = cur_len + k
    <2>1. cur_len \in 0 .. Len(b.mem)
      BY <1>3, <1>4, <1>7
    <2>2. Take(b.mem, cur_len) \in Seq(Units) /\ Len(Take(b.mem, cur_len)) = cur_len
      BY <1>4, <2>1, TakeIs
    <2>3. Take(data, k) \in Seq(Units) /\ Len(Take(data, k)) = k
      BY <1>5, <1>9, TakeIs
    <2> QED BY <2>2, <2>3, ConcatProperties
  <1>12. mem = Take(bufs[buf_w].mem, cur_len) \o Take(data, add.wr)
    BY <1>2
  <1> HIDE DEF mem, b
  <1>13. CASE full \/ filled = 0
    <2>1. buf = b /\ cur_len = 0 /\ k = 0 /\ ~push
      BY <1>3, <1>6, <1>9, <1>13 DEF buf
    <2>2. full \/ Len(data) = 0
      BY <1>8, <1>10, <1>13, <2>1
    <2>3. full \/ data = <<>>
      BY <1>5, <2>2, EmptySeq
    <2>4. add.cur_len = 0 /\ add.buf_w = buf_w /\ add.wr = 0 /\ add.buf = bufs[buf_w]
      BY <1>2, <2>1 DEF b
    <2> QED BY <1>2, <1>9, <2>1, <2>3, <2>4 DEF full, here
  <1>14. CASE ~full /\ filled # 0
    <2>1. buf = [len |-> len, off |-> start, mem |-> mem]
      BY <1>14 DEF buf
    <2>2. filled \in 1 .. BufSize
      BY <1>3, <1>9, <1>14
    <2>3. len \in 0 .. BufSize /\ (push => len = filled) /\ (~push => len = 0)
      BY <1>3, <1>4, <1>6, <1>14, <2>2
    <2>4. /\ start \in Positions /\ start + filled <= MaxPos + 1
          /\ \/ cur_len = 0 /\ start = here
             \/ cur_len # 0 /\ start = b.off /\ here = b.off + cur_len
             \/ cur_len # 0 /\ start = b.off /\ k = 0
          /\ ~push => start + filled = here + k
      <3>1. CASE cur_len = 0
        BY <1>3, <1>5, <1>9, <2>2, <3>1 DEF Positions
      <3>2. CASE cur_len # 0 /\ ~jump
        <4>1. here = b.off + cur_len /\ start = b.off
          BY <1>7, <1>8, <3>2
        <4>2. PICK o \in Nat : o = b.off /\ o \in Positions
          BY <1>3, <1>4 DEF Positions
        <4>3. o + filled <= MaxPos + 1 /\ o + filled = here + k
          <5>1. here = o + cur_len
            BY <4>1, <4>2
          <5>2. k \in Nat /\ k <= Len(data)
            BY <1>5, <1>9
          <5>3. here \in Nat /\ cur_len \in Nat /\ Len(data) \in Nat /\ MaxPos \in Nat /\ o \in Nat
            BY <1>3, <1>5
          <5>4. here + Len(data) <= MaxPos + 1
            BY <1>5
          <5>5. o + (cur_len + k) <= MaxPos + 1
            BY ONLY <5>1, <5>2, <5>3, <5>4
          <5>6. o + (cur_len + k) = here + k
            BY ONLY <5>1, <5>2, <5>3
          <5> QED BY <5>5, <5>6
        <4> QED BY <3>2, <4>1, <4>2, <4>3
      <3>3. CASE cur_len # 0 /\ jump
        <4>1. k = 0 /\ start = b.off /\ push
          BY <1>9, <1>14, <3>3
        <4> QED BY <1>3, <1>4, <1>5, <1>7, <1>9, <2>2, <3>3, <4>1 DEF Positions
      <3> QED BY <3>1, <3>2, <3>3
    <2>5. ~push => ~flush /\ filled < BufSize
      BY <1>3, <1>14, <2>2
    <2> HIDE DEF len, start
    <2>6. buf \in BufType
      <3>1. mem \in Mems
        BY <1>11, <2>2 DEF Mems
      <3> QED BY <2>1, <2>3, <2>4, <3>1 DEF BufType
    <2>7. buf.len = len /\ buf.off = start /\ buf.mem = mem
      BY <2>1
    <2> HIDE DEF push
    <2>8. /\ add.buf \in BufType /\ add.buf.mem = Take(bufs[buf_w].mem, cur_len) \o Take(data, add.wr)
          /\ Len(add.buf.mem) = cur_len + add.wr
          /\ add.buf.off + Len(add.buf.mem) <= MaxPos + 1
          /\ \/ cur_len = 0 /\ add.buf.off = Here
             \/ cur_len # 0 /\ add.buf.off = bufs[buf_w].off /\ Here = bufs[buf_w].off + cur_len
             \/ cur_len # 0 /\ add.buf.off = bufs[buf_w].off /\ add.wr = 0
      BY <1>2, <1>11, <1>12, <2>4, <2>6, <2>7 DEF here, b
    <2>9. CASE push
      BY <1>2, <1>9, <1>14, <2>2, <2>3, <2>7, <2>8, <2>9 DEF full, here
    <2>10. CASE ~push
      <3>1. add.buf.len = 0 /\ add.buf_w = buf_w /\ ~flush /\ add.cur_len = filled /\ filled < BufSize
        BY <1>2, <1>14, <2>3, <2>5, <2>7, <2>10
      <3>2. add.buf.off + add.cur_len = add.cur_off
        BY <1>2, <2>4, <2>7, <2>10, <3>1
      <3> QED BY <1>2, <1>9, <1>14, <2>2, <2>8, <3>1, <3>2 DEF full, here
    <2> QED BY <2>9, <2>10
  <1> QED BY <1>13, <1>14

(* The buffers after fw_buf_add() hold what they held and what it took. *)
LEMMA AddKeepsLayout ==
  ASSUME Types, Layout, UserOK, NEW add, add = BufAdd(data), NEW B, B = [bufs EXCEPT ![buf_w] = add.buf]
  PROVE  /\ B \in [Bufs -> BufType] /\ add.buf_w \in Bufs /\ add.cur_len \in 0 .. BufSize - 1
         /\ add.cur_off \in 0 .. MaxPos + 1 /\ add.wr \in 0 .. Len(data) /\ add.cur_off = Here + add.wr
         /\ LayoutOf(B, buf_r, add.buf_w, add.cur_len, add.cur_off)
         /\ bufs[buf_r].len # 0 => B[buf_r] = bufs[buf_r]
         /\ cur_len = 0 /\ data = <<>> => B = bufs /\ add.buf_w = buf_w /\ add.cur_len = 0
         /\ buf_r = add.buf_w /\ B[buf_r].len = 0 =>
               /\ bufs[buf_r].len = 0 /\ buf_w = buf_r
               /\ flush => cur_len = 0 /\ (add.wr = 0 => data = <<>>)
  <1>1. /\ bufs \in [Bufs -> BufType] /\ buf_w \in Bufs /\ buf_r \in Bufs /\ cur_len \in Nat
        /\ cur_len \in 0 .. BufSize - 1 /\ BufSize \in Nat /\ BufSize > 0 /\ MaxPos \in Nat
    BY Assumed DEF Types, BufTypes
  <1>2. Here \in Nat /\ Here + Len(data) <= MaxPos + 1 /\ Len(data) \in Nat /\ data \in Seq(Units)
    BY HereTyped
  <1>3. LayoutOf(bufs, buf_r, buf_w, cur_len, cur_off)
    BY DEF Layout
  <1>4. add.wr \in 0 .. Len(data) /\ add.cur_off = Here + add.wr /\ add.cur_off \in 0 .. MaxPos + 1
    <2>1. add.wr \in 0 .. Len(data) /\ add.cur_off = Here + add.wr
      BY BufAddCases
    <2>2. PICK k \in 0 .. Len(data) : k = add.wr
      BY <2>1
    <2>3. Here + k \in 0 .. MaxPos + 1
      BY <1>1, <1>2
    <2> QED BY <2>1, <2>2, <2>3
  <1>5. CASE /\ BufFull \/ data = <<>>
             /\ cur_len = 0 /\ add.wr = 0 /\ add.cur_len = 0
             /\ add.buf = bufs[buf_w] /\ add.buf_w = buf_w
    <2>1. B = bufs
      BY <1>1, <1>5
    <2>2. LayoutOf(B, buf_r, add.buf_w, add.cur_len, add.cur_off)
      BY <1>3, <1>5, <2>1 DEF LayoutOf
    <2>3. buf_r = add.buf_w /\ B[buf_r].len = 0 => data = <<>> /\ bufs[buf_r].len = 0 /\ buf_w = buf_r
      BY <1>5, <2>1 DEF BufFull
    <2> QED BY <1>1, <1>4, <1>5, <2>1, <2>2, <2>3
  <1>6. ASSUME ~BufFull, cur_len + add.wr # 0, cur_len + add.wr <= BufSize, add.buf \in BufType,
               Len(add.buf.mem) = cur_len + add.wr, add.buf.off + Len(add.buf.mem) <= MaxPos + 1,
               \/ /\ add.buf.len = 0 /\ add.buf_w = buf_w /\ ~flush
                  /\ add.cur_len = cur_len + add.wr /\ add.cur_len < BufSize
                  /\ add.buf.off + add.cur_len = add.cur_off
               \/ /\ add.buf.len = cur_len + add.wr /\ add.cur_len = 0
                  /\ add.buf_w = (buf_w + 1) % NBufs
        PROVE  /\ B \in [Bufs -> BufType] /\ add.buf_w \in Bufs /\ add.cur_len \in 0 .. BufSize - 1
               /\ LayoutOf(B, buf_r, add.buf_w, add.cur_len, add.cur_off)
               /\ bufs[buf_r].len # 0 => B[buf_r] = bufs[buf_r]
               /\ ~(cur_len = 0 /\ data = <<>>)
               /\ buf_r = add.buf_w /\ B[buf_r].len = 0 => bufs[buf_r].len = 0 /\ buf_w = buf_r /\ ~flush
    <2>1. B \in [Bufs -> BufType] /\ B[buf_w] = add.buf /\ \A b \in Bufs : b # buf_w => B[b] = bufs[b]
      BY <1>1, <1>6
    <2>2. /\ bufs[buf_w].len = 0 /\ (buf_r = buf_w => \A b \in Bufs : bufs[b].len = 0)
      <3>1. bufs[buf_w].len = 0
        BY <1>3, <1>6 DEF LayoutOf, BufFull
      <3>2. buf_r = buf_w => \A b \in Bufs : bufs[b].len = 0
        BY <1>3, <3>1 DEF LayoutOf
      <3> QED BY <3>1, <3>2
    <2>3. bufs[buf_r].len # 0 => B[buf_r] = bufs[buf_r]
      BY <1>1, <2>1, <2>2
    <2>4. ~(cur_len = 0 /\ data = <<>>)
      <3>1. SUFFICES ASSUME data = <<>> PROVE cur_len # 0
        OBVIOUS
      <3>2. Len(data) = 0
        BY <3>1, EmptySeq
      <3>3. add.wr = 0
        BY <1>4, <3>2
      <3> QED BY <1>1, <1>6, <3>3
    <2>5. PICK m \in Nat : m = cur_len + add.wr /\ m > 0 /\ m <= BufSize
      BY <1>1, <1>2, <1>4, <1>6
    <2>6. \A b \in Bufs : B[b].len # 0 => Len(B[b].mem) = B[b].len /\ B[b].off + B[b].len <= MaxPos + 1
      <3>1. SUFFICES ASSUME NEW b \in Bufs, B[b].len # 0
                     PROVE  Len(B[b].mem) = B[b].len /\ B[b].off + B[b].len <= MaxPos + 1
        OBVIOUS
      <3>2. CASE b = buf_w
        BY <1>6, <2>1, <3>1, <3>2
      <3>3. CASE b # buf_w
        BY <1>3, <2>1, <3>1, <3>3 DEF LayoutOf
      <3> QED BY <3>2, <3>3
    <2>7. CASE /\ add.buf.len = 0 /\ add.buf_w = buf_w /\ ~flush
               /\ add.cur_len = cur_len + add.wr /\ add.cur_len < BufSize
               /\ add.buf.off + add.cur_len = add.cur_off
      <3>1. \A b \in Bufs : B[b].len = bufs[b].len
        BY <2>1, <2>2, <2>7
      <3>2. LayoutOf(B, buf_r, add.buf_w, add.cur_len, add.cur_off)
        <4>1. buf_r = buf_w => \A b \in Bufs : B[b].len = 0
          BY <2>2, <3>1
        <4>2. buf_r # buf_w => B[buf_r].len # 0 /\ B[buf_w].len = 0
          BY <1>1, <1>3, <3>1 DEF LayoutOf
        <4>3. B[buf_w].len = 0 /\ Len(B[buf_w].mem) = add.cur_len /\ B[buf_w].off + add.cur_len = add.cur_off
          BY <1>6, <2>1, <2>7
        <4> QED BY <1>1, <2>6, <2>7, <4>1, <4>2, <4>3 DEF LayoutOf
      <3>3. buf_r = add.buf_w => bufs[buf_r].len = 0 /\ buf_w = buf_r /\ ~flush
        BY <2>2, <2>7
      <3>4. add.cur_len \in 0 .. BufSize - 1
        BY <1>1, <2>5, <2>7
      <3> QED BY <1>1, <2>1, <2>3, <2>4, <2>7, <3>2, <3>3, <3>4
    <2>8. CASE /\ add.buf.len = cur_len + add.wr /\ add.cur_len = 0
               /\ add.buf_w = (buf_w + 1) % NBufs
      <3>1. B[buf_w].len # 0 /\ add.buf_w \in Bufs
        BY <1>1, <1>6, <2>1, <2>8, NextBuf
      <3>2. /\ buf_r = add.buf_w => (\A b \in Bufs : B[b].len # 0)
            /\ buf_r # add.buf_w => B[buf_r].len # 0 /\ B[add.buf_w].len = 0
        <4>1. CASE NBufs = 1
          <5>1. \A b \in Bufs : b = buf_w
            BY <1>1, <4>1, NextBuf
          <5> QED BY <1>1, <3>1, <5>1
        <4>2. CASE NBufs = 2
          <5>1. add.buf_w # buf_w /\ \A b \in Bufs : b = buf_w \/ b = add.buf_w
            BY <1>1, <2>8, <4>2, NextBuf
          <5>2. CASE buf_r = buf_w
            BY <2>1, <2>2, <3>1, <5>1, <5>2
          <5>3. CASE buf_r # buf_w
            <6>1. bufs[buf_r].len # 0
              BY <1>3, <5>3 DEF LayoutOf
            <6>2. buf_r = add.buf_w
              BY <1>1, <5>1, <5>3
            <6> QED BY <2>3, <3>1, <5>1, <6>1, <6>2
          <5> QED BY <5>2, <5>3
        <4> QED BY <4>1, <4>2, Assumed
      <3>3. LayoutOf(B, buf_r, add.buf_w, add.cur_len, add.cur_off)
        BY <1>1, <2>6, <2>8, <3>2 DEF LayoutOf
      <3>4. add.cur_len \in 0 .. BufSize - 1
        BY <1>1, <2>8
      <3> QED BY <1>1, <2>1, <2>3, <2>4, <3>1, <3>2, <3>3, <3>4
    <2> QED BY <1>6, <2>7, <2>8
  <1> QED
    <2>1. \/ /\ BufFull \/ data = <<>>
             /\ cur_len = 0 /\ add.wr = 0 /\ add.cur_len = 0
             /\ add.buf = bufs[buf_w] /\ add.buf_w = buf_w
          \/ /\ ~BufFull /\ cur_len + add.wr # 0 /\ cur_len + add.wr <= BufSize /\ add.buf \in BufType
             /\ Len(add.buf.mem) = cur_len + add.wr /\ add.buf.off + Len(add.buf.mem) <= MaxPos + 1
             /\ \/ /\ add.buf.len = 0 /\ add.buf_w = buf_w /\ ~flush
                   /\ add.cur_len = cur_len + add.wr /\ add.cur_len < BufSize
                   /\ add.buf.off + add.cur_len = add.cur_off
                \/ /\ add.buf.len = cur_len + add.wr /\ add.cur_len = 0
                   /\ add.buf_w = (buf_w + 1) % NBufs
      BY BufAddCases
    <2> QED BY <1>4, <1>5, <1>6, <2>1

LEMMA AddKeepsData ==
  ASSUME Types, Layout, UserOK, NEW add, add = BufAdd(data), NEW B, B = [bufs EXCEPT ![buf_w] = add.buf]
  PROVE  ToBeOf(file, B, buf_r, add.buf_w, add.cur_len, Here + add.wr, Drop(data, add.wr)) = ToBe
  <1>1. /\ bufs \in [Bufs -> BufType] /\ buf_w \in Bufs /\ buf_r \in Bufs /\ cur_len \in Nat
        /\ cur_len \in 0 .. BufSize - 1 /\ BufSize \in Nat /\ file \in Files
    BY Assumed DEF Types, BufTypes, WriterTypes
  <1>2. Here \in Nat /\ Len(data) \in Nat /\ data \in Seq(Units)
    BY HereTyped
  <1>3. LayoutOf(bufs, buf_r, buf_w, cur_len, cur_off)
    BY DEF Layout
  <1>4. PICK k \in 0 .. Len(data) : k = add.wr
    BY BufAddCases
  <1>5. PICK o \in Nat, m \in Seq(Units), s \in Seq(Units) :
           o = bufs[buf_w].off /\ m = bufs[buf_w].mem /\ s = Take(m, cur_len) /\ Len(s) = cur_len
           /\ (cur_len = 0 => s = <<>>)
    <2>1. bufs[buf_w].off \in Nat /\ bufs[buf_w].mem \in Seq(Units) /\ Len(bufs[buf_w].mem) \in Nat
      BY <1>1, BufTyped DEF Types
    <2>2. PICK m \in Seq(Units) : m = bufs[buf_w].mem
      BY <2>1
    <2>3. cur_len \in 0 .. Len(m)
      BY <1>1, <1>3, <2>1, <2>2 DEF LayoutOf
    <2>4. Take(m, cur_len) \in Seq(Units) /\ Len(Take(m, cur_len)) = cur_len
          /\ (cur_len = 0 => Take(m, cur_len) = <<>>)
      BY <2>3, TakeIs
    <2> QED BY <2>1, <2>2, <2>4
  <1>6. PICK Q \in Files : Q = Queued(file, bufs, buf_r)
    BY <1>1, <1>3, QueuedType DEF LayoutOf
  <1>7. ToBe = Overlay(Overlay(Q, o, s), Here, data)
    BY <1>5, <1>6 DEF ToBe, ToBeOf
  <1>8. CASE /\ cur_len = 0 /\ add.wr = 0 /\ add.cur_len = 0
             /\ add.buf = bufs[buf_w] /\ add.buf_w = buf_w
    <2>1. B = bufs
      BY <1>1, <1>8
    <2>2. Drop(data, 0) = data
      BY <1>2, TakeIs
    <2>3. Here + 0 = Here
      BY <1>2
    <2> QED BY <1>8, <2>1, <2>2, <2>3 DEF ToBe
  <1>9. ASSUME ~BufFull, cur_len + add.wr # 0, add.buf \in BufType,
               add.buf.mem = Take(bufs[buf_w].mem, cur_len) \o Take(data, add.wr),
               Len(add.buf.mem) = cur_len + add.wr,
               \/ cur_len = 0 /\ add.buf.off = Here
               \/ cur_len # 0 /\ add.buf.off = bufs[buf_w].off /\ Here = bufs[buf_w].off + cur_len
               \/ cur_len # 0 /\ add.buf.off = bufs[buf_w].off /\ add.wr = 0,
               \/ add.buf.len = 0 /\ add.buf_w = buf_w /\ add.cur_len = cur_len + add.wr
               \/ add.buf.len = cur_len + add.wr /\ add.cur_len = 0 /\ add.buf_w = (buf_w + 1) % NBufs
        PROVE  ToBeOf(file, B, buf_r, add.buf_w, add.cur_len, Here + add.wr, Drop(data, add.wr)) = ToBe
    <2>1. B \in [Bufs -> BufType] /\ B[buf_w] = add.buf
      BY <1>1, <1>9
    <2>2. PICK start \in Nat, mem \in Seq(Units) : start = add.buf.off /\ mem = add.buf.mem
      <3>1. add.buf.off \in Nat /\ add.buf.mem \in Seq(Units)
        <4>1. \A c \in BufType : c.off \in Nat /\ c.mem \in Seq(Units)
          BY Assumed DEF BufType, Mems, Positions
        <4> QED BY <1>9, <4>1
      <3> QED BY <3>1, Zenon
    <2>3. mem = s \o Take(data, k) /\ Len(mem) = cur_len + k
      BY <1>4, <1>5, <1>9, <2>2
    <2>4. Overlay(Overlay(Q, start, s \o Take(data, k)), Here + k, Drop(data, k)) = Overlay(Overlay(Q, o, s), Here, data)
      <3>1. \/ s = <<>> /\ start = Here
            \/ s # <<>> /\ start = o /\ Here = o + Len(s)
            \/ start = o /\ k = 0
        <4>1. cur_len # 0 => s # <<>>
          BY <1>5, EmptySeq
        <4> QED BY <1>4, <1>5, <1>9, <2>2, <4>1
      <3> HIDE DEF Here
      <3> QED BY <1>2, <3>1, Moves
    <2>5. Overlay(Overlay(Q, start, mem), Here + k, Drop(data, k)) = ToBe
      BY <1>7, <2>3, <2>4
    <2>6. Take(mem, Len(mem)) = mem /\ Len(mem) \in Nat /\ Len(mem) # 0
      <3>1. Len(mem) \in Nat
        BY LenProperties
      <3>2. Len(mem) \in 0 .. Len(mem)
        BY <3>1
      <3>3. Take(mem, Len(mem)) = mem
        BY <3>2, TakeIs
      <3> QED BY <1>4, <1>9, <2>3, <3>1, <3>3
    <2>7. Queued(file, B, buf_r) = WithBuf(Q, add.buf)
      <3>1. bufs[buf_w].len = 0 /\ (buf_r = buf_w => \A b \in Bufs : bufs[b].len = 0)
        <4>1. bufs[buf_w].len = 0
          BY <1>3, <1>9 DEF LayoutOf, BufFull
        <4> QED BY <1>3, <4>1 DEF LayoutOf
      <3>2. \A b \in Bufs : bufs[b].len # 0 => Len(bufs[b].mem) = bufs[b].len
        BY <1>3 DEF LayoutOf
      <3>3. add.buf.len # 0 => Len(add.buf.mem) = add.buf.len
        BY <1>9
      <3>4. PICK c \in BufType : c = add.buf
        BY <1>9
      <3>5. Queued(file, [bufs EXCEPT ![buf_w] = c], buf_r) = WithBuf(Queued(file, bufs, buf_r), c)
        <4>1. c.len # 0 => Len(c.mem) = c.len
          BY <3>3, <3>4
        <4> QED BY ONLY <1>1, <3>1, <3>2, <4>1, c \in BufType, QueuedPut
      <3> QED BY <1>6, <3>4, <3>5
    <2>8. WithBuf(Q, add.buf) = Overlay(Q, start, Take(mem, add.buf.len))
      BY <2>2 DEF WithBuf
    <2>9. Take(mem, 0) = <<>>
      <3>1. 0 \in 0 .. Len(mem)
        BY <2>6
      <3> QED BY <3>1, TakeIs
    <2>10. CASE add.buf.len = 0 /\ add.buf_w = buf_w /\ add.cur_len = cur_len + add.wr
      <3>1. Queued(file, B, buf_r) = Q
        BY <2>7, <2>8, <2>9, <2>10, OverlayEmpty
      <3>2. B[add.buf_w].off = start /\ Take(B[add.buf_w].mem, add.cur_len) = mem
        BY <1>4, <2>1, <2>2, <2>3, <2>6, <2>10
      <3> QED BY <1>4, <2>5, <3>1, <3>2 DEF ToBeOf
    <2>11. CASE add.buf.len = cur_len + add.wr /\ add.cur_len = 0 /\ add.buf_w = (buf_w + 1) % NBufs
      <3>1. Queued(file, B, buf_r) = Overlay(Q, start, mem)
        BY <1>4, <2>3, <2>6, <2>7, <2>8, <2>11
      <3>2. PICK R \in Files : R = Overlay(Q, start, mem)
        BY OverlayType
      <3>3. PICK n \in Bufs : n = add.buf_w
        BY <1>1, <2>11, NextBuf
      <3>4. B[n].off \in Nat /\ B[n].mem \in Seq(Units)
        BY <2>1, Assumed DEF BufType, Mems, Positions
      <3>5. Take(B[n].mem, 0) = <<>>
        <4>1. PICK u \in Seq(Units) : u = B[n].mem
          BY <3>4
        <4>2. 0 \in 0 .. Len(u)
          BY LenProperties
        <4>3. Take(u, 0) = <<>>
          BY <4>2, TakeIs
        <4> QED BY <4>1, <4>3
      <3>6. Overlay(R, B[n].off, <<>>) = R
        BY <3>4, OverlayEmpty
      <3> QED BY <1>4, <2>5, <2>11, <3>1, <3>2, <3>3, <3>5, <3>6 DEF ToBeOf
    <2> QED BY <1>9, <2>10, <2>11
  <1> QED
    <2>1. \/ /\ cur_len = 0 /\ add.wr = 0 /\ add.cur_len = 0
             /\ add.buf = bufs[buf_w] /\ add.buf_w = buf_w
          \/ /\ ~BufFull /\ cur_len + add.wr # 0 /\ add.buf \in BufType
             /\ add.buf.mem = Take(bufs[buf_w].mem, cur_len) \o Take(data, add.wr)
             /\ Len(add.buf.mem) = cur_len + add.wr
             /\ \/ cur_len = 0 /\ add.buf.off = Here
                \/ cur_len # 0 /\ add.buf.off = bufs[buf_w].off /\ Here = bufs[buf_w].off + cur_len
                \/ cur_len # 0 /\ add.buf.off = bufs[buf_w].off /\ add.wr = 0
             /\ \/ add.buf.len = 0 /\ add.buf_w = buf_w /\ add.cur_len = cur_len + add.wr
                \/ add.buf.len = cur_len + add.wr /\ add.cur_len = 0 /\ add.buf_w = (buf_w + 1) % NBufs
      BY BufAddCases
    <2> QED BY <1>8, <1>9, <2>1

-----------------------------------------------------------------------------
(* The invariant holds at the start and after every step. *)
LEMMA TaskBuf ==
  ASSUME WriterTypes, BufTypes
  PROVE  /\ queue # <<>> => queue[1] \in Task
         /\ \A h \in Pending : run[h].task \in Task
         /\ \A t \in Task : t.buf \in Bufs /\ t.buf # -1
  <1>1. queue # <<>> => queue[1] \in Task
    <2>1. SUFFICES ASSUME queue # <<>> PROVE queue[1] \in Task
      OBVIOUS
    <2>2. queue \in Seq(Task) /\ Head(queue) \in Task
      BY <2>1, HeadTailProperties DEF WriterTypes
    <2> QED BY <2>2 DEF WriterTypes
  <1>2. ASSUME NEW h \in Pending PROVE run[h].task \in Task
    <2>1. h \in PoolThreads /\ run[h].pc \in {"run", "wrote"}
      BY DEF Pending
    <2>2. run[h] \in RunType /\ run[h] # NoRun
      BY <2>1 DEF WriterTypes, NoRun
    <2> QED BY <2>2 DEF RunType
  <1>3. \A t \in Task : t.buf \in Bufs /\ t.buf # -1
    BY Assumed DEF Task, Bufs
  <1> QED BY <1>1, <1>2, <1>3

(* While a write is under way the buffer that is being written is locked. *)
LEMMA WritePending ==
  ASSUME WriterTypes, BufTypes, WriteOK, ~NoWrite
  PROVE  locked = buf_r /\ locked # -1 /\ bufs[buf_r].len # 0
  <1>1. locked # -1
    BY DEF WriteOK
  <1> QED BY <1>1 DEF WriteOK

LEMMA InitStep ==
  ASSUME Init
  PROVE  IInv
  <1>0. Init
    OBVIOUS
  <1>1. <<>> \in Seq(Units) /\ <<>> \in Seq(Task) /\ Len(<<>>) = 0
    BY EmptySeq
  <1>2. 0 \in Bufs /\ 0 \in Positions /\ 0 \in 0 .. BufSize - 1 /\ 0 \in 0 .. MaxPos + 1 /\ 0 \in 0 .. BufSize
    BY Assumed DEF Bufs, Positions
  <1>3. Types
    <2>1. UserTypes
      <3>1. expected \in Files
        BY <1>0 DEF Init, Files
      <3>2. 0 \in 0 .. MaxChunks
        BY Assumed
      <3>3. data \in Seq(Units) /\ Len(data) = 0 /\ allwr = 0
        BY <1>0, <1>1 DEF Init
      <3>4. Len(data) + allwr <= MaxLen /\ allwr \in Nat
        BY <3>3, Assumed
      <3>5. upos \in 0 .. MaxPos + 1 /\ chunks \in 0 .. MaxChunks
        BY <1>0, <1>2, <3>2 DEF Init
      <3>6. off \in {-1} \cup Positions /\ flush \in BOOLEAN /\ woken \in BOOLEAN /\ upc = "idle"
        BY <1>0 DEF Init
      <3> QED BY <3>1, <3>3, <3>4, <3>5, <3>6 DEF UserTypes
    <2>2. BufTypes
      <3>1. <<>> \in Mems
        BY <1>1, Assumed DEF Mems
      <3>2. [len |-> 0, off |-> 0, mem |-> <<>>] \in BufType
        BY <1>2, <3>1 DEF BufType
      <3>3. bufs \in [Bufs -> BufType]
        BY <1>0, <3>2 DEF Init
      <3> QED BY <1>0, <1>2, <3>3 DEF Init, BufTypes
    <2>3. WriterTypes
      <3>1. file \in Files
        BY <1>0 DEF Init, Files
      <3>2. run \in [PoolThreads -> RunType]
        BY <1>0 DEF Init, RunType
      <3>3. {aio_done, nfy_user, completed, iotask, iores, fdOpen, failed} \subseteq BOOLEAN
        BY <1>0 DEF Init
      <3>4. state = "OK" /\ size \in 0 .. MaxPos + 1 /\ prealloc_size = 0 /\ fileSize = 0
            /\ queue \in Seq(Task) /\ Len(queue) = 0
        BY <1>0, <1>1, <1>2 DEF Init
      <3> QED BY <3>1, <3>2, <3>3, <3>4 DEF WriterTypes
    <2> QED BY <2>1, <2>2, <2>3 DEF Types
  <1>4. \A b \in Bufs : bufs[b].len = 0
    BY <1>0 DEF Init
  <1>5. Layout
    BY <1>0, <1>2, <1>4 DEF Init, Layout, LayoutOf
  <1>6. UserOK
    BY <1>0, <1>1 DEF Init, UserOK, Here
  <1>7. Pending = {}
    BY <1>0 DEF Init, Pending, NoRun
  <1>8. WriteOK
    BY <1>0, <1>7 DEF Init, WriteOK, NoWrite
  <1>9. DataOK
    <2>1. file \in Files /\ file = expected /\ bufs \in [Bufs -> BufType] /\ buf_r \in Bufs /\ buf_w \in Bufs
      BY <1>0, <1>3 DEF Init, Types, BufTypes, WriterTypes
    <2>2. Queued(file, bufs, buf_r) = file
      BY <1>4, <2>1, QueuedType
    <2>3. bufs[buf_w].off = 0 /\ Take(bufs[buf_w].mem, cur_len) = <<>>
      <3>1. bufs[buf_w].mem = <<>> /\ bufs[buf_w].off = 0 /\ cur_len = 0
        BY <1>0, <2>1 DEF Init
      <3>2. Take(<<>>, 0) = <<>>
        <4>1. PICK m \in Seq(Units) : m = <<>>
          BY <1>1
        <4>2. 0 \in 0 .. Len(m)
          BY LenProperties
        <4>3. Take(m, 0) = <<>>
          BY <4>2, TakeIs
        <4> QED BY <4>1, <4>3
      <3> QED BY <3>1, <3>2
    <2>4. Overlay(file, 0, <<>>) = file /\ Here = 0 /\ data = <<>>
      BY <1>0, <2>1, OverlayEmpty DEF Init, Here
    <2> QED BY <2>1, <2>2, <2>3, <2>4 DEF DataOK, ToBe, ToBeOf
  <1>10. SizeOK
    BY <1>0 DEF Init, SizeOK
  <1>11. Ended
    BY <1>0 DEF Init, Ended
  <1> QED BY <1>3, <1>5, <1>6, <1>8, <1>9, <1>10, <1>11 DEF IInv

LEMMA AddStep ==
  ASSUME IInv, Add
  PROVE  IInv'
  <1>0. Types /\ Layout /\ UserOK /\ WriteOK /\ DataOK /\ SizeOK /\ Ended /\ upc = "add"
    BY DEF IInv, Add
  <1>1. PICK add : add = BufAdd(data)
    OBVIOUS
  <1>2. /\ bufs' = [bufs EXCEPT ![buf_w] = add.buf] /\ buf_w' = add.buf_w /\ buf_r' = buf_r
        /\ cur_off' = add.cur_off /\ cur_len' = add.cur_len /\ data' = Drop(data, add.wr)
        /\ flush' = flush /\ woken' = woken /\ state' = state /\ aio_done' = aio_done /\ nfy_user' = nfy_user
        /\ size' = size /\ prealloc_size' = prealloc_size /\ iotask' = iotask /\ iores' = iores
        /\ freed' = freed /\ queue' = queue /\ run' = run /\ file' = file /\ fileSize' = fileSize
        /\ fdOpen' = fdOpen /\ expected' = expected /\ upos' = upos /\ chunks' = chunks /\ failed' = failed
    BY <1>1 DEF Add, AddWith, disk, ghost
  <1> DEFINE empty == buf_r = add.buf_w /\ bufs'[buf_r].len = 0
  <1>3. \/ /\ empty /\ completed' = (completed \/ (data = <<>> /\ flush))
           /\ upc' = (IF allwr + add.wr = 0 /\ flush THEN "done"
                      ELSE IF data' = <<>> /\ ~flush THEN "idle" ELSE "top")
           /\ allwr' = 0 /\ off' = -1 /\ locked' = locked
        \/ /\ ~empty /\ locked # -1 /\ allwr + add.wr # 0
           /\ upc' = (IF allwr + add.wr = 0 /\ flush THEN "done"
                      ELSE IF data' = <<>> /\ ~flush THEN "idle" ELSE "top")
           /\ allwr' = 0 /\ off' = -1 /\ locked' = locked /\ completed' = completed
        \/ /\ ~empty /\ locked # -1 /\ allwr + add.wr = 0 /\ upc' = "park"
           /\ locked' = locked /\ completed' = completed /\ off' = off /\ allwr' = allwr
        \/ /\ ~empty /\ locked = -1 /\ locked' = buf_r /\ upc' = "prealloc" /\ off' = -1
           /\ allwr' = allwr + add.wr /\ completed' = completed
    BY <1>1, <1>2 DEF Add, AddWith, ReturnWritten
  <1> HIDE DEF empty
  <1>4. /\ bufs' \in [Bufs -> BufType] /\ add.buf_w \in Bufs /\ add.cur_len \in 0 .. BufSize - 1
        /\ add.cur_off \in 0 .. MaxPos + 1 /\ add.wr \in 0 .. Len(data) /\ add.cur_off = Here + add.wr
        /\ LayoutOf(bufs', buf_r, add.buf_w, add.cur_len, add.cur_off)
        /\ bufs[buf_r].len # 0 => bufs'[buf_r] = bufs[buf_r]
        /\ cur_len = 0 /\ data = <<>> => bufs' = bufs /\ add.buf_w = buf_w /\ add.cur_len = 0
        /\ empty => /\ bufs[buf_r].len = 0 /\ buf_w = buf_r
                    /\ flush => cur_len = 0 /\ (add.wr = 0 => data = <<>>)
    BY <1>0, <1>1, <1>2, AddKeepsLayout DEF empty
  <1>5. /\ data \in Seq(Units) /\ Len(data) \in Nat /\ Here \in Nat /\ allwr \in Nat
        /\ data' \in Seq(Units) /\ Len(data') = Len(data) - add.wr /\ add.wr \in Nat
    <2>1. PICK k \in 0 .. Len(data) : k = add.wr
      BY <1>4
    <2>2. data \in Seq(Units) /\ Len(data) \in Nat /\ Here \in Nat
      BY <1>0, HereTyped
    <2>3. Drop(data, k) \in Seq(Units) /\ Len(Drop(data, k)) = Len(data) - k
      BY <2>2, TakeIs
    <2> QED BY <1>0, <1>2, <2>1, <2>2, <2>3 DEF Types, UserTypes
  <1>6. ~empty => bufs'[buf_r].len # 0
    BY <1>4 DEF empty, LayoutOf
  <1>7. (locked # -1 => /\ ~empty /\ locked' = locked /\ bufs'[buf_r] = bufs[buf_r] /\ locked = buf_r
                        /\ upc' \in {"done", "idle", "top", "park"})
        /\ (locked = -1 => NoWrite /\ ~failed)
    <2>1. ASSUME locked # -1
          PROVE  /\ ~empty /\ locked' = locked /\ bufs'[buf_r] = bufs[buf_r] /\ locked = buf_r
                 /\ upc' \in {"done", "idle", "top", "park"}
      <3>1. locked = buf_r /\ bufs[buf_r].len # 0
        BY <1>0, <2>1 DEF WriteOK
      <3> QED BY <1>3, <1>4, <2>1, <3>1
    <2>2. locked = -1 => NoWrite /\ ~failed
      BY <1>0 DEF WriteOK, Outside
    <2> QED BY <2>1, <2>2
  <1>8. Here' = Here + add.wr
    <2>1. off' = -1 \/ (off' = off /\ allwr + add.wr = 0)
      BY <1>3
    <2>2. CASE off' = -1
      BY <1>2, <1>4, <2>2 DEF Here
    <2>3. CASE off' = off /\ off # -1 /\ allwr + add.wr = 0
      <3>1. add.wr = 0
        BY <1>5, <2>3
      <3> QED BY <1>5, <2>3, <3>1 DEF Here
    <2> QED BY <2>1, <2>2, <2>3
  <1>9. Types'
    <2>1. UserTypes'
      <3>1. upc' \in {"idle", "top", "done", "park", "prealloc"} /\ off' \in {-1, off}
        BY <1>3
      <3>2. Len(data') + allwr' <= MaxLen /\ allwr' \in Nat
        <4>1. allwr' = 0 \/ allwr' = allwr + add.wr \/ (allwr' = allwr /\ allwr + add.wr = 0)
          BY <1>3
        <4>2. Len(data) + allwr <= MaxLen
          BY <1>0 DEF Types, UserTypes
        <4> QED BY <1>5, <4>1, <4>2, Assumed
      <3> QED BY <1>0, <1>2, <1>5, <3>1, <3>2 DEF Types, UserTypes
    <2>2. BufTypes'
      BY <1>0, <1>2, <1>3, <1>4 DEF Types, BufTypes
    <2>3. WriterTypes'
      <3>1. completed' \in BOOLEAN
        BY <1>0, <1>3 DEF Types, WriterTypes
      <3> QED BY <1>0, <1>2, <3>1 DEF Types, WriterTypes
    <2> QED BY <2>1, <2>2, <2>3 DEF Types
  <1>10. Layout'
    BY <1>2, <1>4 DEF Layout
  <1>11. empty /\ flush /\ (allwr + add.wr = 0 \/ data = <<>>) => data = <<>> /\ cur_len = 0
    BY <1>4, <1>5
  <1>12. UserOK'
    <2>1. Here' + Len(data') = upos'
      BY <1>0, <1>2, <1>5, <1>8 DEF UserOK
    <2>2. upc' = "idle" => data' = <<>> /\ ~flush'
      BY <1>2, <1>3
    <2>3. upc' = "done" => completed'
      <3>1. SUFFICES ASSUME upc' = "done" PROVE completed'
        OBVIOUS
      <3>2. empty /\ flush /\ allwr + add.wr = 0
        BY <1>3, <3>1
      <3> QED BY <1>3, <1>11, <3>2
    <2>4. upc' \in {"park", "parked"} /\ off' # -1 => off' = cur_off'
      <3>1. SUFFICES ASSUME upc' = "park", off' # -1 PROVE off' = cur_off'
        BY <1>3
      <3> QED BY <1>2, <1>4, <1>8, <3>1 DEF Here
    <2>5. upc' \in {"idle", "prealloc", "submit", "done"} => off' = -1
      BY <1>3
    <2>6. fdOpen' <=> upc' \notin {"closing", "closed"}
      BY <1>0, <1>2, <1>3 DEF UserOK
    <2> QED BY <2>1, <2>2, <2>3, <2>4, <2>5, <2>6 DEF UserOK
  <1>13. Pending' = Pending /\ NoWrite' = NoWrite
    BY <1>2 DEF Pending, NoWrite
  <1>14. WriteOK'
    <2>1. CASE locked # -1
      <3>1. \A t : IsTask(t) => IsTask(t)'
        BY <1>2, <1>7, <2>1 DEF IsTask
      <3>2. OnDisk' = OnDisk
        BY <1>2, <1>7, <2>1 DEF OnDisk
      <3>3. bufs[buf_r].len # 0
        BY <1>0, <2>1 DEF WriteOK
      <3> QED BY <1>0, <1>2, <1>7, <1>13, <2>1, <3>1, <3>2, <3>3 DEF WriteOK, Outside
    <2>2. CASE locked = -1
      <3>1. NoWrite' /\ queue' = <<>> /\ Pending' = {} /\ ~aio_done' /\ ~failed'
        BY <1>2, <1>7, <1>13, <2>2 DEF NoWrite
      <3>2. locked' # -1 => locked' = buf_r' /\ bufs'[buf_r'].len # 0
        BY <1>2, <1>3, <1>6, <2>2
      <3>3. upc' \in {"prealloc", "submit"} => locked' # -1
        <4>1. buf_r # -1
          BY <1>0, Assumed DEF Types, BufTypes, Bufs
        <4> QED BY <1>3, <4>1
      <3> QED BY <3>1, <3>2, <3>3 DEF WriteOK
    <2> QED BY <2>1, <2>2
  <1>15. DataOK'
    <2>1. ToBe' = ToBeOf(file, bufs', buf_r, add.buf_w, add.cur_len, Here', data')
      BY <1>2 DEF ToBe
    <2>2. ToBeOf(file, bufs', buf_r, add.buf_w, add.cur_len, Here + add.wr, Drop(data, add.wr)) = ToBe
      BY <1>0, <1>1, <1>2, AddKeepsData
    <2>3. ToBe' = ToBe
      BY <1>2, <1>8, <2>1, <2>2
    <2> QED BY <1>0, <1>2, <2>3 DEF DataOK, Outside
  <1>16. SizeOK'
    <2>1. upc' \notin {"closing", "closed", "error"}
      BY <1>3
    <2>2. ASSUME NEW p \in Positions, file[p] # 0, p >= size
          PROVE  locked' # -1 /\ p < bufs'[buf_r'].off + bufs'[buf_r'].len
      BY <1>0, <1>2, <1>7, <2>2 DEF SizeOK
    <2> QED BY <1>0, <1>2, <2>1, <2>2 DEF SizeOK
  <1>17. Ended'
    <2>1. SUFFICES ASSUME completed' PROVE Ended'
      BY DEF Ended
    <2>2. /\ data = <<>> /\ flush /\ cur_len = 0 /\ locked = -1 /\ bufs[buf_r].len = 0 /\ buf_w = buf_r
      <3>1. CASE completed
        BY <1>0, <3>1 DEF Ended
      <3>2. CASE ~completed
        <4>1. empty /\ data = <<>> /\ flush
          BY <1>3, <2>1, <3>2
        <4>2. cur_len = 0 /\ bufs[buf_r].len = 0 /\ buf_w = buf_r
          BY <1>4, <1>11, <4>1
        <4> QED BY <1>7, <4>1, <4>2
      <3> QED BY <3>1, <3>2
    <2>3. bufs' = bufs /\ buf_w' = buf_w /\ cur_len' = 0
      BY <1>2, <1>4, <2>2
    <2>4. empty
      BY <1>2, <2>2, <2>3 DEF empty
    <2>5. Len(data') = 0 /\ data' = <<>>
      <3>1. Len(data) = 0
        BY <2>2, EmptySeq
      <3>2. Len(data') = 0
        BY <1>4, <1>5, <3>1
      <3> QED BY <1>5, <3>2, EmptySeq
    <2>6. upc' \in {"done", "top"} /\ locked' = -1
      BY <1>3, <2>2, <2>4
    <2>7. ~failed /\ upc \notin Outside
      BY <1>0, <1>7, <2>2 DEF Outside
    <2>8. file = expected
      <3>1. ToBe = expected
        BY <1>0, <2>7 DEF DataOK
      <3>2. /\ file \in Files /\ bufs \in [Bufs -> BufType] /\ buf_r \in Bufs /\ Here \in Nat
            /\ bufs[buf_w].off \in Nat /\ bufs[buf_w].mem \in Seq(Units)
        BY <1>0, <1>5, BufTyped DEF Types, BufTypes, WriterTypes
      <3>3. \A b \in Bufs : bufs[b].len = 0
        BY <1>0, <2>2 DEF Layout, LayoutOf
      <3>4. Queued(file, bufs, buf_r) = file
        BY <3>2, <3>3, QueuedType
      <3>5. PICK m \in Seq(Units) : m = bufs[buf_w].mem
        BY <3>2
      <3>6. Take(m, 0) = <<>>
        <4>1. 0 \in 0 .. Len(m)
          BY LenProperties
        <4> QED BY <4>1, TakeIs
      <3>7. Overlay(file, bufs[buf_w].off, <<>>) = file /\ Overlay(file, Here, <<>>) = file
        BY <3>2, OverlayEmpty
      <3> QED BY <2>2, <3>1, <3>4, <3>5, <3>6, <3>7 DEF ToBe, ToBeOf
    <2> QED BY <1>2, <2>2, <2>3, <2>5, <2>6, <2>7, <2>8 DEF Ended
  <1> QED BY <1>9, <1>10, <1>12, <1>14, <1>15, <1>16, <1>17 DEF IInv

(* What a step that leaves the buffers, the write under way and the disk alone preserves. *)
LEMMA SameWrite ==
  ASSUME WriteOK, UNCHANGED <<buffers, queue, run, aio_done, iores, fdOpen, failed, file>>,
         upc \in Outside => upc' \in Outside,
         upc' \in {"prealloc", "submit"} => upc \in {"prealloc", "submit"}
  PROVE  WriteOK'
  <1>1. /\ bufs' = bufs /\ locked' = locked /\ buf_r' = buf_r /\ queue' = queue /\ run' = run
        /\ aio_done' = aio_done /\ iores' = iores /\ fdOpen' = fdOpen /\ failed' = failed /\ file' = file
    BY DEF buffers
  <1>2. NoWrite' = NoWrite /\ Pending' = Pending /\ OnDisk' = OnDisk
    BY <1>1 DEF NoWrite, Pending, OnDisk
  <1>3. \A t : IsTask(t)' <=> IsTask(t)
    BY <1>1 DEF IsTask
  <1> QED BY <1>1, <1>2, <1>3 DEF WriteOK

LEMMA SameData ==
  ASSUME DataOK, UNCHANGED <<buffers, data, file, expected, failed>>, Here' = Here,
         upc \in Outside => upc' \in Outside
  PROVE  DataOK'
  <1>1. ToBe' = ToBe
    BY DEF ToBe, buffers
  <1> QED BY <1>1 DEF DataOK

LEMMA SameSize ==
  ASSUME SizeOK, UNCHANGED <<size, file, bufs, buf_r, locked>>,
         upc = "error" => upc' = "error",
         upc' \in {"closing", "closed"} => upc \in {"closing", "closed"} /\ fileSize' = fileSize
  PROVE  SizeOK'
  BY DEF SizeOK

LEMMA SameBuffers ==
  ASSUME Layout, UNCHANGED buffers
  PROVE  Layout'
  BY DEF Layout, buffers

LEMMA SameEnded ==
  ASSUME Ended, UNCHANGED <<completed, flush, data, locked, bufs, buf_r, buf_w, cur_len, file, expected, failed>>,
         completed /\ upc \in {"top", "add", "done", "closing", "closed"} =>
             upc' \in {"top", "add", "done", "closing", "closed"}
  PROVE  Ended'
  BY DEF Ended

(* What is handed over and being filled makes a file. *)
LEMMA FilledTyped ==
  ASSUME Types, Layout
  PROVE  /\ Queued(file, bufs, buf_r) \in Files
         /\ Overlay(Queued(file, bufs, buf_r), bufs[buf_w].off, Take(bufs[buf_w].mem, cur_len)) \in Files
  <1>1. /\ file \in Files /\ bufs \in [Bufs -> BufType] /\ buf_r \in Bufs /\ buf_w \in Bufs
        /\ cur_len \in Nat
        /\ \A b \in Bufs : bufs[b].len # 0 => Len(bufs[b].mem) = bufs[b].len
        /\ cur_len # 0 => Len(bufs[buf_w].mem) = cur_len
    BY Assumed DEF Types, BufTypes, WriterTypes, Layout, LayoutOf
  <1>2. PICK Q \in Files : Q = Queued(file, bufs, buf_r)
    BY <1>1, QueuedType
  <1>3. bufs[buf_w].off \in Nat /\ bufs[buf_w].mem \in Seq(Units) /\ Len(bufs[buf_w].mem) \in Nat
    BY <1>1, BufTyped DEF Types
  <1>4. PICK m \in Seq(Units) : m = bufs[buf_w].mem
    BY <1>3
  <1>5. cur_len \in 0 .. Len(m)
    BY <1>1, <1>3, <1>4
  <1>6. Take(m, cur_len) \in Seq(Units)
    BY <1>5, TakeIs
  <1> QED BY <1>2, <1>3, <1>4, <1>6, OverlayType

-----------------------------------------------------------------------------
(* The user's steps. *)
LEMMA CallStep ==
  ASSUME IInv, Call
  PROVE  IInv'
  <1>0. /\ Types /\ Layout /\ UserOK /\ WriteOK /\ DataOK /\ SizeOK /\ Ended /\ upc = "idle" /\ ~flush
        /\ chunks < MaxChunks
    BY DEF IInv, Call
  <1>1. PICK len \in 0 .. MaxLen, sk \in {-1} \cup Seeks, last \in BOOLEAN :
           /\ (IF sk = -1 THEN upos ELSE sk) + len <= MaxPos + 1
           /\ data' = [i \in 1 .. len |-> chunks * MaxLen + i] /\ off' = sk /\ flush' = last
           /\ expected' = Overlay(expected, IF sk = -1 THEN upos ELSE sk, [i \in 1 .. len |-> chunks * MaxLen + i])
           /\ upos' = (IF sk = -1 THEN upos ELSE sk) + len
    BY DEF Call
  <1>2. /\ chunks' = chunks + 1 /\ allwr' = 0 /\ upc' = "top"
        /\ UNCHANGED <<woken, buffers, state, aio_done, nfy_user, completed, size,
                       prealloc_size, iotask, iores, freed, queue, run, disk, failed>>
    BY DEF Call
  <1>3. PICK p \in Nat : p = IF sk = -1 THEN upos ELSE sk
    <2>1. upos \in Nat
      BY <1>0, Assumed DEF Types, UserTypes
    <2>2. sk # -1 => sk \in Nat
      BY Assumed
    <2> QED BY <2>1, <2>2
  <1>4. PICK new : new = [i \in 1 .. len |-> chunks * MaxLen + i]
    OBVIOUS
  <1>5. new \in Seq(Units) /\ Len(new) = len
    <2>1. chunks \in Nat /\ MaxLen \in Nat /\ MaxChunks \in Nat /\ chunks + 1 <= MaxChunks /\ len \in Nat /\ len <= MaxLen
      BY <1>0, Assumed DEF Types, UserTypes
    <2>2. PICK d \in Nat : MaxChunks = chunks + 1 + d
      <3>1. MaxChunks - (chunks + 1) \in Nat /\ MaxChunks = chunks + 1 + (MaxChunks - (chunks + 1))
        BY <2>1
      <3> QED BY <3>1
    <2>3. MaxChunks * MaxLen = chunks * MaxLen + MaxLen + d * MaxLen
      BY <2>1, <2>2
    <2>4. chunks * MaxLen \in Nat /\ d * MaxLen \in Nat /\ MaxChunks * MaxLen \in Nat
      BY <2>1
    <2>5. \A i \in 1 .. len : chunks * MaxLen + i \in Units
      BY <2>1, <2>3, <2>4 DEF Units
    <2>6. new \in [1 .. len -> Units]
      BY <1>4, <2>5
    <2>7. new \in Seq(Units)
      BY <2>1, <2>6, SeqDef
    <2>8. DOMAIN new = 1 .. len
      BY <1>4
    <2>9. DOMAIN new = 1 .. Len(new) /\ Len(new) \in Nat
      BY <2>7, LenProperties
    <2> QED BY <2>1, <2>7, <2>8, <2>9
  <1>6. /\ data' = new /\ expected' = Overlay(expected, p, new) /\ upos' = p + len /\ p + len <= MaxPos + 1
    BY <1>1, <1>3, <1>4
  <1>7. off = -1 /\ Here = cur_off /\ data = <<>> /\ Here = upos
    <2>1. off = -1 /\ data = <<>> /\ Here + Len(data) = upos
      BY <1>0 DEF UserOK
    <2>2. Here \in Nat /\ Len(data) = 0
      BY <1>0, <2>1, HereTyped, EmptySeq
    <2> QED BY <2>1, <2>2 DEF Here
  <1>8. Here' = p
    <2>1. cur_off' = cur_off
      BY <1>2 DEF buffers
    <2> QED BY <1>1, <1>3, <1>7, <2>1 DEF Here
  <1>9. Types'
    <2>1. expected' \in Files
      BY <1>0, <1>5, <1>6, OverlayType DEF Types, UserTypes
    <2>2. UserTypes'
      <3>1. len \in Nat /\ len <= MaxLen
        BY Assumed
      <3>2. off' \in {-1} \cup Positions
        BY <1>1, SeekAssumption DEF Positions
      <3>3. upos' \in 0 .. MaxPos + 1
        BY <1>6, Assumed
      <3>4. chunks' \in 0 .. MaxChunks
        BY <1>0, <1>2, Assumed DEF Types, UserTypes
      <3>5. Len(data') + allwr' <= MaxLen /\ allwr' \in Nat
        BY <1>2, <1>5, <1>6, <3>1, Assumed
      <3> QED BY <1>0, <1>1, <1>2, <1>5, <1>6, <2>1, <3>2, <3>3, <3>4, <3>5 DEF Types, UserTypes
    <2>3. BufTypes'
      BY <1>0, <1>2 DEF Types, BufTypes, buffers
    <2>4. WriterTypes'
      BY <1>0, <1>2 DEF Types, WriterTypes, disk
    <2> QED BY <2>2, <2>3, <2>4 DEF Types
  <1>10. Layout'
    BY <1>0, <1>2, SameBuffers
  <1>11. UserOK'
    BY <1>0, <1>2, <1>5, <1>6, <1>8 DEF UserOK, disk
  <1>12. WriteOK'
    BY <1>0, <1>2, SameWrite DEF disk, Outside
  <1>13. DataOK'
    <2>1. SUFFICES ASSUME ~failed PROVE ToBe' = expected'
      BY <1>2 DEF DataOK
    <2>2. PICK X \in Files : X = Overlay(Queued(file, bufs, buf_r), bufs[buf_w].off, Take(bufs[buf_w].mem, cur_len))
      BY <1>0, FilledTyped
    <2>3. ToBe = Overlay(X, Here, data) /\ ToBe = expected
      BY <1>0, <2>1, <2>2 DEF ToBe, ToBeOf, DataOK, Outside
    <2>4. Here \in Nat
      BY <1>0, HereTyped
    <2>5. X = expected
      BY <1>7, <2>3, <2>4, OverlayEmpty
    <2>6. ToBe' = Overlay(X, Here', data')
      BY <1>2, <2>2 DEF ToBe, ToBeOf, buffers, disk
    <2> QED BY <1>6, <1>8, <2>5, <2>6
  <1>14. SizeOK'
    BY <1>0, <1>2, SameSize DEF buffers, disk
  <1>15. Ended'
    BY <1>0, <1>2 DEF Ended
  <1> QED BY <1>9, <1>10, <1>11, <1>12, <1>13, <1>14, <1>15 DEF IInv

LEMMA ResumeStep ==
  ASSUME IInv, Resume
  PROVE  IInv'
  <1>1. /\ Types /\ Layout /\ UserOK /\ WriteOK /\ DataOK /\ SizeOK /\ Ended /\ upc = "parked"
        /\ woken' = FALSE /\ upc' = "top" /\ off' = -1 /\ allwr' = 0
        /\ UNCHANGED <<data, flush, buffers, state, aio_done, nfy_user, completed, size,
                       prealloc_size, iotask, iores, freed, queue, run, disk, ghost, failed>>
    BY DEF IInv, Resume
  <1>2. Here' = Here
    BY <1>1 DEF UserOK, Here, buffers
  <1>3. Types'
    <2>1. Len(data') + allwr' <= MaxLen /\ allwr' \in Nat
      <3>1. Len(data) \in Nat /\ allwr \in Nat /\ Len(data) + allwr <= MaxLen
        BY <1>1, HereTyped DEF Types, UserTypes
      <3> QED BY <1>1, <3>1, Assumed
    <2>2. UserTypes'
      BY <1>1, <2>1 DEF Types, UserTypes, ghost
    <2> QED BY <1>1, <2>2 DEF Types, BufTypes, WriterTypes, buffers, disk
  <1>4. UserOK'
    BY <1>1, <1>2 DEF UserOK, ghost, disk
  <1>5. WriteOK'
    BY <1>1, SameWrite DEF disk, Outside
  <1>6. DataOK'
    BY <1>1, <1>2, SameData DEF disk, ghost, Outside
  <1>7. SizeOK'
    BY <1>1, SameSize DEF buffers, disk
  <1>8. Ended'
    BY <1>1 DEF Ended
  <1> QED BY <1>1, <1>3, <1>4, <1>5, <1>6, <1>7, <1>8, SameBuffers DEF IInv

LEMMA ParkStep ==
  ASSUME IInv, Park
  PROVE  IInv'
  <1>1. /\ Types /\ Layout /\ UserOK /\ WriteOK /\ DataOK /\ SizeOK /\ Ended /\ upc = "park"
        /\ \/ upc' = "top" /\ off' = -1 /\ nfy_user' = nfy_user
           \/ upc' = "parked" /\ nfy_user' = TRUE /\ off' = off
        /\ UNCHANGED <<data, flush, allwr, woken, buffers, state, aio_done, completed, size,
                       prealloc_size, iotask, iores, freed, queue, run, disk, ghost, failed>>
    BY DEF IInv, Park
  <1>2. Here' = Here
    BY <1>1 DEF UserOK, Here, buffers
  <1>3. Types'
    <2>1. UserTypes'
      BY <1>1 DEF Types, UserTypes, ghost
    <2>2. WriterTypes'
      BY <1>1 DEF Types, WriterTypes, disk
    <2> QED BY <1>1, <2>1, <2>2 DEF Types, BufTypes, buffers
  <1>4. UserOK'
    BY <1>1, <1>2 DEF UserOK, ghost, disk, buffers
  <1>5. WriteOK'
    BY <1>1, SameWrite DEF disk, Outside
  <1>6. DataOK'
    BY <1>1, <1>2, SameData DEF disk, ghost, Outside
  <1>7. SizeOK'
    BY <1>1, SameSize DEF buffers, disk
  <1>8. Ended'
    BY <1>1 DEF Ended
  <1> QED BY <1>1, <1>3, <1>4, <1>5, <1>6, <1>7, <1>8, SameBuffers DEF IInv

LEMMA ReleaseStep ==
  ASSUME IInv, Release
  PROVE  IInv'
  <1>1. /\ Types /\ Layout /\ UserOK /\ WriteOK /\ DataOK /\ SizeOK /\ Ended /\ upc = "closing"
        /\ state' \in {state, "CLOSED"} /\ upc' = "closed"
        /\ UNCHANGED <<data, off, flush, allwr, woken, buffers, aio_done, nfy_user, completed,
                       size, prealloc_size, iotask, iores, queue, run, disk, ghost, failed>>
    BY DEF IInv, Release
  <1>2. Here' = Here
    BY <1>1 DEF Here, buffers
  <1>3. Types'
    <2>1. UserTypes'
      BY <1>1 DEF Types, UserTypes, ghost
    <2>2. WriterTypes'
      BY <1>1 DEF Types, WriterTypes, disk
    <2> QED BY <1>1, <2>1, <2>2 DEF Types, BufTypes, buffers
  <1>4. UserOK'
    BY <1>1, <1>2 DEF UserOK, ghost, disk
  <1>5. WriteOK'
    BY <1>1, SameWrite DEF disk, Outside
  <1>6. DataOK'
    BY <1>1 DEF DataOK, Outside
  <1>7. SizeOK'
    BY <1>1, SameSize DEF buffers, disk
  <1>8. Ended'
    BY <1>1, SameEnded DEF buffers, disk, ghost
  <1> QED BY <1>1, <1>3, <1>4, <1>5, <1>6, <1>7, <1>8, SameBuffers DEF IInv

LEMMA OtherWakeStep ==
  ASSUME IInv, OtherWake
  PROVE  IInv'
  <1>1. /\ Types /\ Layout /\ UserOK /\ WriteOK /\ DataOK /\ SizeOK /\ Ended
        /\ woken' = TRUE
        /\ UNCHANGED <<user, buffers, state, aio_done, nfy_user, completed, size,
                       prealloc_size, iotask, iores, freed, queue, run, disk, ghost, failed>>
    BY DEF IInv, OtherWake
  <1>2. Here' = Here
    BY <1>1 DEF Here, buffers, user
  <1>3. Types'
    <2>1. UserTypes'
      BY <1>1 DEF Types, UserTypes, ghost, user
    <2>2. WriterTypes'
      BY <1>1 DEF Types, WriterTypes, disk
    <2> QED BY <1>1, <2>1, <2>2 DEF Types, BufTypes, buffers
  <1>4. UserOK'
    BY <1>1, <1>2 DEF UserOK, ghost, disk, user, buffers
  <1>5. WriteOK'
    BY <1>1, SameWrite DEF disk, user
  <1>6. DataOK'
    BY <1>1, <1>2, SameData DEF disk, ghost, user
  <1>7. SizeOK'
    BY <1>1, SameSize DEF buffers, disk, user
  <1>8. Ended'
    BY <1>1, SameEnded DEF buffers, disk, ghost, user
  <1> QED BY <1>1, <1>3, <1>4, <1>5, <1>6, <1>7, <1>8, SameBuffers DEF IInv

LEMMA SubmitBeginStep ==
  ASSUME IInv, SubmitBegin
  PROVE  IInv'
  <1>1. /\ Types /\ Layout /\ UserOK /\ WriteOK /\ DataOK /\ SizeOK /\ Ended /\ upc = "prealloc"
        /\ iotask' = TRUE /\ state' = "ASYNC" /\ upc' = "submit"
        /\ UNCHANGED <<data, off, flush, allwr, woken, buffers, aio_done, nfy_user, completed,
                       size, iores, freed, queue, run, file, fdOpen, ghost, failed>>
    BY DEF IInv, SubmitBegin
  <1>2. Here' = Here
    BY <1>1 DEF Here, buffers
  <1>3. fileSize' \in Nat /\ prealloc_size' \in Nat
    <2>1. PICK b \in BufType : b = bufs[buf_r]
      BY <1>1 DEF Types, BufTypes
    <2>2. PICK r \in Nat : r = b.off + b.len
      <3>1. b.off \in Nat /\ b.len \in Nat
        BY Assumed DEF BufType, Positions
      <3>2. b.off + b.len \in Nat
        BY <3>1
      <3> QED BY <3>2, Zenon
    <2>3. \/ UNCHANGED <<fileSize, prealloc_size>>
          \/ /\ Prealloc # 0
             /\ fileSize' = ((r + Prealloc - 1) \div Prealloc) * Prealloc
             /\ prealloc_size' = ((r + Prealloc - 1) \div Prealloc) * Prealloc
      BY <2>1, <2>2 DEF SubmitBegin
    <2>4. Prealloc # 0 => ((r + Prealloc - 1) \div Prealloc) * Prealloc \in Nat
      <3>1. SUFFICES ASSUME Prealloc # 0 PROVE ((r + Prealloc - 1) \div Prealloc) * Prealloc \in Nat
        OBVIOUS
      <3>2. r + Prealloc - 1 \in Nat /\ Prealloc \in Nat /\ Prealloc > 0
        BY <3>1, Assumed
      <3>3. (r + Prealloc - 1) \div Prealloc \in Nat
        BY <3>2
      <3> QED BY <3>2, <3>3
    <2> QED BY <1>1, <2>3, <2>4 DEF Types, WriterTypes
  <1>4. Types'
    <2>1. UserTypes'
      BY <1>1 DEF Types, UserTypes, ghost
    <2>2. WriterTypes'
      BY <1>1, <1>3 DEF Types, WriterTypes
    <2> QED BY <1>1, <2>1, <2>2 DEF Types, BufTypes, buffers
  <1>5. UserOK'
    BY <1>1, <1>2 DEF UserOK, ghost
  <1>6. WriteOK'
    BY <1>1, SameWrite DEF Outside
  <1>7. DataOK'
    BY <1>1, <1>2, SameData DEF ghost, Outside
  <1>8. SizeOK'
    BY <1>1, SameSize DEF buffers
  <1>9. Ended'
    BY <1>1 DEF Ended
  <1> QED BY <1>1, <1>4, <1>5, <1>6, <1>7, <1>8, <1>9, SameBuffers DEF IInv

LEMMA SubmitEndStep ==
  ASSUME IInv, SubmitEnd
  PROVE  IInv'
  <1>1. /\ Types /\ Layout /\ UserOK /\ WriteOK /\ DataOK /\ SizeOK /\ Ended /\ upc = "submit"
        /\ UNCHANGED <<data, off, flush, allwr, woken, buffers, aio_done, nfy_user, completed,
                       size, prealloc_size, iores, freed, run, disk, ghost, failed>>
        /\ \/ /\ queue' = Append(queue, [buf |-> buf_r, len |-> bufs[buf_r].len, off |-> bufs[buf_r].off,
                                         was |-> bufs[buf_r].mem])
              /\ upc' \in {"top", "error"}
           \/ upc' = "error" /\ queue' = queue
        /\ \/ state' = state /\ iotask' = iotask
           \/ state' = "OK" /\ iotask' = FALSE
    BY DEF IInv, SubmitEnd, Enqueue
  <1>2. Here' = Here
    BY <1>1 DEF Here, buffers
  <1>3. locked = buf_r /\ locked # -1 /\ bufs[buf_r].len # 0 /\ NoWrite /\ ~failed
    BY <1>1 DEF WriteOK, NoWrite, Outside
  <1>4. PICK t : t = [buf |-> buf_r, len |-> bufs[buf_r].len, off |-> bufs[buf_r].off, was |-> bufs[buf_r].mem]
    OBVIOUS
  <1>5. t \in Task
    <2>1. /\ buf_r \in Bufs /\ bufs[buf_r].off \in Positions /\ bufs[buf_r].mem \in Seq(Units)
          /\ bufs[buf_r].len \in 0 .. BufSize
      BY <1>1, BufTyped DEF Types, BufTypes
    <2>2. bufs[buf_r].len \in 1 .. BufSize
      BY <1>3, <2>1, Assumed
    <2> QED BY <1>4, <2>1, <2>2 DEF Task
  <1>6. Append(queue, t) \in Seq(Task) /\ Len(Append(queue, t)) = 1 /\ Append(queue, t)[1] = t /\ Append(queue, t) # <<>>
    <2>1. queue \in Seq(Task) /\ Len(queue) = 0
      BY <1>1, <1>3, EmptySeq DEF Types, WriterTypes, NoWrite
    <2>2. /\ Append(queue, t) \in Seq(Task) /\ Len(Append(queue, t)) = Len(queue) + 1
          /\ Append(queue, t)[Len(queue) + 1] = t
      BY <1>5, <2>1, AppendProperties
    <2>3. Len(Append(queue, t)) = 1 /\ Append(queue, t)[1] = t
      BY <2>1, <2>2
    <2> QED BY <2>2, <2>3, EmptySeq
  <1>7. Types'
    <2>1. UserTypes'
      BY <1>1 DEF Types, UserTypes, ghost
    <2>2. queue' \in Seq(Task) /\ Len(queue') <= 1 /\ state' \in {"OK", "ASYNC", "CLOSED"} /\ iotask' \in BOOLEAN
      <3>1. queue' = queue \/ queue' = Append(queue, t)
        BY <1>1, <1>4
      <3>2. queue \in Seq(Task) /\ Len(queue) <= 1
        BY <1>1 DEF Types, WriterTypes
      <3>3. queue' \in Seq(Task) /\ Len(queue') <= 1
        BY ONLY <1>6, <3>1, <3>2
      <3>4. state' \in {"OK", "ASYNC", "CLOSED"} /\ iotask' \in BOOLEAN
        BY <1>1 DEF Types, WriterTypes
      <3> QED BY <3>3, <3>4
    <2>3. WriterTypes'
      BY <1>1, <2>2 DEF Types, WriterTypes, disk
    <2> QED BY <1>1, <2>1, <2>3 DEF Types, BufTypes, buffers
  <1>8. UserOK'
    BY <1>1, <1>2 DEF UserOK, ghost, disk
  <1>9. WriteOK'
    <2>1. CASE upc' = "error" /\ queue' = queue
      BY <1>1, <2>1, SameWrite DEF disk, Outside
    <2>2. CASE queue' = Append(queue, t) /\ upc' \in {"top", "error"}
      <3>1. Pending' = {} /\ ~aio_done' /\ ~failed'
        BY <1>1, <1>3 DEF NoWrite, Pending
      <3>2. queue'[1] = t
        BY <1>6, <2>2
      <3>3. /\ locked' = locked /\ bufs' = bufs /\ buf_r' = buf_r
        BY <1>1 DEF buffers
      <3>4. IsTask(t)'
        <4>1. t.buf = buf_r /\ t.len = bufs[buf_r].len /\ t.off = bufs[buf_r].off /\ t.was = bufs[buf_r].mem
          BY <1>4
        <4> QED BY <1>3, <3>3, <4>1 DEF IsTask
      <3>5. IsTask(queue[1])'
        BY <3>2, <3>4 DEF IsTask
      <3> QED BY <1>3, <2>2, <3>1, <3>3, <3>5 DEF WriteOK
    <2> QED BY <1>1, <1>4, <2>1, <2>2
  <1>10. DataOK'
    BY <1>1, <1>2, SameData DEF disk, ghost, Outside
  <1>11. SizeOK'
    BY <1>1, SameSize DEF buffers, disk
  <1>12. Ended'
    BY <1>1 DEF Ended
  <1> QED BY <1>1, <1>7, <1>8, <1>9, <1>10, <1>11, <1>12, SameBuffers DEF IInv

(* A buffer that is on disk may be given back: the file holds what it held. *)
LEMMA UnlockKeepsData ==
  ASSUME Types, Layout, OnDisk, bufs[buf_r].len # 0, NEW B, NEW n,
         B = [bufs EXCEPT ![buf_r].len = 0, ![buf_r].off = 0], n = (buf_r + 1) % NBufs
  PROVE  ToBeOf(file, B, n, buf_w, cur_len, Here, data) = ToBe
  <1>1. /\ file \in Files /\ bufs \in [Bufs -> BufType] /\ buf_r \in Bufs /\ buf_w \in Bufs
        /\ n \in Bufs
    BY NextBuf DEF Types, BufTypes, WriterTypes
  <1>2. /\ \A b \in Bufs : bufs[b].len # 0 => Len(bufs[b].mem) = bufs[b].len
        /\ cur_len # 0 => bufs[buf_w].len = 0
        /\ buf_r # buf_w => bufs[buf_w].len = 0
    BY DEF Layout, LayoutOf
  <1>3. /\ \A b \in Bufs : b # buf_r => B[b] = bufs[b]
        /\ B[buf_r].len = 0 /\ B[buf_r].mem = bufs[buf_r].mem /\ B[buf_r].off = 0
    <2>1. bufs[buf_r] \in BufType
      BY <1>1
    <2> QED BY <1>1, <2>1 DEF BufType
  <1>4. \A b \in Bufs : bufs[b] \in BufType /\ B[b].mem \in Seq(Units) /\ B[b].off \in Nat
    <2>1. SUFFICES ASSUME NEW b \in Bufs PROVE bufs[b] \in BufType /\ B[b].mem \in Seq(Units) /\ B[b].off \in Nat
      OBVIOUS
    <2>2. bufs[b] \in BufType /\ bufs[b].mem \in Seq(Units) /\ bufs[b].off \in Nat
      BY BufTyped DEF Types
    <2>3. CASE b = buf_r
      BY <1>3, <2>2, <2>3
    <2>4. CASE b # buf_r
      BY <1>3, <2>2, <2>4
    <2> QED BY <2>3, <2>4
  <1>5. WithBuf(file, bufs[buf_r]) = file
    BY DEF OnDisk, WithBuf
  <1>6. \A g \in Files : WithBuf(g, B[buf_r]) = g
    <2>1. SUFFICES ASSUME NEW g \in Files PROVE WithBuf(g, B[buf_r]) = g
      OBVIOUS
    <2>2. PICK m \in Seq(Units) : m = B[buf_r].mem
      BY <1>1, <1>4
    <2>3. Take(m, 0) = <<>>
      <3>1. 0 \in 0 .. Len(m)
        BY LenProperties
      <3> QED BY <3>1, TakeIs
    <2>4. Overlay(g, 0, <<>>) = g
      BY OverlayEmpty
    <2> QED BY <1>3, <2>2, <2>3, <2>4 DEF WithBuf
  <1>7. Queued(file, B, n) = Queued(file, bufs, buf_r)
    <2>1. CASE NBufs = 1
      <3>1. n = buf_r /\ (n + 1) % NBufs = buf_r /\ (buf_r + 1) % NBufs = buf_r
        BY <1>1, <2>1, NextBuf
      <3> QED BY <1>1, <1>5, <1>6, <3>1 DEF Queued
    <2>2. CASE NBufs = 2
      <3>1. n # buf_r /\ (n + 1) % NBufs = buf_r
        <4>1. n # buf_r /\ \A b \in Bufs : b = buf_r \/ b = n
          BY <1>1, <2>2, NextBuf
        <4>2. (n + 1) % NBufs \in Bufs /\ (n + 1) % NBufs # n
          BY <1>1, <2>2, NextBuf
        <4> QED BY <4>1, <4>2
      <3>2. Queued(file, bufs, buf_r) = WithBuf(file, bufs[n])
        BY <1>5 DEF Queued
      <3>3. WithBuf(file, bufs[n]) \in Files
        BY <1>1, <1>2, <1>4, WithBufType
      <3>4. Queued(file, B, n) = WithBuf(WithBuf(file, bufs[n]), B[buf_r])
        BY <1>1, <1>3, <3>1 DEF Queued
      <3> QED BY <1>6, <3>2, <3>3, <3>4
    <2> QED BY <2>1, <2>2, Assumed
  <1>8. PICK Q \in Files : Q = Queued(file, bufs, buf_r)
    BY <1>1, <1>2, QueuedType
  <1>9. Overlay(Q, B[buf_w].off, Take(B[buf_w].mem, cur_len)) = Overlay(Q, bufs[buf_w].off, Take(bufs[buf_w].mem, cur_len))
    <2>1. CASE buf_w # buf_r
      BY <1>1, <1>3, <2>1
    <2>2. CASE buf_w = buf_r
      <3>1. cur_len = 0
        BY <1>2, <2>2
      <3>2. PICK m \in Seq(Units) : m = bufs[buf_r].mem /\ m = B[buf_r].mem
        BY <1>1, <1>3, <1>4
      <3>3. Take(m, 0) = <<>>
        <4>1. 0 \in 0 .. Len(m)
          BY LenProperties
        <4> QED BY <4>1, TakeIs
      <3>4. \A o \in Nat : Overlay(Q, o, <<>>) = Q
        BY OverlayEmpty
      <3>5. B[buf_r].off \in Nat /\ bufs[buf_r].off \in Nat
        BY <1>1, <1>4, BufTyped DEF Types
      <3> QED BY <2>2, <3>1, <3>2, <3>3, <3>4, <3>5
    <2> QED BY <2>1, <2>2
  <1> QED BY <1>7, <1>8, <1>9 DEF ToBe, ToBeOf

(* The file ends where its last buffer was written, or where it ended before. *)
LEMMA OnDiskUnits ==
  ASSUME Types, Layout, NEW f \in Files, bufs[buf_r].len # 0
  PROVE  LET b == bufs[buf_r]
         IN /\ b.off + b.len \in 1 .. MaxPos + 1 /\ b.off \in Nat /\ b.len \in Nat
            /\ WithBuf(f, b) \in Files
            /\ \A p \in Positions : p >= b.off /\ p < b.off + b.len => WithBuf(f, b)[p] # 0
            /\ \A p \in Positions : ~(p >= b.off /\ p < b.off + b.len) => WithBuf(f, b)[p] = f[p]
  <1>1. buf_r \in Bufs
    BY DEF Types, BufTypes
  <1>2. PICK b \in BufType : b = bufs[buf_r]
    BY <1>1, BufTyped DEF Types
  <1>3. /\ b.len # 0 /\ Len(b.mem) = b.len /\ b.off + b.len <= MaxPos + 1
    BY <1>1, <1>2 DEF Layout, LayoutOf
  <1>4. PICK o \in Nat, l \in Nat, m \in Seq(Units) : o = b.off /\ l = b.len /\ m = b.mem
    <2>1. b.off \in Nat /\ b.len \in Nat /\ b.mem \in Seq(Units)
      BY Assumed DEF BufType, Mems, Positions
    <2> QED BY <2>1, Zenon
  <1>5. l # 0 /\ Len(m) = l /\ o + l <= MaxPos + 1
    BY <1>3, <1>4
  <1>6. Take(m, l) = m
    <2>1. l \in 0 .. Len(m)
      BY <1>5
    <2> QED BY <1>5, <2>1, TakeIs
  <1>7. WithBuf(f, b) = Overlay(f, o, m)
    BY <1>4, <1>6 DEF WithBuf
  <1>8. /\ Overlay(f, o, m) \in Files
        /\ \A x \in Positions : Overlay(f, o, m)[x] = IF x >= o /\ x < o + l THEN m[x - o + 1] ELSE f[x]
    <2>1. /\ Overlay(f, o, m) \in Files
          /\ \A x \in Positions : Overlay(f, o, m)[x] = IF x >= o /\ x < o + Len(m) THEN m[x - o + 1] ELSE f[x]
      BY OverlayType
    <2> QED BY <1>5, <2>1
  <1>9. ASSUME NEW x \in Positions, x >= o, x < o + l PROVE Overlay(f, o, m)[x] # 0
    <2>1. x - o + 1 \in 1 .. Len(m)
      BY <1>5, <1>9, Assumed DEF Positions
    <2>2. m[x - o + 1] \in Units
      BY <2>1, ElementOfSeq
    <2>3. \A u \in Units : u # 0
      BY Assumed DEF Units
    <2> QED BY <1>8, <1>9, <2>2, <2>3
  <1>10. o + l \in 1 .. MaxPos + 1
    BY <1>5, Assumed
  <1> QED BY <1>2, <1>4, <1>7, <1>8, <1>9, <1>10

LEMMA TopStep ==
  ASSUME IInv, Top
  PROVE  IInv'
  <1>1. /\ Types /\ Layout /\ UserOK /\ WriteOK /\ DataOK /\ SizeOK /\ Ended /\ upc = "top"
        /\ UNCHANGED <<data, off, flush, allwr, woken, buf_w, cur_off, cur_len, state,
                       nfy_user, completed, prealloc_size, iores, freed, queue, run, disk,
                       ghost, failed>>
    BY DEF IInv, Top
  <1>2. Here' = Here
    BY <1>1 DEF Here
  <1>3. CASE ~aio_done
    <2>1. upc' = "add" /\ UNCHANGED <<aio_done, bufs, buf_r, locked, iotask, size>>
      BY <1>1, <1>3 DEF Top
    <2>2. UNCHANGED buffers
      BY <1>1, <2>1 DEF buffers
    <2>3. Types'
      <3>1. UserTypes'
        BY <1>1, <2>1 DEF Types, UserTypes, ghost
      <3>2. WriterTypes'
        BY <1>1, <2>1 DEF Types, WriterTypes, disk
      <3> QED BY <1>1, <2>1, <3>1, <3>2 DEF Types, BufTypes
    <2>4. UserOK'
      BY <1>1, <1>2, <2>1 DEF UserOK, ghost, disk
    <2>5. WriteOK'
      BY <1>1, <2>1, <2>2, SameWrite DEF disk, Outside
    <2>6. DataOK'
      BY <1>1, <1>2, <2>1, <2>2, SameData DEF disk, ghost, Outside
    <2>7. SizeOK'
      BY <1>1, <2>1, SameSize DEF disk
    <2>8. Ended'
      BY <1>1, <2>1, SameEnded DEF disk, ghost
    <2> QED BY <1>1, <2>2, <2>3, <2>4, <2>5, <2>6, <2>7, <2>8, SameBuffers DEF IInv
  <1>4. CASE aio_done
    <2>1. /\ aio_done' = FALSE /\ iotask' = FALSE /\ locked' = -1 /\ buf_r' = (buf_r + 1) % NBufs
          /\ bufs' = [bufs EXCEPT ![buf_r].len = 0, ![buf_r].off = 0]
          /\ \/ iores /\ upc' = "add" /\ size' = Most(size, bufs[buf_r].off + bufs[buf_r].len)
             \/ ~iores /\ upc' = "error" /\ size' = size
      BY <1>1, <1>4 DEF Top, UnlockBuf, WriteSucceeded
    <2>2. /\ locked = buf_r /\ locked # -1 /\ bufs[buf_r].len # 0
          /\ queue = <<>> /\ Pending = {} /\ fdOpen /\ ~completed
      <3>1. ~NoWrite
        BY <1>4 DEF NoWrite
      <3>2. locked = buf_r /\ locked # -1 /\ bufs[buf_r].len # 0
        BY <1>1, <3>1, WritePending DEF Types
      <3>3. queue = <<>> /\ Pending = {}
        <4>1. \A h \in Pending : ~aio_done
          BY <1>1 DEF WriteOK
        <4> QED BY <1>1, <1>4, <4>1 DEF WriteOK
      <3>4. fdOpen
        BY <1>1 DEF UserOK
      <3>5. ~completed
        BY <1>1, <3>2 DEF Ended
      <3> QED BY <3>2, <3>3, <3>4, <3>5
    <2>3. iores => OnDisk /\ ~failed
      BY <1>1, <1>4, <2>2 DEF WriteOK, Outside
    <2>4. /\ bufs \in [Bufs -> BufType] /\ buf_r \in Bufs /\ buf_w \in Bufs /\ buf_r' \in Bufs
          /\ file \in Files
      <3>1. bufs \in [Bufs -> BufType] /\ buf_r \in Bufs /\ buf_w \in Bufs /\ file \in Files
        BY <1>1 DEF Types, BufTypes, WriterTypes
      <3> QED BY <2>1, <3>1, NextBuf
    <2>5. /\ \A b \in Bufs : b # buf_r => bufs'[b] = bufs[b]
          /\ bufs'[buf_r].len = 0
          /\ bufs' \in [Bufs -> BufType]
      <3>1. PICK r \in BufType : r = bufs[buf_r]
        BY <2>4
      <3>2. [r EXCEPT !.len = 0, !.off = 0] \in BufType
        <4>1. \A c \in BufType : [c EXCEPT !.len = 0] \in BufType
          BY Assumed DEF BufType
        <4>2. \A c \in BufType : [c EXCEPT !.off = 0] \in BufType
          BY Assumed DEF BufType, Positions
        <4>3. [[r EXCEPT !.len = 0] EXCEPT !.off = 0] \in BufType
          BY <4>1, <4>2
        <4> QED BY <4>3
      <3>3. bufs' = [bufs EXCEPT ![buf_r] = [r EXCEPT !.len = 0, !.off = 0]]
        BY <2>1, <2>4, <3>1
      <3>4. [r EXCEPT !.len = 0, !.off = 0].len = 0
        BY DEF BufType
      <3> QED BY <2>4, <3>2, <3>3, <3>4
    <2>6. Layout'
      <3>0. /\ buf_r = buf_w => \A b \in Bufs : bufs[b].len # 0
            /\ buf_r # buf_w => bufs[buf_w].len = 0
            /\ \A b \in Bufs : bufs[b].len # 0 => /\ Len(bufs[b].mem) = bufs[b].len
                                                  /\ bufs[b].off + bufs[b].len <= MaxPos + 1
            /\ cur_len # 0 => bufs[buf_w].len = 0 /\ Len(bufs[buf_w].mem) = cur_len /\ bufs[buf_w].off + cur_len = cur_off
        BY <1>1, <2>2 DEF Layout, LayoutOf
      <3>1. \A b \in Bufs : bufs'[b].len # 0 => /\ Len(bufs'[b].mem) = bufs'[b].len
                                                /\ bufs'[b].off + bufs'[b].len <= MaxPos + 1
        BY <2>5, <3>0
      <3>2. cur_len # 0 => bufs'[buf_w].len = 0 /\ Len(bufs'[buf_w].mem) = cur_len /\ bufs'[buf_w].off + cur_len = cur_off
        <4>1. SUFFICES ASSUME cur_len # 0
                       PROVE  bufs'[buf_w].len = 0 /\ Len(bufs'[buf_w].mem) = cur_len /\ bufs'[buf_w].off + cur_len = cur_off
          OBVIOUS
        <4>2. buf_w # buf_r
          BY <2>2, <3>0, <4>1
        <4> QED BY <2>4, <2>5, <3>0, <4>1, <4>2
      <3>3. /\ buf_r' = buf_w => \A b \in Bufs : bufs'[b].len = 0
            /\ buf_r' # buf_w => bufs'[buf_r'].len # 0 /\ bufs'[buf_w].len = 0
        <4>1. CASE NBufs = 1
          <5>1. Bufs = {0} /\ buf_r = 0
            BY <2>4, <4>1, NextBuf
          <5> QED BY <2>4, <2>5, <5>1
        <4>2. CASE NBufs = 2
          <5>1. buf_r' # buf_r /\ \A b \in Bufs : b = buf_r \/ b = buf_r'
            BY <2>1, <2>4, <4>2, NextBuf
          <5>2. CASE buf_r = buf_w
            BY <2>4, <2>5, <3>0, <5>1, <5>2
          <5>3. CASE buf_r # buf_w
            <6>1. buf_r' = buf_w /\ bufs'[buf_w].len = 0
              BY <2>4, <2>5, <3>0, <5>1, <5>3
            <6> QED BY <2>5, <5>1, <6>1
          <5> QED BY <5>2, <5>3
        <4> QED BY <4>1, <4>2, Assumed
      <3> QED BY <1>1, <2>4, <3>1, <3>2, <3>3 DEF Layout, LayoutOf
    <2>7. PICK o \in Nat, l \in Nat : /\ o = bufs[buf_r].off /\ l = bufs[buf_r].len
                                      /\ o + l \in 1 .. MaxPos + 1 /\ l # 0
      <3>1. /\ bufs[buf_r].off \in Nat /\ bufs[buf_r].len \in Nat
            /\ bufs[buf_r].off + bufs[buf_r].len \in 1 .. MaxPos + 1
        BY <1>1, <2>2, <2>4, OnDiskUnits
      <3> QED BY <2>2, <3>1, Zenon
    <2>8. size \in 0 .. MaxPos + 1 /\ size' \in 0 .. MaxPos + 1 /\ size' >= size
      <3>1. size \in 0 .. MaxPos + 1
        BY <1>1 DEF Types, WriterTypes
      <3>2. size' = size \/ size' = Most(size, o + l)
        BY <2>1, <2>7
      <3> QED BY <2>7, <3>1, <3>2, Assumed DEF Most
    <2>9. Types'
      <3>1. UserTypes'
        BY <1>1, <2>1 DEF Types, UserTypes, ghost
      <3>2. BufTypes'
        BY <1>1, <2>1, <2>4, <2>5 DEF Types, BufTypes
      <3>3. WriterTypes'
        BY <1>1, <2>1, <2>8 DEF Types, WriterTypes, disk
      <3> QED BY <3>1, <3>2, <3>3 DEF Types
    <2>10. UserOK'
      BY <1>1, <1>2, <2>1 DEF UserOK, ghost, disk
    <2>11. WriteOK'
      <3>1. NoWrite' /\ Pending' = {} /\ queue' = <<>> /\ ~aio_done'
        BY <1>1, <2>1, <2>2 DEF NoWrite, Pending
      <3>2. ~(failed' /\ upc' \notin Outside)
        BY <1>1, <2>1, <2>3 DEF Outside
      <3>3. upc' \notin {"prealloc", "submit"}
        BY <2>1
      <3> QED BY <2>1, <3>1, <3>2, <3>3 DEF WriteOK
    <2>12. DataOK'
      <3>1. SUFFICES ASSUME iores PROVE ToBe' = expected'
        BY <2>1 DEF DataOK, Outside
      <3>2. ToBe' = ToBeOf(file, bufs', buf_r', buf_w, cur_len, Here, data)
        BY <1>1, <1>2 DEF ToBe, disk
      <3>3. ToBeOf(file, bufs', buf_r', buf_w, cur_len, Here, data) = ToBe
        BY <1>1, <2>1, <2>2, <2>3, <3>1, UnlockKeepsData
      <3>4. ToBe = expected
        BY <1>1, <2>3, <3>1 DEF DataOK, Outside
      <3> QED BY <1>1, <3>2, <3>3, <3>4 DEF ghost
    <2>13. SizeOK'
      <3>1. CASE ~iores
        BY <1>1, <2>1, <3>1 DEF SizeOK, disk
      <3>2. CASE iores
        <4>1. size' = Most(size, o + l) /\ upc' = "add" /\ file' = file
          BY <1>1, <2>1, <2>7, <3>2 DEF disk
        <4>2. WithBuf(file, bufs[buf_r]) = file
          BY <2>3, <3>2 DEF OnDisk, WithBuf
        <4>3. \A p \in Positions : p >= o /\ p < o + l => file[p] # 0
          BY <1>1, <2>2, <2>4, <2>7, <4>2, OnDiskUnits
        <4>4. o + l - 1 \in Positions /\ o + l - 1 >= o /\ o + l - 1 < o + l
          BY <2>7, Assumed DEF Positions
        <4>5. size' > 0 => file[size' - 1] # 0
          <5>1. CASE size' = size
            BY <1>1, <5>1 DEF SizeOK
          <5>2. CASE size' = o + l
            BY <4>3, <4>4, <5>2
          <5> QED BY <4>1, <5>1, <5>2 DEF Most
        <4>6. ASSUME NEW p \in Positions, file[p] # 0, p >= size' PROVE FALSE
          <5>1. p >= size /\ p >= o + l
            BY <2>7, <2>8, <4>1, <4>6, Assumed DEF Most, Positions
          <5>2. p < o + l
            BY <1>1, <2>7, <4>6, <5>1 DEF SizeOK
          <5> QED BY <2>7, <5>1, <5>2, Assumed DEF Positions
        <4> QED BY <4>1, <4>5, <4>6 DEF SizeOK
      <3> QED BY <3>1, <3>2
    <2>14. Ended'
      BY <1>1, <2>2 DEF Ended
    <2> QED BY <2>6, <2>9, <2>10, <2>11, <2>12, <2>13, <2>14 DEF IInv
  <1> QED BY <1>3, <1>4

LEMMA CloseStep ==
  ASSUME IInv, Close
  PROVE  IInv'
  <1>1. /\ Types /\ Layout /\ UserOK /\ WriteOK /\ DataOK /\ SizeOK /\ Ended
        /\ upc \in {"idle", "parked", "done", "error"}
        /\ fileSize' = size /\ fdOpen' = FALSE /\ upc' = "closing"
        /\ file' = [p \in Positions |-> IF p < size THEN file[p] ELSE 0]
        /\ UNCHANGED <<data, off, flush, allwr, woken, buffers, state, aio_done, nfy_user,
                       completed, size, prealloc_size, iotask, iores, freed, queue, run,
                       ghost, failed>>
    BY DEF IInv, Close
  <1>2. Here' = Here
    BY <1>1 DEF Here, buffers
  <1>3. file' \in Files /\ file \in Files /\ size \in 0 .. MaxPos + 1
    BY <1>1 DEF Types, WriterTypes, Files
  <1>4. Types'
    <2>1. UserTypes'
      BY <1>1 DEF Types, UserTypes, ghost
    <2>2. WriterTypes'
      <3>1. fileSize' \in Nat
        BY <1>1, <1>3, Assumed
      <3> QED BY <1>1, <1>3, <3>1 DEF Types, WriterTypes
    <2> QED BY <1>1, <2>1, <2>2 DEF Types, BufTypes, buffers
  <1>5. UserOK'
    BY <1>1, <1>2 DEF UserOK, ghost
  <1>6. WriteOK'
    <2>1. /\ bufs' = bufs /\ locked' = locked /\ buf_r' = buf_r
      BY <1>1 DEF buffers
    <2>2. NoWrite' = NoWrite /\ Pending' = Pending
      BY <1>1 DEF NoWrite, Pending
    <2>3. \A t : IsTask(t)' <=> IsTask(t)
      BY <2>1 DEF IsTask
    <2> QED BY <1>1, <2>1, <2>2, <2>3 DEF WriteOK, Outside
  <1>7. DataOK'
    BY <1>1 DEF DataOK, Outside
  <1>8. SizeOK'
    <2>1. size > 0 => file'[size - 1] # 0
      <3>1. SUFFICES ASSUME size > 0 PROVE file'[size - 1] # 0
        OBVIOUS
      <3>2. size - 1 \in Positions /\ size - 1 < size
        BY <1>3, <3>1, Assumed DEF Positions
      <3> QED BY <1>1, <3>1, <3>2 DEF SizeOK
    <2>2. \A p \in Positions : file'[p] # 0 => p < size
      BY <1>1
    <2>3. \A p \in Positions : ~(p < size /\ p >= size)
      BY <1>3, Assumed DEF Positions
    <2> QED BY <1>1, <2>1, <2>2, <2>3 DEF SizeOK
  <1>9. Ended'
    <2>1. SUFFICES ASSUME completed PROVE file' = file
      BY <1>1 DEF Ended, buffers, ghost
    <2>2. locked = -1 /\ upc # "error"
      BY <1>1, <2>1 DEF Ended
    <2>3. \A p \in Positions : ~(file[p] # 0 /\ p >= size)
      BY <1>1, <2>2 DEF SizeOK
    <2>4. \A p \in Positions : file'[p] = file[p]
      <3>1. \A p \in Positions : p < size \/ p >= size
        BY <1>3, Assumed DEF Positions
      <3> QED BY <1>1, <2>3, <3>1
    <2> QED BY <1>3, <2>4 DEF Files
  <1> QED BY <1>1, <1>4, <1>5, <1>6, <1>7, <1>8, <1>9, SameBuffers DEF IInv

-----------------------------------------------------------------------------
(* The pool's steps. *)
LEMMA AioStartStep ==
  ASSUME IInv, NEW h \in PoolThreads, AioStart(h)
  PROVE  IInv'
  <1>1. /\ Types /\ Layout /\ UserOK /\ WriteOK /\ DataOK /\ SizeOK /\ Ended
        /\ run[h].pc = "idle" /\ queue # <<>>
        /\ run' = [run EXCEPT ![h] = [pc |-> "run", task |-> Head(queue)]] /\ queue' = Tail(queue)
        /\ UNCHANGED <<user, woken, buffers, state, aio_done, nfy_user, completed, size,
                       prealloc_size, iotask, iores, freed, disk, ghost, failed>>
    BY DEF IInv, AioStart
  <1>2. Here' = Here
    BY <1>1 DEF Here, user, buffers
  <1>3. /\ Pending = {} /\ ~aio_done /\ IsTask(queue[1]) /\ locked # -1
        /\ upc \notin {"prealloc", "submit"} /\ ~(failed /\ upc \notin Outside)
    <2>1. Pending = {} /\ ~aio_done /\ IsTask(queue[1])
      BY <1>1 DEF WriteOK
    <2>2. ~NoWrite
      BY <1>1 DEF NoWrite
    <2> QED BY <1>1, <2>1, <2>2 DEF WriteOK
  <1>4. queue' = <<>> /\ Head(queue) = queue[1] /\ Head(queue) \in Task
    <2>1. queue \in Seq(Task) /\ Len(queue) <= 1 /\ queue # <<>>
      BY <1>1 DEF Types, WriterTypes
    <2>2. /\ Head(queue) \in Task /\ Tail(queue) \in Seq(Task) /\ Len(queue) = 1 + Len(Tail(queue))
          /\ Len(Tail(queue)) \in Nat
      BY <2>1, HeadTailProperties, LenProperties
    <2>3. Len(Tail(queue)) = 0
      BY <2>1, <2>2
    <2> QED BY <1>1, <2>1, <2>2, <2>3, EmptySeq
  <1>5. /\ run' \in [PoolThreads -> RunType] /\ run'[h] = [pc |-> "run", task |-> Head(queue)]
        /\ \A g \in PoolThreads : g # h => run'[g] = run[g]
    <2>1. run \in [PoolThreads -> RunType]
      BY <1>1 DEF Types, WriterTypes
    <2>2. [pc |-> "run", task |-> Head(queue)] \in RunType
      BY <1>4 DEF RunType
    <2> QED BY <1>1, <2>1, <2>2
  <1>6. Types'
    <2>1. UserTypes'
      BY <1>1 DEF Types, UserTypes, user, ghost
    <2>2. queue' \in Seq(Task) /\ Len(queue') <= 1
      BY <1>4, EmptySeq
    <2>3. WriterTypes'
      BY <1>1, <1>5, <2>2 DEF Types, WriterTypes, disk
    <2> QED BY <1>1, <2>1, <2>3 DEF Types, BufTypes, buffers
  <1>7. UserOK'
    BY <1>1, <1>2 DEF UserOK, ghost, disk, user, buffers
  <1>8. WriteOK'
    <2>1. /\ run'[h].pc = "run" /\ run'[h].task = queue[1]
      BY <1>4, <1>5
    <2>2. Pending' = {h}
      BY <1>3, <1>5, <2>1 DEF Pending
    <2>3. IsTask(run[h].task)'
      BY <1>1, <1>3, <2>1 DEF IsTask, buffers
    <2>4. /\ locked' = locked /\ bufs' = bufs /\ buf_r' = buf_r /\ upc' = upc /\ aio_done' = aio_done
          /\ failed' = failed
      BY <1>1 DEF buffers, user
    <2>5. locked = buf_r /\ bufs[buf_r].len # 0
      BY <1>1, <1>3 DEF WriteOK
    <2>6. \A g \in Pending' : /\ queue' = <<>> /\ ~aio_done' /\ IsTask(run[g].task)'
                              /\ \A x \in Pending' : x = g
                              /\ run'[g].pc = "run"
      BY <1>3, <1>4, <2>1, <2>2, <2>3, <2>4
    <2> QED BY <1>3, <1>4, <2>2, <2>4, <2>5, <2>6 DEF WriteOK
  <1>9. DataOK'
    BY <1>1, <1>2, SameData DEF disk, ghost, user
  <1>10. SizeOK'
    BY <1>1, SameSize DEF buffers, disk, user
  <1>11. Ended'
    BY <1>1, SameEnded DEF buffers, disk, ghost, user
  <1> QED BY <1>1, <1>6, <1>7, <1>8, <1>9, <1>10, <1>11, SameBuffers DEF IInv

(* Writing what is handed over first changes nothing of what the file becomes. *)
LEMMA WriteKeepsData ==
  ASSUME Types, Layout
  PROVE  ToBeOf(WithBuf(file, bufs[buf_r]), bufs, buf_r, buf_w, cur_len, Here, data) = ToBe
  <1>1. /\ file \in Files /\ buf_r \in Bufs /\ bufs[buf_r] \in BufType
        /\ (bufs[buf_r].len # 0 => Len(bufs[buf_r].mem) = bufs[buf_r].len)
    BY DEF Types, BufTypes, WriterTypes, Layout, LayoutOf
  <1>2. WithBuf(WithBuf(file, bufs[buf_r]), bufs[buf_r]) = WithBuf(file, bufs[buf_r])
    BY <1>1, WithBufType
  <1>3. Queued(WithBuf(file, bufs[buf_r]), bufs, buf_r) = Queued(file, bufs, buf_r)
    BY <1>2 DEF Queued
  <1> QED BY <1>3 DEF ToBe, ToBeOf

LEMMA AioWriteStep ==
  ASSUME IInv, NEW h \in PoolThreads, AioWrite(h)
  PROVE  IInv'
  <1>1. /\ Types /\ Layout /\ UserOK /\ WriteOK /\ DataOK /\ SizeOK /\ Ended
        /\ run[h].pc = "run" /\ run' = [run EXCEPT ![h].pc = "wrote"]
        /\ UNCHANGED <<user, woken, buffers, state, aio_done, nfy_user, completed, size,
                       prealloc_size, iotask, freed, queue, fdOpen, ghost>>
    BY DEF IInv, AioWrite
  <1>2. Here' = Here
    BY <1>1 DEF Here, user, buffers
  <1>3. h \in Pending
    BY <1>1 DEF Pending
  <1>4. /\ queue = <<>> /\ ~aio_done /\ IsTask(run[h].task) /\ \A g \in Pending : g = h
        /\ locked = buf_r /\ locked # -1 /\ bufs[buf_r].len # 0
        /\ upc \notin {"prealloc", "submit"} /\ ~completed
    <2>1. queue = <<>> /\ ~aio_done /\ IsTask(run[h].task) /\ \A g \in Pending : g = h
      BY <1>1, <1>3 DEF WriteOK
    <2>2. ~NoWrite
      BY <1>3 DEF NoWrite
    <2>3. locked = buf_r /\ locked # -1 /\ bufs[buf_r].len # 0
      BY <1>1, <2>2, WritePending DEF Types
    <2> QED BY <1>1, <2>1, <2>2, <2>3 DEF WriteOK, Ended
  <1>5. failed => upc \in Outside
    <2>1. \A g \in Pending : run[g].pc # "wrote"
      BY <1>1, <1>4
    <2> QED BY <1>1, <1>4, <2>1 DEF WriteOK
  <1>6. PICK k \in Task : k = run[h].task
    BY <1>1, <1>3, TaskBuf DEF Types
  <1>7. run[h] \in [pc : {"run", "wrote", "flagged"}, task : Task] /\ run \in [PoolThreads -> RunType]
    <2>1. run \in [PoolThreads -> RunType]
      BY <1>1 DEF Types, WriterTypes
    <2>2. run[h] \in RunType /\ run[h] # NoRun
      BY <1>1, <2>1 DEF NoRun
    <2> QED BY <2>1, <2>2 DEF RunType
  <1>8. /\ run'[h].pc = "wrote" /\ run'[h].task = run[h].task /\ run' \in [PoolThreads -> RunType]
        /\ \A g \in PoolThreads : g # h => run'[g] = run[g]
    <2>1. PICK x \in [pc : {"run", "wrote", "flagged"}, task : Task] : x = run[h]
      BY <1>7
    <2>2. /\ [x EXCEPT !.pc = "wrote"] \in RunType
          /\ [x EXCEPT !.pc = "wrote"].pc = "wrote" /\ [x EXCEPT !.pc = "wrote"].task = x.task
      BY DEF RunType
    <2>3. run' = [run EXCEPT ![h] = [x EXCEPT !.pc = "wrote"]]
      BY <1>1, <1>7, <2>1
    <2> QED BY <1>7, <2>1, <2>2, <2>3
  <1>9. Pending' = {h}
    <2>1. h \in Pending'
      BY <1>8 DEF Pending
    <2>2. \A g \in Pending' : g = h
      BY <1>4, <1>8 DEF Pending
    <2> QED BY <2>1, <2>2
  <1>10. IsTask(run[h].task)'
    BY <1>1, <1>4, <1>8 DEF IsTask, buffers
  <1>11. /\ locked' = locked /\ bufs' = bufs /\ buf_r' = buf_r /\ buf_w' = buf_w /\ cur_len' = cur_len
         /\ upc' = upc /\ data' = data /\ queue' = queue /\ aio_done' = aio_done /\ fdOpen' = fdOpen
         /\ size' = size /\ completed' = completed /\ expected' = expected
    BY <1>1 DEF buffers, user, ghost
  <1>12. Layout' /\ UserTypes' /\ BufTypes' /\ UserOK' /\ Ended'
    <2>1. UserTypes' /\ BufTypes'
      BY <1>1 DEF Types, UserTypes, BufTypes, user, ghost, buffers
    <2>2. UserOK'
      BY <1>1, <1>2, <1>11 DEF UserOK, ghost, user, buffers
    <2>3. Ended'
      BY <1>4, <1>11 DEF Ended
    <2> QED BY <1>1, <2>1, <2>2, <2>3, SameBuffers
  <1> DEFINE b == bufs[buf_r]
  <1>13. CASE /\ fdOpen /\ iores' = TRUE /\ failed' = failed
              /\ file' = Overlay(file, run[h].task.off, Take(bufs[run[h].task.buf].mem, run[h].task.len))
              /\ fileSize' = Most(fileSize, run[h].task.off + run[h].task.len)
    <2>1. k.buf = buf_r /\ k.len = b.len /\ k.off = b.off
      BY <1>4, <1>6 DEF IsTask
    <2>2. file' = WithBuf(file, b) /\ fileSize' = Most(fileSize, b.off + b.len)
      BY <1>6, <1>13, <2>1 DEF WithBuf
    <2>3. /\ b.off + b.len \in 1 .. MaxPos + 1 /\ b.off \in Nat /\ b.len \in Nat
          /\ WithBuf(file, b) \in Files
          /\ \A p \in Positions : p >= b.off /\ p < b.off + b.len => WithBuf(file, b)[p] # 0
          /\ \A p \in Positions : ~(p >= b.off /\ p < b.off + b.len) => WithBuf(file, b)[p] = file[p]
      <3>1. file \in Files
        BY <1>1 DEF Types, WriterTypes
      <3> QED BY <1>1, <1>4, <3>1, OnDiskUnits
    <2>4. WriterTypes'
      <3>1. fileSize' \in Nat
        <4>1. fileSize \in Nat
          BY <1>1 DEF Types, WriterTypes
        <4>2. PICK e \in Nat : e = b.off + b.len
          BY <2>3, Assumed
        <4> QED BY <2>2, <4>1, <4>2 DEF Most
      <3>2. file' \in Files /\ iores' \in BOOLEAN
        BY <1>13, <2>2, <2>3
      <3> QED BY <1>1, <1>8, <1>13, <3>1, <3>2 DEF Types, WriterTypes
    <2>5. OnDisk'
      <3>1. /\ b \in BufType /\ (b.len # 0 => Len(b.mem) = b.len) /\ file \in Files
        BY <1>1 DEF Types, BufTypes, WriterTypes, Layout, LayoutOf
      <3>2. WithBuf(WithBuf(file, b), b) = WithBuf(file, b)
        BY <3>1, WithBufType
      <3> QED BY <1>11, <2>2, <3>2 DEF OnDisk, WithBuf
    <2>6. WriteOK'
      <3>1. \A g \in Pending' : /\ queue' = <<>> /\ ~aio_done' /\ IsTask(run[g].task)'
                                /\ \A x \in Pending' : x = g
        BY <1>4, <1>9, <1>10, <1>11
      <3>2. ~(failed' /\ upc' \notin Outside)
        BY <1>5, <1>11, <1>13
      <3> QED BY <1>4, <1>11, <2>5, <3>1, <3>2 DEF WriteOK
    <2>7. DataOK'
      <3>1. ToBe' = ToBeOf(WithBuf(file, b), bufs, buf_r, buf_w, cur_len, Here, data)
        BY <1>2, <1>11, <2>2 DEF ToBe
      <3>2. ToBe' = ToBe
        BY <1>1, <3>1, WriteKeepsData
      <3> QED BY <1>1, <1>11, <1>13, <3>2 DEF DataOK
    <2>8. SizeOK'
      <3>1. size > 0 => file'[size - 1] # 0
        <4>1. SUFFICES ASSUME size > 0 PROVE file'[size - 1] # 0
          OBVIOUS
        <4>2. size - 1 \in Positions
          BY <1>1, <4>1, Assumed DEF Types, WriterTypes, Positions
        <4> QED BY <1>1, <2>2, <2>3, <4>1, <4>2 DEF SizeOK
      <3>2. upc \notin {"closing", "closed"}
        BY <1>1, <1>13 DEF UserOK
      <3>3. ASSUME upc # "error", NEW p \in Positions, file'[p] # 0, p >= size
            PROVE  p < b.off + b.len
        <4>1. CASE p >= b.off /\ p < b.off + b.len
          BY <4>1
        <4>2. CASE ~(p >= b.off /\ p < b.off + b.len)
          <5>1. file[p] # 0
            BY <2>2, <2>3, <3>3, <4>2
          <5> QED BY <1>1, <3>3, <5>1 DEF SizeOK
        <4> QED BY <4>1, <4>2
      <3> QED BY <1>4, <1>11, <3>1, <3>2, <3>3 DEF SizeOK
    <2> QED BY <1>12, <2>4, <2>6, <2>7, <2>8 DEF IInv, Types
  <1>14. CASE iores' = FALSE /\ failed' = TRUE /\ file' = file /\ fileSize' = fileSize
    <2>1. WriterTypes'
      BY <1>1, <1>8, <1>14 DEF Types, WriterTypes
    <2>2. WriteOK'
      <3>1. \A g \in Pending' : /\ queue' = <<>> /\ ~aio_done' /\ IsTask(run[g].task)'
                                /\ \A x \in Pending' : x = g
        BY <1>4, <1>9, <1>10, <1>11
      <3>2. \E g \in Pending' : run'[g].pc = "wrote"
        BY <1>8, <1>9
      <3> QED BY <1>4, <1>11, <1>14, <3>1, <3>2 DEF WriteOK
    <2>3. DataOK'
      BY <1>14 DEF DataOK
    <2>4. SizeOK'
      BY <1>1, <1>11, <1>14, SameSize
    <2> QED BY <1>12, <2>1, <2>2, <2>3, <2>4 DEF IInv, Types
  <1>15. CASE ~fdOpen /\ iores' = TRUE /\ failed' = failed /\ file' = file /\ fileSize' = fileSize
    <2>1. upc \in Outside /\ ~fdOpen'
      BY <1>1, <1>11, <1>15 DEF UserOK, Outside
    <2>2. WriterTypes'
      BY <1>1, <1>8, <1>15 DEF Types, WriterTypes
    <2>3. WriteOK'
      <3>1. \A g \in Pending' : /\ queue' = <<>> /\ ~aio_done' /\ IsTask(run[g].task)'
                                /\ \A x \in Pending' : x = g
        BY <1>4, <1>9, <1>10, <1>11
      <3> QED BY <1>4, <1>11, <2>1, <3>1 DEF WriteOK
    <2>4. DataOK'
      BY <1>11, <2>1 DEF DataOK
    <2>5. SizeOK'
      BY <1>1, <1>11, <1>15, SameSize
    <2> QED BY <1>12, <2>2, <2>3, <2>4, <2>5 DEF IInv, Types
  <1> HIDE DEF b
  <1>16. \/ /\ fdOpen /\ iores' = TRUE /\ failed' = failed
            /\ file' = Overlay(file, run[h].task.off, Take(bufs[run[h].task.buf].mem, run[h].task.len))
            /\ fileSize' = Most(fileSize, run[h].task.off + run[h].task.len)
         \/ iores' = FALSE /\ failed' = TRUE /\ file' = file /\ fileSize' = fileSize
         \/ ~fdOpen /\ iores' = TRUE /\ failed' = failed /\ file' = file /\ fileSize' = fileSize
    BY DEF AioWrite
  <1> QED BY <1>13, <1>14, <1>15, <1>16

LEMMA AioFlagStep ==
  ASSUME IInv, NEW h \in PoolThreads, AioFlag(h)
  PROVE  IInv'
  <1>1. /\ Types /\ Layout /\ UserOK /\ WriteOK /\ DataOK /\ SizeOK /\ Ended
        /\ run[h].pc = "wrote" /\ run' = [run EXCEPT ![h].pc = "flagged"] /\ aio_done' = TRUE
        /\ UNCHANGED <<user, woken, buffers, state, nfy_user, completed, size, prealloc_size,
                       iotask, iores, freed, queue, disk, ghost, failed>>
    BY DEF IInv, AioFlag
  <1>2. Here' = Here
    BY <1>1 DEF Here, user, buffers
  <1>3. h \in Pending
    BY <1>1 DEF Pending
  <1>4. /\ queue = <<>> /\ \A g \in Pending : g = h
        /\ locked = buf_r /\ locked # -1 /\ bufs[buf_r].len # 0
        /\ upc \notin {"prealloc", "submit"} /\ (iores /\ fdOpen => OnDisk)
    <2>1. queue = <<>> /\ (\A g \in Pending : g = h) /\ (iores /\ fdOpen => OnDisk)
      BY <1>1, <1>3 DEF WriteOK
    <2>2. ~NoWrite
      BY <1>3 DEF NoWrite
    <2>3. locked = buf_r /\ locked # -1 /\ bufs[buf_r].len # 0
      BY <1>1, <2>2, WritePending DEF Types
    <2> QED BY <1>1, <2>1, <2>2, <2>3 DEF WriteOK
  <1>5. run[h] \in [pc : {"run", "wrote", "flagged"}, task : Task] /\ run \in [PoolThreads -> RunType]
    <2>1. run \in [PoolThreads -> RunType]
      BY <1>1 DEF Types, WriterTypes
    <2>2. run[h] \in RunType /\ run[h] # NoRun
      BY <1>1, <2>1 DEF NoRun
    <2> QED BY <2>1, <2>2 DEF RunType
  <1>6. /\ run'[h].pc = "flagged" /\ run' \in [PoolThreads -> RunType]
        /\ \A g \in PoolThreads : g # h => run'[g] = run[g]
    <2>1. PICK x \in [pc : {"run", "wrote", "flagged"}, task : Task] : x = run[h]
      BY <1>5
    <2>2. [x EXCEPT !.pc = "flagged"] \in RunType /\ [x EXCEPT !.pc = "flagged"].pc = "flagged"
      BY DEF RunType
    <2>3. run' = [run EXCEPT ![h] = [x EXCEPT !.pc = "flagged"]]
      BY <1>1, <1>5, <2>1
    <2> QED BY <1>5, <2>2, <2>3
  <1>7. Pending' = {}
    BY <1>4, <1>6 DEF Pending
  <1>8. Types'
    <2>1. UserTypes'
      BY <1>1 DEF Types, UserTypes, user, ghost
    <2>2. WriterTypes'
      BY <1>1, <1>6 DEF Types, WriterTypes, disk
    <2> QED BY <1>1, <2>1, <2>2 DEF Types, BufTypes, buffers
  <1>9. UserOK'
    BY <1>1, <1>2 DEF UserOK, ghost, disk, user, buffers
  <1>10. WriteOK'
    <2>1. /\ locked' = locked /\ bufs' = bufs /\ buf_r' = buf_r /\ upc' = upc /\ queue' = queue
          /\ iores' = iores /\ fdOpen' = fdOpen /\ failed' = failed /\ file' = file
      BY <1>1 DEF buffers, user, disk
    <2>2. OnDisk' = OnDisk
      BY <2>1 DEF OnDisk
    <2>3. failed' /\ upc' \notin Outside => ~iores'
      BY <1>1, <2>1 DEF WriteOK
    <2> QED BY <1>1, <1>4, <1>7, <2>1, <2>2, <2>3 DEF WriteOK
  <1>11. DataOK'
    BY <1>1, <1>2, SameData DEF disk, ghost, user
  <1>12. SizeOK'
    BY <1>1, SameSize DEF buffers, disk, user
  <1>13. Ended'
    BY <1>1, SameEnded DEF buffers, disk, ghost, user
  <1> QED BY <1>1, <1>8, <1>9, <1>10, <1>11, <1>12, <1>13, SameBuffers DEF IInv

LEMMA AioFinishStep ==
  ASSUME IInv, NEW h \in PoolThreads, AioFinish(h)
  PROVE  IInv'
  <1>1. /\ Types /\ Layout /\ UserOK /\ WriteOK /\ DataOK /\ SizeOK /\ Ended
        /\ run[h].pc = "flagged" /\ run' = [run EXCEPT ![h] = NoRun]
        /\ UNCHANGED <<user, buffers, aio_done, completed, size, prealloc_size, iotask, iores,
                       queue, disk, ghost, failed>>
    BY DEF IInv, AioFinish
  <1>2. /\ state' \in {"OK", "ASYNC", "CLOSED"} /\ nfy_user' \in BOOLEAN /\ woken' \in BOOLEAN
    <2>1. /\ state \in {"OK", "ASYNC", "CLOSED"} /\ nfy_user \in BOOLEAN /\ woken \in BOOLEAN
      BY <1>1 DEF Types, UserTypes, WriterTypes
    <2>2. \/ state' = state /\ nfy_user' = nfy_user /\ woken' = woken
          \/ state' = "OK" /\ nfy_user' = FALSE /\ woken' = (woken \/ nfy_user)
      BY DEF AioFinish
    <2> QED BY <2>1, <2>2
  <1>3. Here' = Here
    BY <1>1 DEF Here, user, buffers
  <1>4. /\ run' \in [PoolThreads -> RunType] /\ run'[h] = NoRun
        /\ \A g \in PoolThreads : g # h => run'[g] = run[g]
    <2>1. run \in [PoolThreads -> RunType]
      BY <1>1 DEF Types, WriterTypes
    <2> QED BY <1>1, <2>1 DEF RunType
  <1>5. Pending' = Pending /\ \A g \in Pending : run'[g] = run[g]
    <2>1. h \notin Pending /\ h \notin Pending'
      BY <1>1, <1>4 DEF Pending, NoRun
    <2> QED BY <1>4, <2>1 DEF Pending
  <1>6. Types'
    <2>1. UserTypes'
      BY <1>1, <1>2 DEF Types, UserTypes, user, ghost
    <2>2. WriterTypes'
      BY <1>1, <1>2, <1>4 DEF Types, WriterTypes, disk
    <2> QED BY <1>1, <2>1, <2>2 DEF Types, BufTypes, buffers
  <1>7. UserOK'
    BY <1>1, <1>3 DEF UserOK, ghost, disk, user, buffers
  <1>8. WriteOK'
    <2>1. /\ locked' = locked /\ bufs' = bufs /\ buf_r' = buf_r /\ upc' = upc /\ queue' = queue
          /\ aio_done' = aio_done
          /\ iores' = iores /\ fdOpen' = fdOpen /\ failed' = failed /\ file' = file
      BY <1>1 DEF buffers, user, disk
    <2>2. OnDisk' = OnDisk /\ NoWrite' = NoWrite
      BY <1>5, <2>1 DEF OnDisk, NoWrite
    <2>3. \A t : IsTask(t)' <=> IsTask(t)
      BY <2>1 DEF IsTask
    <2> QED BY <1>1, <1>5, <2>1, <2>2, <2>3 DEF WriteOK
  <1>9. DataOK'
    BY <1>1, <1>3, SameData DEF disk, ghost, user
  <1>10. SizeOK'
    BY <1>1, SameSize DEF buffers, disk, user
  <1>11. Ended'
    BY <1>1, SameEnded DEF buffers, disk, ghost, user
  <1> QED BY <1>1, <1>6, <1>7, <1>8, <1>9, <1>10, <1>11, SameBuffers DEF IInv

LEMMA StutterStep ==
  ASSUME IInv, UNCHANGED vars
  PROVE  IInv'
  <1>1. /\ Types /\ Layout /\ UserOK /\ WriteOK /\ DataOK /\ SizeOK /\ Ended
        /\ UNCHANGED <<user, woken, buffers, state, aio_done, nfy_user, completed, size,
                       prealloc_size, iotask, iores, freed, queue, run, disk, ghost, failed>>
    BY DEF IInv, vars
  <1>2. Here' = Here
    BY <1>1 DEF Here, buffers, user
  <1>3. Types'
    BY <1>1 DEF Types, UserTypes, BufTypes, WriterTypes, user, ghost, buffers, disk
  <1>4. UserOK'
    BY <1>1, <1>2 DEF UserOK, ghost, disk, user, buffers
  <1>5. WriteOK'
    BY <1>1, SameWrite DEF disk, user
  <1>6. DataOK'
    BY <1>1, <1>2, SameData DEF disk, ghost, user
  <1>7. SizeOK'
    BY <1>1, SameSize DEF buffers, disk, user
  <1>8. Ended'
    BY <1>1, SameEnded DEF buffers, disk, ghost, user
  <1> QED BY <1>1, <1>3, <1>4, <1>5, <1>6, <1>7, <1>8, SameBuffers DEF IInv

(* The invariant of every behaviour of the writer. *)
THEOREM Invariance == Spec => []IInv
  <1>1. Init => IInv
    BY InitStep
  <1>2. ASSUME IInv, [Next]_vars PROVE IInv'
    <2>1. CASE UserStep
      BY <1>2, <2>1, ResumeStep, TopStep, AddStep, ParkStep, SubmitBeginStep, SubmitEndStep, ReleaseStep
         DEF UserStep
    <2>2. CASE Call \/ OtherWake \/ Close
      BY <1>2, <2>2, CallStep, OtherWakeStep, CloseStep
    <2>3. ASSUME NEW h \in PoolThreads, Aio(h) PROVE IInv'
      BY <1>2, <2>3, AioStartStep, AioWriteStep, AioFlagStep, AioFinishStep DEF Aio
    <2>4. CASE Terminated \/ UNCHANGED vars
      BY <1>2, <2>4, StutterStep DEF Terminated
    <2> QED BY <1>2, <2>1, <2>2, <2>3, <2>4 DEF Next
  <1> QED BY <1>1, <1>2, PTL DEF Spec

-----------------------------------------------------------------------------
(* A step of the user or the pool that neither makes or ends a task nor closes the object. *)
LEMMA SameFree ==
  ASSUME FreeOK, UNCHANGED <<queue, run, state, freed, over>>, upc # "submit", upc' # "submit",
         upc = "closed" => upc' = "closed"
  PROVE  FreeOK'
  <1>1. queue' = queue /\ run' = run /\ state' = state /\ freed' = freed /\ raced' = raced /\ lost' = lost
    BY DEF over
  <1>2. Active' = Active /\ Busy' = Busy
    BY <1>1 DEF Active, Busy
  <1> QED BY <1>1, <1>2 DEF FreeOK, Kept

(* The write begins with no other one, or with one that fw_aio() has yet to take the lock for. *)
LEMMA SubmitBeginFree ==
  ASSUME IInv, FreeOK, SubmitBegin
  PROVE  FreeOK'
  <1>1. /\ upc = "prealloc" /\ upc' = "submit" /\ state' = "ASYNC" /\ UNCHANGED <<queue, run, freed, lost>>
        /\ raced' = (raced \/ \E h \in PoolThreads : run[h].pc = "flagged")
    BY DEF SubmitBegin
  <1>2. SUFFICES ASSUME ~raced', ~lost' PROVE Kept'
    BY <1>1 DEF FreeOK
  <1>3. Kept /\ ~raced /\ \A h \in PoolThreads : run[h].pc # "flagged"
    BY <1>1, <1>2 DEF FreeOK
  <1>4. queue = <<>> /\ Pending = {}
    BY <1>1 DEF IInv, WriteOK, NoWrite
  <1>5. Active = {}
    <2>1. \A h \in PoolThreads : run[h].pc \in {"idle", "run", "wrote", "flagged"}
      <3>1. \A x \in RunType : x.pc \in {"idle", "run", "wrote", "flagged"}
        BY DEF RunType, NoRun
      <3> QED BY <3>1 DEF IInv, Types, WriterTypes
    <2> QED BY <1>3, <1>4, <2>1 DEF Active, Pending
  <1>6. Active' = {}
    BY <1>1, <1>5 DEF Active
  <1>7. freed' = 0
    BY <1>1, <1>3 DEF Kept, FreeOK
  <1> QED BY <1>1, <1>4, <1>6, <1>7 DEF Kept

(* The pool has the task, or it has not and the writer is as before; a task that is lost is excused. *)
LEMMA SubmitEndFree ==
  ASSUME FreeOK, SubmitEnd
  PROVE  FreeOK'
  <1>1. /\ upc = "submit" /\ upc' \in {"top", "error"} /\ UNCHANGED <<run, freed, raced>>
        /\ \/ state' = state /\ lost' = lost
           \/ state' = "OK" /\ lost' = lost /\ queue' = queue
           \/ lost' = TRUE
    BY DEF SubmitEnd
  <1>2. lost' \in BOOLEAN
    BY <1>1 DEF FreeOK
  <1>3. SUFFICES ASSUME ~raced', ~lost' PROVE Kept'
    BY <1>1, <1>2 DEF FreeOK
  <1>4. Kept
    BY <1>1, <1>3 DEF FreeOK
  <1>5. queue = <<>> /\ Active = {} /\ Busy
    BY <1>1, <1>4 DEF Kept, Busy
  <1>6. Active' = {} /\ \A h \in PoolThreads : run'[h].pc = "idle"
    BY <1>1, <1>5 DEF Active
  <1>7. freed' = 0 /\ state # "OK" /\ state # "CLOSED"
    BY <1>1, <1>4, <1>5 DEF Kept
  <1>8. CASE state' = state
    BY <1>1, <1>6, <1>7, <1>8 DEF Kept
  <1>9. CASE state' = "OK" /\ queue' = queue
    BY <1>1, <1>5, <1>6, <1>7, <1>9 DEF Kept, Busy
  <1> QED BY <1>1, <1>3, <1>8, <1>9

(* The object is freed when the pool has no task of it, and left to the task otherwise. *)
LEMMA ReleaseFree ==
  ASSUME IInv, FreeOK, Release
  PROVE  FreeOK'
  <1>1. /\ upc = "closing" /\ upc' = "closed" /\ UNCHANGED <<queue, run, over>>
        /\ \/ state = "ASYNC" /\ state' = "CLOSED" /\ freed' = freed
           \/ state # "ASYNC" /\ state' = state /\ freed' = freed + 1
    BY DEF Release
  <1>2. raced' = raced /\ lost' = lost /\ freed' \in Nat
    BY <1>1 DEF over, FreeOK
  <1>3. SUFFICES ASSUME ~raced, ~lost PROVE Kept'
    BY <1>2 DEF FreeOK
  <1>4. Kept /\ Active' = Active /\ Busy' = Busy
    BY <1>1, <1>3 DEF FreeOK, Active, Busy
  <1>5. freed = 0
    BY <1>1, <1>4 DEF Kept, FreeOK
  <1>6. state \in {"OK", "ASYNC", "CLOSED"} /\ state # "CLOSED"
    BY <1>1, <1>4 DEF Kept, IInv, Types, WriterTypes
  <1>7. CASE state = "ASYNC"
    BY <1>1, <1>4, <1>5, <1>7 DEF Kept
  <1>8. CASE state # "ASYNC"
    <2>1. ~Busy
      BY <1>4, <1>6, <1>8 DEF Kept
    <2> QED BY <1>1, <1>4, <1>5, <1>8, <2>1 DEF Kept
  <1> QED BY <1>7, <1>8

(* The task goes from the queue to a thread. *)
LEMMA AioStartFree ==
  ASSUME IInv, FreeOK, NEW h \in PoolThreads, AioStart(h)
  PROVE  FreeOK'
  <1>1. /\ queue # <<>> /\ run[h].pc = "idle" /\ run' = [run EXCEPT ![h] = [pc |-> "run", task |-> Head(queue)]]
        /\ queue' = Tail(queue) /\ upc' = upc /\ UNCHANGED <<state, freed, over>>
    BY DEF AioStart, user
  <1>2. raced' = raced /\ lost' = lost
    BY <1>1 DEF over
  <1>3. SUFFICES ASSUME ~raced, ~lost PROVE Kept'
    BY <1>1, <1>2 DEF FreeOK
  <1>4. Kept /\ Active = {} /\ Busy /\ upc # "submit"
    BY <1>1, <1>3 DEF FreeOK, Kept, Busy
  <1>5. \A g \in Active' : g = h
    <2>1. run \in [PoolThreads -> RunType]
      BY DEF IInv, Types, WriterTypes
    <2>2. \A g \in PoolThreads : g # h => run'[g] = run[g]
      BY <1>1, <2>1
    <2> QED BY <1>4, <2>2 DEF Active
  <1>6. queue' = <<>>
    <2>1. queue \in Seq(Task) /\ Len(queue) <= 1
      BY DEF IInv, Types, WriterTypes
    <2>2. Len(queue) = 1
      <3>1. Len(queue) \in Nat
        BY <2>1, LenProperties
      <3>2. Len(queue) # 0
        BY <1>1, <2>1, EmptySeq
      <3>3. \A n \in Nat : n <= 1 /\ n # 0 => n = 1
        OBVIOUS
      <3> QED BY <2>1, <3>1, <3>2, <3>3, Zenon
    <2>3. Tail(queue) \in Seq(Task) /\ Len(Tail(queue)) = Len(queue) - 1
      BY <1>1, <2>1, HeadTailProperties
    <2> QED BY <1>1, <2>2, <2>3, EmptySeq
  <1> QED BY <1>1, <1>4, <1>5, <1>6 DEF Kept

(* The steps of fw_aio() before the lock. *)
LEMMA AioOnFree ==
  ASSUME IInv, FreeOK, NEW h \in PoolThreads, AioWrite(h) \/ AioFlag(h)
  PROVE  FreeOK'
  <1>1. /\ run[h].pc # "idle" /\ upc' = upc /\ UNCHANGED <<queue, state, freed, over>>
        /\ \/ run' = [run EXCEPT ![h].pc = "wrote"] \/ run' = [run EXCEPT ![h].pc = "flagged"]
    BY DEF AioWrite, AioFlag, user
  <1>2. run \in [PoolThreads -> RunType]
    BY DEF IInv, Types, WriterTypes
  <1>3. run[h] \in [pc : {"run", "wrote", "flagged"}, task : Task]
    <2>1. run[h] \in RunType /\ run[h] # NoRun
      BY <1>1, <1>2 DEF NoRun
    <2> QED BY <2>1 DEF RunType
  <1>4. run'[h].pc # "idle" /\ \A g \in PoolThreads : g # h => run'[g] = run[g]
    BY <1>1, <1>2, <1>3
  <1>5. Active' = Active
    BY <1>1, <1>4 DEF Active
  <1>6. Busy' = Busy
    BY <1>1, <1>4 DEF Busy
  <1> QED BY <1>1, <1>5, <1>6 DEF FreeOK, Kept, over

(* The last step of the object's only task, which frees it if it has been closed; and the
   histories end with the last of several tasks. *)
LEMMA AioFinishFree ==
  ASSUME IInv, FreeOK, NEW h \in PoolThreads, AioFinish(h)
  PROVE  FreeOK'
  <1>1. /\ run[h].pc = "flagged" /\ run' = [run EXCEPT ![h] = NoRun] /\ upc' = upc /\ queue' = queue
        /\ \/ freed' = freed + 1 /\ state' = state /\ (freed = 0 => state = "CLOSED")
           \/ freed' = freed /\ state' = "OK"
        /\ raced' = (raced /\ (Busy' \/ freed' > 0))
        /\ lost' = (lost /\ (Busy' \/ freed' > 0))
    BY DEF AioFinish, user
  <1>2. freed' \in Nat /\ raced' \in BOOLEAN /\ lost' \in BOOLEAN
    BY <1>1 DEF FreeOK
  <1>3. SUFFICES ASSUME ~raced', ~lost' PROVE Kept'
    BY <1>2 DEF FreeOK
  <1>4. CASE ~(Busy' \/ freed' > 0)
    <2>1. freed' = freed /\ state' = "OK"
      BY <1>1, <1>4 DEF FreeOK
    <2>2. Active' = {} /\ queue' = <<>> /\ upc' # "submit"
      BY <1>4 DEF Busy, Active
    <2> QED BY <1>4, <2>1, <2>2 DEF Kept
  <1>5. CASE Busy' \/ freed' > 0
    <2>1. Kept
      BY <1>1, <1>3, <1>5 DEF FreeOK
    <2>2. h \in Active /\ Busy
      BY <1>1 DEF Active, Busy
    <2>3. freed = 0 /\ queue = <<>> /\ upc # "submit" /\ \A g \in Active : g = h
      BY <2>1, <2>2 DEF Kept
    <2>4. \A g \in PoolThreads : run'[g].pc = "idle"
      <3>1. run \in [PoolThreads -> RunType]
        BY DEF IInv, Types, WriterTypes
      <3>2. run'[h] = NoRun /\ \A g \in PoolThreads : g # h => run'[g] = run[g]
        BY <1>1, <3>1
      <3> QED BY <2>3, <3>2 DEF Active, NoRun
    <2>5. ~Busy' /\ Active' = {}
      BY <1>1, <2>3, <2>4 DEF Busy, Active
    <2> QED BY <1>1, <2>1, <2>3, <2>5 DEF Kept
  <1> QED BY <1>4, <1>5

(* How the object is freed, in every behaviour. *)
THEOREM FreeInvariance == Spec => []FreeOK
  <1>1. Init => FreeOK
    <2> SUFFICES ASSUME Init PROVE FreeOK
      OBVIOUS
    <2>1. freed = 0 /\ raced = FALSE /\ lost = FALSE /\ upc = "idle" /\ state = "OK" /\ queue = <<>>
          /\ run = [h \in PoolThreads |-> NoRun]
      BY DEF Init
    <2>2. Active = {} /\ ~Busy
      BY <2>1 DEF Active, Busy, NoRun
    <2>3. Kept
      BY <2>1, <2>2 DEF Kept
    <2> QED BY <2>1, <2>3 DEF FreeOK
  <1>2. ASSUME IInv, FreeOK, [Next]_vars PROVE FreeOK'
    <2>1. CASE UserStep
      <3>1. CASE Resume \/ Top \/ Add \/ Park
        <4>1. upc # "submit" /\ upc # "closed"
          BY <3>1 DEF Resume, Top, Add, Park
        <4>2. upc' # "submit" /\ UNCHANGED <<queue, run, state, freed, over>>
          <5>1. CASE Resume
            BY <5>1 DEF Resume
          <5>2. CASE Top
            BY <5>2 DEF Top
          <5>3. CASE Add
            BY <5>3 DEF Add, AddWith, ReturnWritten
          <5>4. CASE Park
            BY <5>4 DEF Park
          <5> QED BY <3>1, <5>1, <5>2, <5>3, <5>4
        <4> QED BY <1>2, <4>1, <4>2, SameFree
      <3> QED BY <1>2, <2>1, <3>1, SubmitBeginFree, SubmitEndFree, ReleaseFree DEF UserStep
    <2>2. CASE Call \/ OtherWake \/ Close
      <3>1. upc # "submit" /\ upc' # "submit" /\ upc # "closed"
        BY <2>2 DEF Call, OtherWake, Close, user
      <3>2. UNCHANGED <<queue, run, state, freed, over>>
        BY <2>2 DEF Call, OtherWake, Close
      <3> QED BY <1>2, <3>1, <3>2, SameFree
    <2>3. ASSUME NEW h \in PoolThreads, Aio(h) PROVE FreeOK'
      BY <1>2, <2>3, AioStartFree, AioOnFree, AioFinishFree DEF Aio
    <2>4. CASE Terminated \/ UNCHANGED vars
      <3>1. UNCHANGED <<upc, queue, run, state, freed, raced, lost>>
        BY <2>4 DEF Terminated, vars, user, over
      <3>2. Active' = Active /\ Busy' = Busy
        BY <3>1 DEF Active, Busy
      <3> QED BY <1>2, <3>1, <3>2 DEF FreeOK, Kept
    <2> QED BY <1>2, <2>1, <2>2, <2>3, <2>4 DEF Next
  <1> QED BY <1>1, <1>2, Invariance, PTL DEF Spec

(* The writer's object is freed once, and not while the pool has a task of it: for any number
   of threads, whatever fails and whenever the file is closed, but for the two cases that
   FreedWhenDone names. *)
THEOREM FreedWhenDoneHolds == Spec => []FreedWhenDone
  <1>1. FreeOK => FreedWhenDone
    <2> SUFFICES ASSUME FreeOK, ~raced, ~lost, freed # 0 PROVE freed = 1 /\ ~Busy
      BY DEF FreedWhenDone
    <2> QED BY DEF FreeOK, Kept
  <1> QED BY <1>1, FreeInvariance, PTL

(* Every variable has its type, whatever the sizes and the number of threads. *)
THEOREM TypeCorrect == Spec => []TypeOK
  <1>1. IInv /\ FreeOK => TypeOK
    <2> SUFFICES ASSUME IInv, FreeOK PROVE TypeOK
      OBVIOUS
    <2>1. UserTypes /\ BufTypes /\ WriterTypes
      BY DEF IInv, Types
    <2>2. Len(data) \in Nat /\ Len(data) <= MaxLen /\ allwr \in 0 .. MaxLen
      <3>1. data \in Seq(Units) /\ allwr \in Nat /\ Len(data) + allwr <= MaxLen
        BY <2>1 DEF UserTypes
      <3>2. Len(data) \in Nat
        BY <3>1, LenProperties
      <3> QED BY <3>1, <3>2, Assumed
    <2>3. \A b \in Bufs : /\ bufs[b].len \in 0 .. BufSize /\ bufs[b].off \in Positions
                          /\ bufs[b].mem \in Seq(Units) /\ Len(bufs[b].mem) <= BufSize
      BY <2>1, BufTyped, Assumed
    <2>4. \A h \in PoolThreads : run[h].pc \in {"idle", "run", "wrote", "flagged"}
      <3>1. \A x \in RunType : x.pc \in {"idle", "run", "wrote", "flagged"}
        BY DEF RunType, NoRun
      <3> QED BY <2>1, <3>1 DEF WriterTypes
    <2>5. /\ {flush, woken, aio_done, nfy_user, completed, iotask, iores, fdOpen, failed, raced, lost} \subseteq BOOLEAN
          /\ DOMAIN bufs = Bufs /\ freed \in Nat /\ state \in States
      BY <2>1 DEF UserTypes, BufTypes, WriterTypes, FreeOK, States
    <2>6. file \in [Positions -> Units \cup {0}] /\ expected \in [Positions -> Units \cup {0}]
      BY <2>1 DEF UserTypes, WriterTypes, Files
    <2> QED BY <2>1, <2>2, <2>3, <2>4, <2>5, <2>6 DEF UserTypes, BufTypes, WriterTypes, TypeOK
  <1> QED BY <1>1, Invariance, FreeInvariance, PTL

(* When the end of the data is reported, the file holds exactly the units that the filter was
   given, each at its place, and the closed file ends with the last of them: in spite of seeks,
   of the two buffers, of the writes in the background and of a close at any moment. *)
THEOREM CompletedFileIsWholeHolds == Spec => []CompletedFileIsWhole
  <1>1. IInv => CompletedFileIsWhole
    <2> SUFFICES ASSUME IInv, completed
                 PROVE  /\ file = expected
                        /\ upc \in {"closing", "closed"} =>
                              fileSize = Cardinality({p \in Positions : \E q \in Positions :
                                                            p <= q /\ expected[q] # 0})
      BY DEF CompletedFileIsWhole
    <2>1. file = expected /\ locked = -1 /\ upc # "error"
      BY DEF IInv, Ended
    <2>2. size \in 0 .. MaxPos + 1 /\ (size > 0 => file[size - 1] # 0)
          /\ (upc \in {"closing", "closed"} => fileSize = size)
      BY DEF IInv, Types, WriterTypes, SizeOK
    <2>3. \A p \in Positions : file[p] # 0 => p < size
      <3>1. \A p \in Positions : ~(file[p] # 0 /\ p >= size)
        BY <2>1 DEF IInv, SizeOK
      <3>2. \A p \in Positions : p < size \/ p >= size
        BY <2>2, Assumed DEF Positions
      <3> QED BY <3>1, <3>2
    <2> DEFINE S == {p \in Positions : \E q \in Positions : p <= q /\ expected[q] # 0}
    <2>4. S = 0 .. size - 1
      <3>1. ASSUME NEW p \in S PROVE p \in 0 .. size - 1
        <4>1. PICK q \in Positions : p <= q /\ file[q] # 0
          BY <2>1
        <4>2. q < size
          BY <2>3, <4>1
        <4> QED BY <2>2, <4>1, <4>2, Assumed DEF Positions
      <3>2. ASSUME NEW p \in 0 .. size - 1 PROVE p \in S
        <4>1. p \in Positions /\ size - 1 \in Positions /\ p <= size - 1 /\ size > 0
          BY <2>2, Assumed DEF Positions
        <4>2. expected[size - 1] # 0
          BY <2>1, <2>2, <4>1
        <4> QED BY <4>1, <4>2
      <3> QED BY <3>1, <3>2
    <2>5. Cardinality(S) = size
      <3>1. size \in Nat /\ 0 \in Int /\ size - 1 \in Int
        BY <2>2, Assumed
      <3>2. Cardinality(0 .. size - 1) = IF 0 > size - 1 THEN 0 ELSE size - 1 - 0 + 1
        BY <3>1, FS_Interval
      <3>3. Cardinality(0 .. size - 1) = size
        BY <3>1, <3>2
      <3> QED BY <2>4, <3>3
    <2> QED BY <2>1, <2>2, <2>5
  <1> QED BY <1>1, Invariance, PTL

(* A task that is still to be written finds the object, its buffer and in it what was there when
   the task was made, and the object is freed once, after its last task; the tasks of the two
   cases that FreedWhenDone excuses find the same for as long as the object is there. *)
THEOREM PendingBufferIsStableHolds == Spec => []PendingBufferIsStable
  <1>1. IInv /\ FreeOK /\ FreedWhenDone => PendingBufferIsStable
    <2> SUFFICES ASSUME IInv, FreeOK, FreedWhenDone, NEW t \in Unwritten
                 PROVE  /\ freed = 0 \/ (freed > 0 /\ (raced \/ lost))
                        /\ Len(bufs[t.buf].mem) >= t.len
                        /\ Take(bufs[t.buf].mem, t.len) = Take(t.was, t.len)
      BY DEF PendingBufferIsStable
    <2>0. freed = 0 \/ (freed > 0 /\ (raced \/ lost))
      <3>1. Busy
        <4>1. CASE t \in {queue[i] : i \in DOMAIN queue}
          <5>1. DOMAIN queue # {}
            BY <4>1
          <5>2. queue # <<>>
            <6>1. queue = <<>> => DOMAIN queue = {}
              OBVIOUS
            <6> QED BY <5>1, <6>1
          <5> QED BY <5>2 DEF Busy
        <4>2. CASE t \in {run[h].task : h \in {g \in PoolThreads : run[g].pc = "run"}}
          BY <4>2 DEF Busy
        <4> QED BY <4>1, <4>2 DEF Unwritten
      <3>2. freed = 0 \/ freed > 0
        BY DEF FreeOK
      <3>3. freed = 0 \/ raced \/ lost
        BY <3>1 DEF FreedWhenDone
      <3> QED BY <3>2, <3>3, Zenon
    <2>1. IsTask(t) /\ locked = buf_r /\ bufs[buf_r].len # 0
      <3>1. CASE t \in {queue[i] : i \in DOMAIN queue}
        <4>1. PICK i \in DOMAIN queue : t = queue[i]
          BY <3>1
        <4>2. queue \in Seq(Task) /\ Len(queue) <= 1
          BY DEF IInv, Types, WriterTypes
        <4>3. i \in 1 .. Len(queue) /\ Len(queue) \in Nat
          BY <4>1, <4>2, LenProperties
        <4>4. i = 1 /\ Len(queue) # 0
          BY <4>2, <4>3
        <4>5. queue # <<>>
          BY <4>4, EmptySeq
        <4>6. ~NoWrite
          BY <4>5 DEF NoWrite
        <4> QED BY <4>1, <4>4, <4>5, <4>6, WritePending DEF IInv, Types, WriteOK
      <3>2. CASE t \in {run[h].task : h \in {g \in PoolThreads : run[g].pc = "run"}}
        <4>1. PICK h \in PoolThreads : run[h].pc = "run" /\ t = run[h].task
          BY <3>2
        <4>2. h \in Pending
          BY <4>1 DEF Pending
        <4>3. ~NoWrite
          BY <4>2 DEF NoWrite
        <4> QED BY <4>1, <4>2, <4>3, WritePending DEF IInv, Types, WriteOK
      <3> QED BY <3>1, <3>2 DEF Unwritten
    <2>2. t.buf = buf_r /\ t.len = bufs[buf_r].len /\ t.was = bufs[buf_r].mem
      BY <2>1 DEF IsTask
    <2>3. buf_r \in Bufs /\ Len(bufs[buf_r].mem) = bufs[buf_r].len /\ bufs[buf_r].len \in Nat
      BY <2>1, BufTyped DEF IInv, Types, BufTypes, Layout, LayoutOf
    <2> QED BY <2>0, <2>2, <2>3
  <1> QED BY <1>1, Invariance, FreeInvariance, FreedWhenDoneHolds, PTL

(* A failed write is never reported as a complete file. *)
THEOREM FailureIsReportedHolds == Spec => []FailureIsReported
  <1>1. IInv => FailureIsReported
    BY DEF IInv, Ended, UserOK, FailureIsReported
  <1> QED BY <1>1, Invariance, PTL
=============================================================================
