--------------------------- MODULE FileReadProofs ---------------------------
(***************************************************************************)
(* Safety of the buffered file reader for buffers of any number and size,  *)
(* files of any size, and any number of seeks and pauses.                  *)
(***************************************************************************)
EXTENDS FileRead, TLAPS, WellFoundedInduction

(* The result of a read that the track may take: the pool is done with it. *)
Reading == trk.st \in {"active", "paused"}

(* The memory of a buffer is what struct buf says of it. *)
Good(b) == b.len > 0 => b.from <= b.off /\ b.off + b.len <= b.to

(* Who frees the reader: the track's close or, if a read is pending, the end of
   that read. *)
Owned ==
    /\ f.freed <= 1
    /\ io.at # "none" => f.st \in {"ASYNC", "CLOSED"} /\ f.freed = 0
    /\ trk.st # "closed" => f.freed = 0 /\ f.st # "CLOSED"

(* The read that the track waits for is the pool's, into the buffer to write. *)
Pending ==
    /\ io.buf = f.wbuf /\ buf[f.wbuf].off = io.off
    /\ io.at # "lost" /\ (f.st = "ASYNC" <=> io.at # "none")
    /\ io.at \in {"none", "read"} => \/ io.res = None
                                     \/ buf[f.wbuf].from = io.off /\ buf[f.wbuf].to = io.off + io.res
    /\ trk.go => io.at = "none"
    /\ trk.st # "paused"

(* While the track goes on: all buffers but the one that is being written hold
   what they say, and the chain's data lies within one of them. *)
ReadsRight ==
    /\ Reading =>
        /\ f.task => Pending
        /\ ~f.task => io.at = "none" /\ f.st = "OK"
        /\ trk.st = "paused" => ~trk.go
        /\ \A i \in Bufs : (f.task /\ i = f.wbuf) \/ Good(buf[i])
        /\ out.len > 0 => /\ ~f.task
                          /\ buf[out.buf].off <= out.off
                          /\ out.off + out.len <= buf[out.buf].off + buf[out.buf].len
    /\ ~Reading => out.len = 0

-----------------------------------------------------------------------------
FType == [st : {"OK", "ASYNC", "CLOSED"}, eof : Nat, task : BOOLEAN, nfy : BOOLEAN, wbuf : Bufs,
          freed : Nat, pos : Nat, done : BOOLEAN]
BType == [off : Nat \cup {None}, len : Nat, from : Nat, to : Nat]
IoType == [at : {"none", "queued", "lost", "read"}, buf : Bufs, off : Nat, res : Garbage]

(* What is assumed of the constants, one by one. *)
LEMMA Assumed ==
  /\ NBufs \in Nat /\ NBufs > 0 /\ BufSize \in Nat /\ BufSize > 0 /\ Align \in Nat /\ Align > 0
  /\ Size \in Nat /\ MaxSeeks \in Nat /\ MaxPauses \in Nat
  /\ \A off \in Seeks : off \in Nat
  BY ReadAssumption

(* The values that the state is made of. *)
LEMMA Sizes ==
  /\ 0 \in Bufs /\ 0 \in Garbage /\ None \in Garbage
  /\ Far \in Nat
  /\ \A b \in Bufs : b \in Nat /\ (b + 1) % NBufs \in Bufs
  /\ \A off \in Nat : AlignDown(off) \in Nat
  /\ \A res \in Garbage : res # None => res \in Nat
  <1>1. \A n \in Nat \ {0} : \A b \in 0 .. n - 1 : (b + 1) % n \in 0 .. n - 1
    OBVIOUS
  <1>2. \A a \in Nat \ {0} : \A off \in Nat : off - (off % a) \in Nat
    OBVIOUS
  <1> QED BY <1>1, <1>2, Assumed DEF Bufs, Garbage, None, Far, AlignDown

(* A non-empty set of numbers has a least one. *)
Less == {p \in Nat \X Nat : p[1] < p[2]}

LEMMA LessFounded == IsWellFoundedOn(Less, Nat)
  BY NatLessThanWellFounded DEF OpToRel, Less

LEMMA LeastIsMember ==
  ASSUME NEW S, S \subseteq Nat, S # {}
  PROVE  Lowest(S) \in S
  <1>1. \E x \in S : \A y \in S : <<y, x>> \notin Less
    BY LessFounded, WFMin, ZenonT(30)
  <1>2. \E x \in S : \A y \in S : x <= y
    <2>1. PICK x \in S : \A y \in S : <<y, x>> \notin Less
      BY <1>1
    <2>2. ASSUME NEW y \in S PROVE x <= y
      <3>1. x \in Nat /\ y \in Nat /\ <<y, x>> \in Nat \X Nat
        OBVIOUS
      <3>2. ~(y < x)
        BY <2>1, <3>1 DEF Less
      <3> QED BY <3>1, <3>2
    <2> QED BY <2>2
  <1> QED BY <1>2 DEF Lowest

-----------------------------------------------------------------------------
(* What the reader's answer g may be, for the reader F and the buffers B. *)
Answer(g, F, B, off) ==
    LET B2 == [B EXCEPT ![F.wbuf].off = AlignDown(off)]
    IN  \/ g.r = "data" /\ g.i \in Having(B, off) /\ g.f = F /\ g.buf = B /\ g.io = io
        \/ g.r = "eof" /\ g.f = F /\ g.buf = B /\ g.io = io
        \/ g.r = "err" /\ g.f = F /\ g.io = io /\ (g.buf = B \/ g.buf = B2)
        \/ /\ g.r = "err" /\ F.st # "ASYNC" /\ g.f = [F EXCEPT !.st = "ASYNC", !.nfy = TRUE]
           /\ g.buf = B2
           /\ g.io = io \/ (g.io \in IoType /\ g.io.at = "lost")
        \/ /\ g.r = "async" /\ F.st # "ASYNC"
           /\ g.f = [F EXCEPT !.st = "ASYNC", !.nfy = TRUE, !.task = TRUE]
           /\ g.buf = B2
           /\ g.io \in IoType /\ g.io.at = "queued" /\ g.io.buf = F.wbuf /\ g.io.off = AlignDown(off)

(* A lookup finds a buffer that has the offset, or reads the block around it unless
   a read is pending. *)
LEMMA LookupAnswers ==
  ASSUME NEW F \in FType, NEW B \in [Bufs -> BType], NEW off \in Nat, NEW add \in Adding,
         NEW g, g = Lookup(F, B, off, add)
  PROVE  Answer(g, F, B, off)
  <1>1. CASE Having(B, off) # {}
    <2>1. Having(B, off) \subseteq Nat
      BY Sizes DEF Having
    <2>2. Lowest(Having(B, off)) \in Having(B, off)
      BY <1>1, <2>1, LeastIsMember
    <2>3. g = Found(F, B, Lowest(Having(B, off)))
      BY <1>1 DEF Lookup
    <2> QED BY <2>2, <2>3 DEF Found, Returns, Answer
  <1>2. CASE Having(B, off) = {}
    <2>1. g = Read(F, B, off, add)
      BY <1>2 DEF Lookup
    <2>2. CASE off = F.eof
      BY <2>1, <2>2 DEF Read, Returns, Answer
    <2>3. CASE off # F.eof /\ (off > F.eof \/ F.st = "ASYNC")
      BY <2>1, <2>3 DEF Read, Returns, Answer
    <2>4. CASE off # F.eof /\ ~(off > F.eof \/ F.st = "ASYNC")
      <3>1. add \in {"added", "nomem", "refused", "lost"}
        BY DEF Adding
      <3> DEFINE B2 == [B EXCEPT ![F.wbuf].off = AlignDown(off)]
                 tq == [NoIo EXCEPT !.at = "queued", !.buf = F.wbuf, !.off = AlignDown(off)]
                 tl == [tq EXCEPT !.at = "lost"]
      <3>2. /\ tq \in IoType /\ tq.at = "queued" /\ tq.buf = F.wbuf /\ tq.off = AlignDown(off)
            /\ tl \in IoType /\ tl.at = "lost"
        <4>1. F.wbuf \in Bufs /\ AlignDown(off) \in Nat /\ 0 \in Garbage /\ 0 \in Bufs
          BY Sizes DEF FType
        <4>2. NoIo \in IoType
          BY <4>1 DEF NoIo, IoType
        <4>3. tq \in IoType /\ tq.at = "queued" /\ tq.buf = F.wbuf /\ tq.off = AlignDown(off)
          BY <4>1, <4>2 DEF IoType
        <4> HIDE DEF tq
        <4> QED BY <4>3 DEF IoType
      <3>3. Ask(F) = [F EXCEPT !.st = "ASYNC", !.nfy = TRUE]
            /\ [Ask(F) EXCEPT !.task = TRUE] = [F EXCEPT !.st = "ASYNC", !.nfy = TRUE, !.task = TRUE]
        BY DEF Ask
      <3>4. \/ g = Returns("async", [F EXCEPT !.st = "ASYNC", !.nfy = TRUE, !.task = TRUE], B2, tq)
            \/ g = Returns("err", F, B2, io)
            \/ g = Returns("err", [F EXCEPT !.st = "ASYNC", !.nfy = TRUE], B2, io)
            \/ g = Returns("err", [F EXCEPT !.st = "ASYNC", !.nfy = TRUE], B2, tl)
        <4> HIDE DEF B2, tq, tl
        <4>1. CASE add = "added"
          <5>1. g = Returns("async", [Ask(F) EXCEPT !.task = TRUE], B2, tq)
            BY <2>1, <2>4, <4>1 DEF Read, B2, tq
          <5> QED BY <3>3, <5>1
        <4>2. CASE add = "nomem"
          BY <2>1, <2>4, <4>2 DEF Read, B2
        <4>3. CASE add = "refused"
          BY <2>1, <2>4, <3>3, <4>3 DEF Read, B2
        <4>4. CASE add = "lost"
          <5>1. g = Returns("err", Ask(F), B2, tl)
            BY <2>1, <2>4, <4>4 DEF Read, B2, tq, tl
          <5> QED BY <3>3, <5>1
        <4> QED BY <3>1, <4>1, <4>2, <4>3, <4>4
      <3>5. F.st # "ASYNC"
        BY <2>4
      <3>6. \A r, X, B3, I : /\ Returns(r, X, B3, I).r = r /\ Returns(r, X, B3, I).f = X
                              /\ Returns(r, X, B3, I).buf = B3 /\ Returns(r, X, B3, I).io = I
        BY DEF Returns
      <3> DEFINE FA == [F EXCEPT !.st = "ASYNC", !.nfy = TRUE]
                 FT == [F EXCEPT !.st = "ASYNC", !.nfy = TRUE, !.task = TRUE]
      <3>7. \/ g.r = "async" /\ g.f = FT /\ g.buf = B2 /\ g.io = tq
            \/ g.r = "err" /\ g.f = F /\ g.buf = B2 /\ g.io = io
            \/ g.r = "err" /\ g.f = FA /\ g.buf = B2 /\ g.io = io
            \/ g.r = "err" /\ g.f = FA /\ g.buf = B2 /\ g.io = tl
        <4> HIDE DEF FA, FT, tq, tl, B2
        <4>1. \/ g = Returns("async", FT, B2, tq) \/ g = Returns("err", F, B2, io)
              \/ g = Returns("err", FA, B2, io) \/ g = Returns("err", FA, B2, tl)
          BY <3>4 DEF FA, FT
        <4> QED BY <3>6, <4>1
      <3> HIDE DEF tq, tl
      <3> QED BY <3>2, <3>5, <3>7 DEF Answer
    <2> QED BY <2>2, <2>3, <2>4
  <1> QED BY <1>1, <1>2

-----------------------------------------------------------------------------
(* A read that the track waits for has a block of the file as its aim. *)
TaskHasBlock == f.task => buf[f.wbuf].off # None

(* The reader and its buffers once the result has been taken, if there is one. *)
AfterTaking(F, B, res) ==
    \/ ~f.task /\ F = f /\ B = buf
    \/ /\ f.task /\ ~F.task /\ F.st = f.st /\ F.freed = f.freed
       /\ \/ res = None /\ B = buf
          \/ res # None /\ B = [buf EXCEPT ![f.wbuf].len = res]

(* fffileread_getdata() takes the result of a read first, and then looks up. *)
LEMMA GetDataAnswers ==
  ASSUME TypeOK, TaskHasBlock, NEW off \in Nat, NEW res \in Garbage, NEW add \in Adding,
         NEW g, g = GetData(off, res, add)
  PROVE  \E F \in FType, B \in [Bufs -> BType] :
            /\ AfterTaking(F, B, res)
            /\ f.task /\ res = None => g.r = "err" /\ g.f = F /\ g.buf = B /\ g.io = io
            /\ Answer(g, F, B, off)
  <1>1. f \in FType /\ buf \in [Bufs -> BType]
    BY DEF TypeOK, FType, BType
  <1>2. CASE ~f.task
    <2>1. g = Lookup(f, buf, off, add)
      BY <1>2 DEF GetData
    <2>2. AfterTaking(f, buf, res)
      BY <1>2 DEF AfterTaking
    <2> QED BY <1>1, <1>2, <2>1, <2>2, LookupAnswers
  <1>3. CASE f.task /\ res = None
    <2> DEFINE F == [f EXCEPT !.task = FALSE]
    <2>1. F \in FType /\ ~F.task /\ F.st = f.st /\ F.freed = f.freed
      BY <1>1 DEF FType
    <2>2. Taken(res).r = "err" /\ Taken(res).f = F /\ Taken(res).buf = buf
      BY <1>3 DEF Taken
    <2> HIDE DEF F
    <2>3. g = Returns("err", F, buf, io)
      BY <1>3, <2>2 DEF GetData
    <2>4. AfterTaking(F, buf, res)
      BY <1>3, <2>1 DEF AfterTaking
    <2>5. g.r = "err" /\ g.f = F /\ g.buf = buf /\ g.io = io
      BY <2>3 DEF Returns
    <2>6. Answer(g, F, buf, off)
      BY <2>5 DEF Answer
    <2> QED BY <1>1, <2>1, <2>4, <2>5, <2>6
  <1>4. CASE f.task /\ res # None
    <2>1. f.wbuf \in Bufs /\ res \in Nat /\ buf[f.wbuf].off \in Nat /\ (f.wbuf + 1) % NBufs \in Bufs
      BY <1>1, <1>4, Sizes DEF FType, BType, TaskHasBlock
    <2> DEFINE F == Taken(res).f
               B == [buf EXCEPT ![f.wbuf].len = res]
    <2>2. F \in FType /\ ~F.task /\ F.st = f.st /\ F.freed = f.freed
      <3>1. F = [[f EXCEPT !.task = FALSE] EXCEPT !.wbuf = (f.wbuf + 1) % NBufs,
                                                 !.eof = IF IsLast(res) THEN buf[f.wbuf].off + res ELSE f.eof]
        BY <1>1, <1>4 DEF Taken, FType
      <3>2. (IF IsLast(res) THEN buf[f.wbuf].off + res ELSE f.eof) \in Nat
        BY <1>1, <2>1 DEF FType
      <3> HIDE DEF F
      <3> QED BY <1>1, <2>1, <3>1, <3>2 DEF FType
    <2>3. Taken(res).r = "ok" /\ Taken(res).buf = B
      BY <1>4 DEF Taken, WithLength
    <2>4. B \in [Bufs -> BType]
      <3>1. [buf[f.wbuf] EXCEPT !.len = res] \in BType
        BY <1>1, <2>1 DEF BType
      <3>2. B = [buf EXCEPT ![f.wbuf] = [buf[f.wbuf] EXCEPT !.len = res]]
        OBVIOUS
      <3> HIDE DEF B
      <3> QED BY <1>1, <3>1, <3>2
    <2>5. AfterTaking(F, B, res)
      BY <1>4, <2>2 DEF AfterTaking
    <2> HIDE DEF F, B
    <2>6. \/ g = Returns("eof", F, B, io)
          \/ g = Lookup(F, B, off, add)
      BY <1>4, <2>3 DEF GetData, F
    <2>7. CASE g = Returns("eof", F, B, io)
      BY <1>4, <2>2, <2>4, <2>5, <2>7 DEF Returns, Answer
    <2>8. CASE g = Lookup(F, B, off, add)
      BY <1>4, <2>2, <2>4, <2>5, <2>8, LookupAnswers
    <2> QED BY <2>6, <2>7, <2>8
  <1> QED BY <1>2, <1>3, <1>4

-----------------------------------------------------------------------------
OutType == [buf : Bufs, off : Nat, len : Nat]
TrkType == [st : {"active", "paused", "err", "done", "closed"}, go : BOOLEAN]

(* What a call of the filter leaves, by how it ends: the chain has data, is asked
   again at the end of the file, has come to its end, or waits. *)
GivesData(F, B) ==
    /\ trk' = Track("active", TRUE) /\ io' = io /\ buf' = B /\ f'.st = F.st /\ ~f'.task
    /\ B[out'.buf].off <= out'.off
    /\ out'.off + out'.len = B[out'.buf].off + B[out'.buf].len
AsksAgain(F, B) ==
    /\ trk' = Track("active", TRUE) /\ io' = io /\ buf' = B /\ f'.st = F.st /\ ~f'.task
    /\ out'.len = 0
IsOver(F) ==
    /\ trk'.st \in {"err", "done"} /\ out'.len = 0 /\ ~f'.task
    /\ \/ io' = io /\ f'.st = F.st
       \/ F.st # "ASYNC" /\ f'.st = "ASYNC" /\ (io' = io \/ io'.at = "lost")
HasToWait(F, B, off, go) ==
    /\ trk' = Track("active", go) /\ out'.len = 0
    /\ F.st # "ASYNC" /\ f'.st = "ASYNC" /\ f'.task /\ f'.wbuf = F.wbuf
    /\ buf' = [B EXCEPT ![F.wbuf].off = AlignDown(off)]
    /\ io'.at = "queued" /\ io'.buf = F.wbuf /\ io'.off = AlignDown(off)

(* However a call of the filter ends, the state stays well typed and the reader is
   not freed by it. *)
LEMMA CallEffects ==
  ASSUME TypeOK, TaskHasBlock, NEW off \in Nat, NEW seek \in BOOLEAN, NEW res \in Garbage,
         NEW add \in Adding, NEW go \in BOOLEAN, Call(off, seek, res, add, go)
  PROVE  /\ f' \in FType /\ buf' \in [Bufs -> BType] /\ io' \in IoType /\ out' \in OutType /\ trk' \in TrkType
         /\ f'.freed = f.freed /\ TaskHasBlock'
         /\ \E F \in FType, B \in [Bufs -> BType] :
               /\ AfterTaking(F, B, res)
               /\ f.task /\ res = None => IsOver(F)
               /\ GivesData(F, B) \/ AsksAgain(F, B) \/ IsOver(F) \/ HasToWait(F, B, off, go)
  <1> DEFINE g == GetData(off, res, add)
             G == [g.f EXCEPT !.pos = off, !.done = g.f.done /\ ~seek]
             n == g.buf[g.i].off + g.buf[g.i].len - off
  <1>1. PICK F \in FType, B \in [Bufs -> BType] :
            /\ AfterTaking(F, B, res)
            /\ f.task /\ res = None => g.r = "err" /\ g.f = F /\ g.buf = B /\ g.io = io
            /\ Answer(g, F, B, off)
    BY GetDataAnswers
  <1>2. /\ buf' = g.buf /\ io' = g.io
        /\ CASE g.r = "async" -> f' = G /\ out' = NoData /\ trk' = Track("active", go)
             [] g.r = "err" -> f' = G /\ out' = NoData /\ trk' = Track("err", go)
             [] g.r = "eof" /\ (G.done \/ seek) -> f' = G /\ out' = NoData /\ trk' = Track("done", go)
             [] g.r = "eof" /\ ~G.done /\ ~seek ->
                    f' = [G EXCEPT !.done = TRUE] /\ out' = NoData /\ trk' = Track("active", TRUE)
             [] g.r = "data" ->
                    /\ f' = [G EXCEPT !.pos = off + n]
                    /\ out' = [buf |-> g.i, off |-> off, len |-> n]
                    /\ trk' = Track("active", TRUE)
    BY DEF Call
  <1> HIDE DEF g
  <1>3. io \in IoType /\ f \in FType /\ buf \in [Bufs -> BType]
    BY DEF TypeOK, IoType, FType, BType
  <1>4. NoData \in OutType /\ NoData.len = 0
    BY Sizes DEF NoData, OutType
  <1>5. \A s \in {"active", "paused", "err", "done", "closed"}, b \in BOOLEAN :
           Track(s, b) \in TrkType /\ Track(s, b).st = s /\ Track(s, b).go = b
    BY DEF Track, TrkType
  <1>6. ~F.task /\ F.freed = f.freed /\ F.st = f.st
    BY <1>1 DEF AfterTaking
  <1>7. AlignDown(off) \in Nat /\ F.wbuf \in Bufs
    BY Sizes DEF FType
  <1> DEFINE b2 == [B[F.wbuf] EXCEPT !.off = AlignDown(off)]
             B2 == [B EXCEPT ![F.wbuf] = b2]
  <1>8. B2 \in [Bufs -> BType] /\ B2[F.wbuf].off = AlignDown(off) /\ [B EXCEPT ![F.wbuf].off = AlignDown(off)] = B2
    <2>1. b2 \in BType /\ b2.off = AlignDown(off)
      BY <1>7 DEF BType
    <2>2. [B EXCEPT ![F.wbuf].off = AlignDown(off)] = B2
      OBVIOUS
    <2> HIDE DEF b2
    <2> QED BY <1>7, <2>1, <2>2
  <1>9. \A X \in FType : \A d \in BOOLEAN : \A p \in Nat :
           /\ [X EXCEPT !.pos = p, !.done = d] \in FType
           /\ [X EXCEPT !.pos = p, !.done = d].st = X.st /\ [X EXCEPT !.pos = p, !.done = d].task = X.task
           /\ [X EXCEPT !.pos = p, !.done = d].wbuf = X.wbuf /\ [X EXCEPT !.pos = p, !.done = d].freed = X.freed
    BY DEF FType
  <1>10. \A X \in FType : \A d \in BOOLEAN : \A p \in Nat :
           /\ [X EXCEPT !.done = d] \in FType /\ [X EXCEPT !.pos = p] \in FType
           /\ [X EXCEPT !.done = d].st = X.st /\ [X EXCEPT !.done = d].task = X.task
           /\ [X EXCEPT !.done = d].freed = X.freed
           /\ [X EXCEPT !.pos = p].st = X.st /\ [X EXCEPT !.pos = p].task = X.task
           /\ [X EXCEPT !.pos = p].freed = X.freed
    BY DEF FType
  <1>11. ASSUME g.f \in FType
         PROVE  G \in FType /\ G.st = g.f.st /\ G.task = g.f.task /\ G.wbuf = g.f.wbuf /\ G.freed = g.f.freed
    <2> DEFINE d == g.f.done /\ ~seek
    <2>1. d \in BOOLEAN
      OBVIOUS
    <2>2. G = [g.f EXCEPT !.pos = off, !.done = d]
      OBVIOUS
    <2>3. PICK X \in FType : X = g.f
      BY <1>11
    <2> HIDE DEF d, G
    <2>4. G = [X EXCEPT !.pos = off, !.done = d]
      BY <2>2, <2>3
    <2>5. G \in FType /\ G.st = X.st /\ G.task = X.task /\ G.wbuf = X.wbuf /\ G.freed = X.freed
      BY <2>1, <2>4 DEF FType
    <2> QED BY <2>3, <2>5
  <1> HIDE DEF G, B2
  <1>12. CASE g.r = "data"
    <2>1. g.i \in Having(B, off) /\ g.f = F /\ g.buf = B /\ g.io = io
      BY <1>1, <1>12 DEF Answer
    <2>2. /\ f' = [G EXCEPT !.pos = off + n] /\ out' = [buf |-> g.i, off |-> off, len |-> n]
          /\ trk' = Track("active", TRUE)
      BY <1>2, <1>12
    <2>3. /\ g.i \in Bufs /\ B[g.i] \in BType /\ B[g.i].off \in Int /\ B[g.i].len \in Nat
          /\ B[g.i].off <= off /\ off < B[g.i].off + B[g.i].len
      BY <2>1 DEF Having, BType, None
    <2>4. n \in Nat /\ off + n = B[g.i].off + B[g.i].len /\ off + n \in Nat
      BY <2>1, <2>3
    <2> HIDE DEF n
    <2>5. f' \in FType /\ f'.st = F.st /\ ~f'.task /\ f'.freed = f.freed
      BY <1>6, <1>10, <1>11, <2>1, <2>2, <2>4
    <2>6. out' \in OutType /\ out'.buf = g.i /\ out'.off = off /\ out'.len = n
      BY <2>2, <2>3, <2>4 DEF OutType
    <2>7. GivesData(F, B)
      BY <1>2, <2>1, <2>2, <2>3, <2>4, <2>5, <2>6 DEF GivesData
    <2>8. f.task /\ res = None => FALSE
      BY <1>1, <1>12
    <2> QED BY <1>1, <1>2, <1>3, <1>5, <2>1, <2>2, <2>5, <2>6, <2>7, <2>8 DEF TaskHasBlock
  <1>13. CASE g.r = "eof"
    <2>1. g.f = F /\ g.buf = B /\ g.io = io
      BY <1>1, <1>13 DEF Answer
    <2>2. \/ f' = G /\ out' = NoData /\ trk' = Track("done", go)
          \/ f' = [G EXCEPT !.done = TRUE] /\ out' = NoData /\ trk' = Track("active", TRUE)
      BY <1>2, <1>13
    <2>3. f' \in FType /\ f'.st = F.st /\ ~f'.task /\ f'.freed = f.freed
      <3>1. G \in FType /\ G.st = F.st /\ ~G.task /\ G.freed = f.freed
        BY <1>6, <1>11, <2>1
      <3>2. /\ [G EXCEPT !.done = TRUE] \in FType /\ [G EXCEPT !.done = TRUE].st = F.st
            /\ ~[G EXCEPT !.done = TRUE].task /\ [G EXCEPT !.done = TRUE].freed = f.freed
        BY <3>1 DEF FType
      <3> QED BY <2>2, <3>1, <3>2
    <2>4. IsOver(F) \/ AsksAgain(F, B)
      BY <1>2, <1>4, <1>5, <2>1, <2>2, <2>3 DEF IsOver, AsksAgain
    <2>5. f.task /\ res = None => FALSE
      BY <1>1, <1>13
    <2> QED BY <1>1, <1>2, <1>3, <1>4, <1>5, <2>1, <2>2, <2>3, <2>4, <2>5 DEF TaskHasBlock
  <1>14. CASE g.r = "err"
    <2>1. f' = G /\ out' = NoData /\ trk' = Track("err", go)
      BY <1>2, <1>14
    <2>2. \/ g.f = F /\ g.io = io /\ (g.buf = B \/ g.buf = B2)
          \/ /\ F.st # "ASYNC" /\ g.f = [F EXCEPT !.st = "ASYNC", !.nfy = TRUE] /\ g.buf = B2
             /\ g.io = io \/ (g.io \in IoType /\ g.io.at = "lost")
      BY <1>1, <1>8, <1>14 DEF Answer
    <2>3. /\ g.f \in FType /\ ~g.f.task /\ g.f.freed = f.freed
          /\ \/ g.io = io /\ g.f.st = F.st
             \/ F.st # "ASYNC" /\ g.f.st = "ASYNC" /\ (g.io = io \/ (g.io \in IoType /\ g.io.at = "lost"))
          /\ g.io \in IoType /\ g.buf \in [Bufs -> BType]
      BY <1>3, <1>6, <1>8, <2>2 DEF FType
    <2>4. f' \in FType /\ ~f'.task /\ f'.freed = f.freed /\ IsOver(F)
      BY <1>2, <1>4, <1>5, <1>11, <2>1, <2>3 DEF IsOver
    <2> QED BY <1>1, <1>2, <1>4, <1>5, <2>1, <2>3, <2>4 DEF TaskHasBlock
  <1>15. CASE g.r = "async"
    <2>1. f' = G /\ out' = NoData /\ trk' = Track("active", go)
      BY <1>2, <1>15
    <2>2. /\ F.st # "ASYNC" /\ g.f = [F EXCEPT !.st = "ASYNC", !.nfy = TRUE, !.task = TRUE] /\ g.buf = B2
          /\ g.io \in IoType /\ g.io.at = "queued" /\ g.io.buf = F.wbuf /\ g.io.off = AlignDown(off)
      BY <1>1, <1>8, <1>15 DEF Answer
    <2>3. g.f \in FType /\ g.f.st = "ASYNC" /\ g.f.task /\ g.f.wbuf = F.wbuf /\ g.f.freed = f.freed
      BY <1>6, <2>2 DEF FType
    <2>4. f' \in FType /\ f'.st = "ASYNC" /\ f'.task /\ f'.wbuf = F.wbuf /\ f'.freed = f.freed
      BY <1>11, <2>1, <2>3
    <2>5. HasToWait(F, B, off, go)
      BY <1>2, <1>4, <1>8, <2>1, <2>2, <2>4 DEF HasToWait
    <2>6. TaskHasBlock'
      BY <1>2, <1>7, <1>8, <2>2, <2>4 DEF TaskHasBlock, None
    <2>7. f.task /\ res = None => FALSE
      BY <1>1, <1>15
    <2> QED BY <1>1, <1>2, <1>4, <1>5, <1>8, <2>1, <2>2, <2>4, <2>5, <2>6, <2>7
  <1> QED BY <1>1, <1>12, <1>13, <1>14, <1>15 DEF Answer

(* The same of the chain asking for more data, wherever it does so. *)
LEMMA ProcessEffects ==
  ASSUME TypeOK, TaskHasBlock, NEW go \in BOOLEAN, Process(go)
  PROVE  /\ f' \in FType /\ buf' \in [Bufs -> BType] /\ io' \in IoType /\ out' \in OutType /\ trk' \in TrkType
         /\ f'.freed = f.freed /\ TaskHasBlock' /\ seeks' \in 0 .. MaxSeeks
         /\ \E off \in Nat, res \in Results, F \in FType, B \in [Bufs -> BType] :
               /\ AfterTaking(F, B, res)
               /\ f.task /\ res = None => IsOver(F)
               /\ GivesData(F, B) \/ AsksAgain(F, B) \/ IsOver(F) \/ HasToWait(F, B, off, go)
  <1>1. PICK res \in Results, add \in Adding :
            \/ Call(f.pos, FALSE, res, add, go) /\ UNCHANGED seeks
            \/ /\ seeks < MaxSeeks
               /\ \E off \in Seeks : Call(off, TRUE, res, add, go)
               /\ seeks' = seeks + 1
    BY DEF Process
  <1>2. PICK off \in Nat, seek \in BOOLEAN : Call(off, seek, res, add, go)
    <2>1. f.pos \in Nat
      BY DEF TypeOK
    <2> QED BY <1>1, <2>1, Assumed
  <1>3. seeks' \in 0 .. MaxSeeks
    <2>1. seeks \in 0 .. MaxSeeks /\ MaxSeeks \in Nat
      BY Assumed DEF TypeOK
    <2>2. seeks' = seeks \/ (seeks < MaxSeeks /\ seeks' = seeks + 1)
      BY <1>1
    <2> QED BY ONLY <2>1, <2>2
  <1>4. res \in Garbage
    BY DEF TypeOK, Results
  <1> QED BY <1>2, <1>3, <1>4, CallEffects

(* Run and Unpause call the filter of a track that reads. *)
Calls(go) == Reading /\ go \in BOOLEAN /\ Process(go) /\ UNCHANGED pauses

LEMMA Runs ==
  ASSUME TypeOK, Run \/ Unpause
  PROVE  \/ trk.st = "active" /\ trk.go /\ Calls(FALSE)
         \/ trk.st = "paused" /\ Calls(trk.go)
         \/ trk.st # "active" /\ trk' = [trk EXCEPT !.go = FALSE] /\ UNCHANGED <<f, buf, io, out, seeks, pauses>>
  <1>1. trk.go \in BOOLEAN
    BY DEF TypeOK
  <1> QED BY <1>1 DEF Run, Unpause, Calls, Reading

-----------------------------------------------------------------------------
(* The reader's memory is freed once, and no read is pending then. *)
IInv == TypeOK /\ TaskHasBlock /\ Owned

LEMMA InitIInv == Init => IInv
  <1> SUFFICES ASSUME Init PROVE IInv
    OBVIOUS
  <1>1. TypeOK
    <2>1. f \in FType
      BY Sizes DEF Init, Opened, FType
    <2>2. buf \in [Bufs -> BType]
      <3>1. EmptyBuf \in BType
        BY DEF EmptyBuf, BType
      <3> QED BY <3>1 DEF Init
    <2>3. io \in IoType /\ out \in OutType
      BY Sizes DEF Init, NoIo, IoType, NoData, OutType
    <2>4. trk \in TrkType
      BY DEF Init, Track, TrkType
    <2>5. seeks \in 0 .. MaxSeeks /\ pauses \in 0 .. MaxPauses
      <3>1. seeks = 0 /\ pauses = 0
        BY DEF Init
      <3> QED BY <3>1, Assumed
    <2> QED BY <2>1, <2>2, <2>3, <2>4, <2>5 DEF TypeOK, FType, BType, IoType, OutType, TrkType
  <1>2. TaskHasBlock
    BY DEF Init, Opened, TaskHasBlock
  <1>3. Owned
    BY DEF Init, Opened, Owned, NoIo, Track
  <1> QED BY <1>1, <1>2, <1>3 DEF IInv

LEMMA CallsIInv == ASSUME IInv, NEW go, Calls(go) PROVE IInv'
  <1>1. go \in BOOLEAN /\ Process(go) /\ TypeOK /\ TaskHasBlock /\ UNCHANGED pauses
    BY DEF Calls, IInv
  <1>2. /\ f' \in FType /\ buf' \in [Bufs -> BType] /\ io' \in IoType /\ out' \in OutType /\ trk' \in TrkType
        /\ f'.freed = f.freed /\ TaskHasBlock' /\ seeks' \in 0 .. MaxSeeks
    BY <1>1, ProcessEffects
  <1>3. TypeOK'
    BY <1>1, <1>2 DEF TypeOK, FType, BType, IoType, OutType, TrkType
  <1>4. PICK off \in Nat, res \in Results, F \in FType, B \in [Bufs -> BType] :
               /\ AfterTaking(F, B, res)
               /\ GivesData(F, B) \/ AsksAgain(F, B) \/ IsOver(F) \/ HasToWait(F, B, off, go)
    BY <1>1, ProcessEffects
  <1>5. F.st = f.st /\ f.freed = 0 /\ f.st # "CLOSED"
    BY <1>4 DEF AfterTaking, Calls, Reading, IInv, Owned
  <1>6. \/ io' = io /\ f'.st = f.st
        \/ f.st # "ASYNC" /\ f'.st = "ASYNC"
    BY <1>4, <1>5 DEF GivesData, AsksAgain, IsOver, HasToWait
  <1>7. Owned'
    BY <1>2, <1>5, <1>6 DEF IInv, Owned
  <1> QED BY <1>2, <1>3, <1>7 DEF IInv

LEMMA PauseIInv == IInv /\ Pause => IInv'
  <1> SUFFICES ASSUME IInv, Pause PROVE IInv'
    OBVIOUS
  <1>1. TypeOK /\ trk.st = "active" /\ UNCHANGED <<f, buf, io, out, seeks>>
    BY DEF IInv, Pause
  <1>2. trk' \in TrkType /\ trk'.st = "paused"
    <2>1. trk \in TrkType
      BY <1>1 DEF TypeOK, TrkType
    <2>2. trk' = Track("paused", FALSE) \/ trk' = [trk EXCEPT !.st = "paused"]
      BY DEF Pause
    <2>3. Track("paused", FALSE) \in TrkType /\ Track("paused", FALSE).st = "paused"
      BY DEF Track, TrkType
    <2>4. [trk EXCEPT !.st = "paused"] \in TrkType /\ [trk EXCEPT !.st = "paused"].st = "paused"
      BY <2>1 DEF TrkType
    <2> QED BY <2>2, <2>3, <2>4
  <1>3. pauses' \in 0 .. MaxPauses
    <2>1. pauses' = pauses + 1 /\ pauses < MaxPauses /\ pauses \in 0 .. MaxPauses /\ MaxPauses \in Nat
      BY <1>1, Assumed DEF Pause, TypeOK
    <2> QED BY <2>1
  <1>4. TypeOK'
    BY <1>1, <1>2, <1>3 DEF TypeOK, TrkType
  <1> QED BY <1>1, <1>2, <1>4 DEF IInv, TaskHasBlock, Owned

LEMMA CloseIInv == IInv /\ Close => IInv'
  <1> SUFFICES ASSUME IInv, Close PROVE IInv'
    OBVIOUS
  <1>1. /\ TypeOK /\ trk.st # "closed" /\ f' = Freed(f) /\ trk' = Track("closed", FALSE) /\ out' = NoData
        /\ UNCHANGED <<buf, io, seeks, pauses>>
    BY DEF IInv, Close
  <1>2. f \in FType /\ f.freed = 0
    BY <1>1 DEF IInv, Owned, TypeOK, FType
  <1>3. \/ f.st = "ASYNC" /\ f' = [f EXCEPT !.st = "CLOSED"]
        \/ f.st # "ASYNC" /\ f' = [f EXCEPT !.freed = f.freed + 1]
    BY <1>1 DEF Freed
  <1>4. /\ f' \in FType /\ f'.task = f.task /\ f'.wbuf = f.wbuf
        /\ \/ f.st = "ASYNC" /\ f'.st = "CLOSED" /\ f'.freed = 0
           \/ f.st # "ASYNC" /\ f'.freed = 1
    BY <1>2, <1>3 DEF FType
  <1>5. out' \in OutType /\ trk' \in TrkType /\ trk'.st = "closed"
    BY <1>1, Sizes DEF NoData, OutType, Track, TrkType
  <1>6. TypeOK'
    BY <1>1, <1>4, <1>5 DEF TypeOK, FType, OutType, TrkType
  <1>7. Owned'
    <2>1. io.at # "none" => f.st = "ASYNC"
      BY <1>1 DEF IInv, Owned
    <2>2. io' = io /\ trk'.st = "closed"
      BY <1>1, <1>5
    <2>3. CASE f.st = "ASYNC" /\ f'.st = "CLOSED" /\ f'.freed = 0
      BY <2>2, <2>3 DEF Owned
    <2>4. CASE f.st # "ASYNC" /\ f'.freed = 1
      BY <2>1, <2>2, <2>4 DEF Owned
    <2> QED BY <1>4, <2>3, <2>4
  <1> QED BY <1>1, <1>4, <1>6, <1>7 DEF IInv, TaskHasBlock

(* A thread of the pool writes into the memory of one buffer, and not what says of it. *)
LEMMA PreadEffects ==
  ASSUME TypeOK, Pread
  PROVE  /\ io.at \in {"queued", "lost"} /\ UNCHANGED <<f, out, trk, seeks, pauses>>
         /\ buf' \in [Bufs -> BType] /\ io' \in IoType
         /\ io'.at = "read" /\ io'.buf = io.buf /\ io'.off = io.off
         /\ \A i \in Bufs : buf'[i].off = buf[i].off /\ buf'[i].len = buf[i].len
         /\ \A i \in Bufs : i # io.buf => buf'[i] = buf[i]
         /\ \/ io'.res = None
            \/ buf'[io.buf].from = io.off /\ buf'[io.buf].to = io.off + io'.res
  <1>1. io \in IoType /\ buf \in [Bufs -> BType]
    BY DEF TypeOK, IoType, BType
  <1>2. io.at \in {"queued", "lost"} /\ UNCHANGED <<f, out, trk, seeks, pauses>>
    BY DEF Pread
  <1> DEFINE n == IF io.off >= Size THEN 0 ELSE IF Size - io.off < BufSize THEN Size - io.off ELSE BufSize
  <1>3. n \in 0 .. BufSize /\ n \in Nat /\ n \in Garbage
    BY <1>1, Assumed DEF IoType, Garbage, None
  <1>4. \/ /\ io' = [io EXCEPT !.at = "read", !.res = n]
           /\ buf' = [buf EXCEPT ![io.buf].from = io.off, ![io.buf].to = io.off + n]
        \/ io' = [io EXCEPT !.at = "read", !.res = None] /\ UNCHANGED buf
    BY DEF Pread
  <1> HIDE DEF n
  <1>5. CASE /\ io' = [io EXCEPT !.at = "read", !.res = n]
             /\ buf' = [buf EXCEPT ![io.buf].from = io.off, ![io.buf].to = io.off + n]
    <2> DEFINE b == [buf[io.buf] EXCEPT !.from = io.off, !.to = io.off + n]
    <2>1. /\ b \in BType /\ b.off = buf[io.buf].off /\ b.len = buf[io.buf].len
          /\ b.from = io.off /\ b.to = io.off + n
      <3>1. io.buf \in Bufs /\ io.off \in Nat /\ buf[io.buf] \in BType /\ n \in Nat /\ io.off + n \in Nat
        <4>1. io.buf \in Bufs /\ io.off \in Nat
          BY <1>1 DEF IoType
        <4> QED BY <1>1, <1>3, <4>1
      <3> QED BY ONLY <3>1 DEF b, BType
    <2>2. buf' = [buf EXCEPT ![io.buf] = b]
      BY <1>1, <1>5 DEF BType
    <2> HIDE DEF b
    <2>3. /\ buf' \in [Bufs -> BType] /\ buf'[io.buf] = b
          /\ \A i \in Bufs : i # io.buf => buf'[i] = buf[i]
      BY <1>1, <2>1, <2>2 DEF IoType
    <2>4. io' \in IoType /\ io'.at = "read" /\ io'.buf = io.buf /\ io'.off = io.off /\ io'.res = n
      BY <1>1, <1>3, <1>5 DEF IoType
    <2> QED BY <1>2, <2>1, <2>3, <2>4
  <1>6. CASE io' = [io EXCEPT !.at = "read", !.res = None] /\ UNCHANGED buf
    <2>1. io' \in IoType /\ io'.at = "read" /\ io'.buf = io.buf /\ io'.off = io.off /\ io'.res = None
      BY <1>1, <1>6, Sizes DEF IoType
    <2> QED BY <1>1, <1>2, <1>6, <2>1
  <1> QED BY <1>4, <1>5, <1>6

LEMMA PreadIInv == IInv /\ Pread => IInv'
  <1> SUFFICES ASSUME IInv, Pread PROVE IInv'
    OBVIOUS
  <1>1. TypeOK
    BY DEF IInv
  <1>2. TypeOK'
    BY <1>1, PreadEffects DEF TypeOK, BType, IoType
  <1>3. TaskHasBlock'
    <2>1. f.wbuf \in Bufs
      BY <1>1 DEF TypeOK
    <2> QED BY <1>1, <2>1, PreadEffects DEF IInv, TaskHasBlock
  <1>4. Owned'
    BY <1>1, PreadEffects DEF IInv, Owned
  <1> QED BY <1>2, <1>3, <1>4 DEF IInv

(* A read that is done frees a reader that was closed, and no other. *)
LEMMA CompleteEffects ==
  ASSUME IInv, Complete
  PROVE  /\ io.at = "read" /\ UNCHANGED <<buf, out, seeks, pauses>>
         /\ io' \in IoType /\ io'.at = "none" /\ io'.buf = io.buf /\ io'.off = io.off /\ io'.res = io.res
         /\ f' \in FType /\ f'.task = f.task /\ f'.wbuf = f.wbuf
         /\ trk' \in TrkType /\ trk'.st = trk.st
         /\ \/ trk.st = "closed" /\ f'.freed = 1
            \/ f.st # "CLOSED" /\ f'.st = "OK" /\ f'.freed = 0
  <1>1. io \in IoType /\ f \in FType /\ trk \in TrkType
    BY DEF IInv, TypeOK, IoType, FType, TrkType
  <1>2. io.at = "read" /\ UNCHANGED <<buf, out, seeks, pauses>> /\ f.freed = 0
    BY DEF Complete, IInv, Owned
  <1>3. io' \in IoType /\ io'.at = "none" /\ io'.buf = io.buf /\ io'.off = io.off /\ io'.res = io.res
    BY <1>1 DEF Complete, IoType
  <1>4. CASE f.st = "CLOSED"
    <2>1. f' = [f EXCEPT !.freed = f.freed + 1] /\ UNCHANGED trk
      BY <1>4 DEF Complete, Freed
    <2>2. f' \in FType /\ f'.task = f.task /\ f'.wbuf = f.wbuf /\ f'.freed = 1
      BY <1>1, <1>2, <2>1 DEF FType
    <2>3. trk.st = "closed"
      BY <1>4 DEF IInv, Owned
    <2> QED BY <1>1, <1>2, <1>3, <2>1, <2>2, <2>3
  <1>5. CASE f.st # "CLOSED"
    <2>1. /\ f' = [f EXCEPT !.st = "OK", !.nfy = FALSE]
          /\ trk' = IF f.nfy THEN [trk EXCEPT !.go = TRUE] ELSE trk
      BY <1>5 DEF Complete
    <2>2. f' \in FType /\ f'.task = f.task /\ f'.wbuf = f.wbuf /\ f'.st = "OK" /\ f'.freed = 0
      BY <1>1, <1>2, <2>1 DEF FType
    <2>3. trk' \in TrkType /\ trk'.st = trk.st
      BY <1>1, <2>1 DEF TrkType
    <2> QED BY <1>2, <1>3, <1>5, <2>2, <2>3
  <1> QED BY <1>4, <1>5

LEMMA CompleteIInv == IInv /\ Complete => IInv'
  <1> SUFFICES ASSUME IInv, Complete PROVE IInv'
    OBVIOUS
  <1>1. TypeOK'
    BY CompleteEffects DEF IInv, TypeOK, FType, IoType, TrkType
  <1>2. TaskHasBlock' /\ Owned'
    BY CompleteEffects DEF IInv, TaskHasBlock, Owned
  <1> QED BY <1>1, <1>2 DEF IInv

LEMMA StepIInv == IInv /\ [Next]_vars => IInv'
  <1> SUFFICES ASSUME IInv, [Next]_vars PROVE IInv'
    OBVIOUS
  <1>1. CASE Run \/ Unpause
    <2>1. CASE trk.st # "active" /\ trk' = [trk EXCEPT !.go = FALSE] /\ UNCHANGED <<f, buf, io, out, seeks, pauses>>
      <3>1. trk' \in TrkType /\ trk'.st = trk.st
        BY <2>1 DEF IInv, TypeOK, TrkType
      <3>2. TypeOK'
        BY <2>1, <3>1 DEF IInv, TypeOK, TrkType
      <3> QED BY <2>1, <3>1, <3>2 DEF IInv, TaskHasBlock, Owned
    <2>2. TypeOK
      BY DEF IInv
    <2> QED BY <1>1, <2>1, <2>2, Runs, CallsIInv
  <1>2. CASE UNCHANGED vars
    BY <1>2 DEF vars, IInv, TypeOK, TaskHasBlock, Owned, Garbage, Bufs
  <1> QED BY <1>1, <1>2, PauseIInv, CloseIInv, PreadIInv, CompleteIInv DEF Next

(* The inductive invariant holds: a pending read belongs to a reader that is not
   freed, and a closed track's reader is freed or waits for its read's end. *)
THEOREM Invariance == Spec => []IInv
  BY InitIInv, StepIInv, PTL DEF Spec

(* Every variable has its type; in particular the buffer that is written and the one
   that the chain reads exist, for any number of buffers. *)
THEOREM TypeCorrect == Spec => []TypeOK
  <1>1. IInv => TypeOK
    BY DEF IInv
  <1> QED BY <1>1, Invariance, PTL

(* Whoever is first, the close of the track or the end of the read, and wherever the
   track was paused: the reader is freed at most once, and then the pool has no read
   that would use it. *)
THEOREM NothingUsesFreedHolds == Spec => []NothingUsesFreed
  <1>1. IInv => NothingUsesFreed
    BY DEF IInv, Owned, NothingUsesFreed, TypeOK
  <1> QED BY <1>1, Invariance, PTL

-----------------------------------------------------------------------------
(* The data is right as long as only the track's own output pauses it: a track
   that waits for a read then goes on by the read's end, and by nothing else. *)
LEMMA CalledWhenDone ==
  ASSUME IInv, ReadsRight, Run \/ Unpause, Reading
  PROVE  /\ Calls(FALSE) /\ io.at = "none" /\ f.st = "OK"
         /\ f.task => Pending
  <1>1. (trk.st = "active" /\ trk.go /\ Calls(FALSE)) \/ (trk.st = "paused" /\ Calls(trk.go))
        \/ (trk.st = "paused" /\ Run)
    <2>1. trk.st \in {"active", "paused"}
      BY DEF Reading
    <2>2. Unpause => trk.st = "paused" /\ Calls(trk.go)
      BY DEF Unpause, Calls, Reading, IInv, TypeOK
    <2>3. Run /\ trk.st = "active" => trk.go /\ Calls(FALSE)
      BY DEF Run, Calls, Reading
    <2> QED BY <2>1, <2>2, <2>3
  <1>2. trk.st = "paused" => ~trk.go /\ ~f.task
    BY DEF ReadsRight, Reading, Pending
  <1>3. trk.go \in BOOLEAN /\ f.st \in {"OK", "ASYNC", "CLOSED"}
    BY DEF IInv, TypeOK
  <1>4. f.task => Pending /\ trk.st = "active"
    BY DEF ReadsRight, Reading, Pending
  <1>5. (trk.st = "active" /\ trk.go /\ Calls(FALSE)) \/ (trk.st = "paused" /\ Calls(FALSE))
    <2>1. trk.st = "paused" => trk.go = FALSE
      BY <1>2, <1>3
    <2>2. Run => trk.go
      BY DEF Run
    <2> QED BY <1>1, <2>1, <2>2
  <1>6. io.at = "none" /\ f.st = "OK"
    <2>1. CASE f.task
      <3>1. trk.go /\ Pending
        BY <1>4, <1>5, <2>1
      <3>2. io.at = "none" /\ f.st # "ASYNC"
        BY <3>1 DEF Pending
      <3>3. f.st # "CLOSED"
        BY DEF Reading, IInv, Owned
      <3> QED BY <1>3, <3>2, <3>3
    <2>2. CASE ~f.task
      BY <2>2 DEF ReadsRight
    <2> QED BY <2>1, <2>2
  <1> QED BY <1>4, <1>5, <1>6

(* The result that is taken makes the buffer's length that of the data in it. *)
LEMMA TakenIsGood ==
  ASSUME IInv, ReadsRight, Reading, io.at = "none", NEW F, NEW B, AfterTaking(F, B, io.res),
         ~(f.task /\ io.res = None)
  PROVE  \A i \in Bufs : Good(B[i])
  <1>1. CASE ~f.task
    BY <1>1 DEF AfterTaking, ReadsRight
  <1>2. CASE f.task
    <2>1. /\ Pending /\ buf \in [Bufs -> BType] /\ f.wbuf \in Bufs /\ io \in IoType
          /\ \A i \in Bufs \ {f.wbuf} : Good(buf[i])
      BY <1>2 DEF ReadsRight, IInv, TypeOK, BType, IoType
    <2>2. io.res # None /\ B = [buf EXCEPT ![f.wbuf].len = io.res]
      BY <1>2 DEF AfterTaking
    <2>3. io.res \in Nat /\ io.off \in Nat
      BY <2>1, <2>2, Sizes DEF IoType
    <2>4. /\ buf[f.wbuf].off = io.off /\ buf[f.wbuf].from = io.off
          /\ buf[f.wbuf].to = io.off + io.res /\ buf[f.wbuf] \in BType
      BY <2>1, <2>2 DEF Pending
    <2>5. /\ \A i \in Bufs \ {f.wbuf} : B[i] = buf[i]
          /\ B[f.wbuf] = [buf[f.wbuf] EXCEPT !.len = io.res]
      BY <2>1, <2>2
    <2>6. /\ B[f.wbuf].off = io.off /\ B[f.wbuf].from = io.off
          /\ B[f.wbuf].to = io.off + io.res /\ B[f.wbuf].len = io.res
      BY <2>4, <2>5 DEF BType
    <2>7. Good(B[f.wbuf])
      BY <2>3, <2>6 DEF Good
    <2> QED BY <2>1, <2>5, <2>7
  <1> QED BY <1>1, <1>2

(* A call of the filter leaves data that is right, or none. *)
LEMMA CallsReadsRight ==
  ASSUME IInv, ReadsRight, Run \/ Unpause, Reading
  PROVE  ReadsRight'
  <1>1. Calls(FALSE) /\ io.at = "none" /\ f.st = "OK"
    BY CalledWhenDone
  <1>2. TypeOK /\ TaskHasBlock /\ Process(FALSE) /\ io.res \in Garbage
    BY <1>1 DEF IInv, Calls, TypeOK
  <1>3. PICK off \in Nat, res \in Results, F \in FType, B \in [Bufs -> BType] :
               /\ AfterTaking(F, B, res)
               /\ f.task /\ res = None => IsOver(F)
               /\ GivesData(F, B) \/ AsksAgain(F, B) \/ IsOver(F) \/ HasToWait(F, B, off, FALSE)
    BY <1>2, ProcessEffects
  <1>4. res = io.res /\ F.st = "OK" /\ F.wbuf \in Bufs
    BY <1>1, <1>3 DEF Results, AfterTaking, FType
  <1>5. \A s, b : Track(s, b).st = s /\ Track(s, b).go = b
    BY DEF Track
  <1>6. IsOver(F) => ReadsRight'
    BY DEF IsOver, ReadsRight, Reading
  <1>7. ~(f.task /\ res = None) => \A i \in Bufs : Good(B[i])
    BY <1>1, <1>3, <1>4, TakenIsGood
  <1>8. ASSUME GivesData(F, B) \/ AsksAgain(F, B), \A i \in Bufs : Good(B[i])
        PROVE  ReadsRight'
    <2>1. /\ trk'.st = "active" /\ io'.at = "none" /\ f'.st = "OK" /\ ~f'.task /\ buf' = B
      BY <1>1, <1>4, <1>5, <1>8 DEF GivesData, AsksAgain
    <2>2. \A i \in Bufs : Good(buf[i])'
      BY <1>8, <2>1 DEF Good
    <2>3. out'.len > 0 => /\ buf'[out'.buf].off <= out'.off
                          /\ out'.off + out'.len = buf'[out'.buf].off + buf'[out'.buf].len
      <3>1. CASE GivesData(F, B)
        BY <2>1, <3>1 DEF GivesData
      <3>2. CASE AsksAgain(F, B)
        <4>1. ~(out'.len > 0)
          BY <3>2 DEF AsksAgain
        <4> QED BY <4>1
      <3> QED BY <1>8, <3>1, <3>2
    <2>4. /\ out' \in OutType /\ buf' \in [Bufs -> BType]
      BY <1>2, ProcessEffects
    <2>5. out'.len > 0 => out'.off + out'.len <= buf'[out'.buf].off + buf'[out'.buf].len
      <3>1. out'.off + out'.len \in Nat
        BY <2>4 DEF OutType
      <3> QED BY <2>3, <3>1
    <2> QED BY <2>1, <2>2, <2>3, <2>5 DEF ReadsRight, Reading
  <1>9. ASSUME HasToWait(F, B, off, FALSE), \A i \in Bufs : Good(B[i])
        PROVE  ReadsRight'
    <2>1. /\ trk'.st = "active" /\ ~trk'.go /\ out'.len = 0 /\ f'.st = "ASYNC" /\ f'.task /\ f'.wbuf = F.wbuf
          /\ buf' = [B EXCEPT ![F.wbuf].off = AlignDown(off)]
          /\ io'.at = "queued" /\ io'.buf = F.wbuf /\ io'.off = AlignDown(off)
      BY <1>5, <1>9 DEF HasToWait
    <2>2. /\ \A i \in Bufs \ {f'.wbuf} : buf'[i] = B[i]
          /\ buf'[f'.wbuf].off = AlignDown(off)
      <3>1. B[F.wbuf] \in BType
        BY <1>4
      <3>2. [B[F.wbuf] EXCEPT !.off = AlignDown(off)].off = AlignDown(off)
        BY <3>1 DEF BType
      <3>3. buf' = [B EXCEPT ![F.wbuf] = [B[F.wbuf] EXCEPT !.off = AlignDown(off)]]
        BY <2>1
      <3> QED BY <1>4, <2>1, <3>2, <3>3
    <2>3. \A i \in Bufs \ {f'.wbuf} : Good(buf[i])'
      BY <1>9, <2>2 DEF Good
    <2>4. Pending'
      BY <2>1, <2>2 DEF Pending
    <2>5. \A i \in Bufs : (f'.task /\ i = f'.wbuf) \/ Good(buf[i])'
      BY <2>1, <2>3
    <2>6. ~(out'.len > 0)
      BY <2>1
    <2> QED BY <2>1, <2>4, <2>5, <2>6 DEF ReadsRight, Reading
  <1> QED BY <1>3, <1>4, <1>6, <1>7, <1>8, <1>9

(* Every step does, and a result is taken only when the pool is done with the read. *)
LEMMA StepReadsRight ==
  ASSUME PauseAnywhere = FALSE, IInv, ReadsRight, [Next]_vars
  PROVE  ReadsRight' /\ (f.task /\ ~f'.task => f.st = "OK")
  <1>1. f \in FType /\ out \in OutType /\ NoData.len = 0
    BY DEF IInv, TypeOK, FType, OutType, NoData
  <1>2. CASE (Run \/ Unpause) /\ Reading
    <2>1. f.st = "OK"
      BY <1>2, CalledWhenDone
    <2> QED BY <1>2, <2>1, CallsReadsRight
  <1>3. CASE (Run \/ Unpause) /\ ~Reading
    <2>1. trk' = [trk EXCEPT !.go = FALSE] /\ UNCHANGED <<f, buf, io, out, seeks, pauses>>
      BY <1>3, Runs DEF IInv, Reading, Calls
    <2>2. trk'.st = trk.st
      BY <2>1 DEF IInv, TypeOK
    <2> QED BY <1>3, <2>1, <2>2 DEF ReadsRight, Reading
  <1>4. CASE Pause
    <2>1. trk.st = "active" /\ ~f.task /\ trk' = Track("paused", FALSE) /\ UNCHANGED <<f, buf, io, out, seeks>>
      BY <1>4 DEF Pause
    <2>2. trk'.st = "paused" /\ ~trk'.go
      BY <2>1 DEF Track
    <2>3. io.at = "none" /\ f.st = "OK" /\ (\A i \in Bufs : Good(buf[i]))
          /\ (out.len > 0 => /\ buf[out.buf].off <= out.off
                             /\ out.off + out.len <= buf[out.buf].off + buf[out.buf].len)
      BY <2>1 DEF ReadsRight, Reading
    <2> QED BY <2>1, <2>2, <2>3 DEF ReadsRight, Reading, Good
  <1>5. CASE Close
    <2>1. trk' = Track("closed", FALSE) /\ out' = NoData /\ f' = Freed(f)
      BY <1>5 DEF Close
    <2>2. trk'.st = "closed" /\ out'.len = 0 /\ f'.task = f.task
      BY <1>1, <2>1 DEF Track, Freed, FType
    <2> QED BY <2>2 DEF ReadsRight, Reading
  <1>6. CASE Pread
    <2>1. /\ io.at \in {"queued", "lost"} /\ UNCHANGED <<f, out, trk, seeks, pauses>>
          /\ io'.at = "read" /\ io'.buf = io.buf /\ io'.off = io.off
          /\ \A i \in Bufs : buf'[i].off = buf[i].off /\ buf'[i].len = buf[i].len
          /\ \A i \in Bufs : i # io.buf => buf'[i] = buf[i]
          /\ \/ io'.res = None
             \/ buf'[io.buf].from = io.off /\ buf'[io.buf].to = io.off + io'.res
      BY <1>6, PreadEffects DEF IInv
    <2>2. CASE Reading
      <3>1. f.task /\ Pending /\ ~trk.go
        BY <2>1, <2>2 DEF ReadsRight, Pending
      <3>2. f.wbuf \in Bufs
        BY <1>1 DEF FType
      <3>3. Pending'
        BY <2>1, <3>1, <3>2 DEF Pending
      <3>4. \A i \in Bufs : i # f.wbuf => buf'[i] = buf[i] /\ Good(buf[i])
        BY <2>1, <2>2, <3>1 DEF ReadsRight, Pending
      <3>5. \A i \in Bufs : (f'.task /\ i = f'.wbuf) \/ Good(buf[i])'
        BY <2>1, <3>1, <3>4 DEF Good
      <3>6. ~(out'.len > 0) /\ trk'.st # "paused"
        BY <2>1, <2>2, <3>1 DEF ReadsRight, Pending
      <3> QED BY <2>1, <2>2, <3>1, <3>3, <3>5, <3>6 DEF ReadsRight, Reading
    <2>3. CASE ~Reading
      BY <2>1, <2>3 DEF ReadsRight, Reading
    <2> QED BY <2>1, <2>2, <2>3
  <1>7. CASE Complete
    <2>1. /\ io.at = "read" /\ UNCHANGED <<buf, out, seeks, pauses>>
          /\ io'.at = "none" /\ io'.buf = io.buf /\ io'.off = io.off /\ io'.res = io.res
          /\ f'.task = f.task /\ f'.wbuf = f.wbuf /\ trk'.st = trk.st
          /\ \/ trk.st = "closed" /\ f'.freed = 1
             \/ f.st # "CLOSED" /\ f'.st = "OK" /\ f'.freed = 0
      BY <1>7, CompleteEffects
    <2>2. CASE Reading
      <3>1. f.task /\ Pending /\ f'.st = "OK" /\ ~(out.len > 0)
        BY <2>1, <2>2 DEF ReadsRight, Reading
      <3>2. Pending'
        BY <2>1, <3>1 DEF Pending
      <3>3. \A i \in Bufs : (f'.task /\ i = f'.wbuf) \/ Good(buf[i])'
        BY <2>1, <2>2, <3>1 DEF ReadsRight, Good
      <3>4. trk.st # "paused"
        BY <3>1 DEF Pending
      <3> QED BY <2>1, <2>2, <3>1, <3>2, <3>3, <3>4 DEF ReadsRight, Reading
    <2>3. CASE ~Reading
      BY <2>1, <2>3 DEF ReadsRight, Reading
    <2> QED BY <2>1, <2>2, <2>3
  <1>8. CASE UNCHANGED vars
    BY <1>8 DEF vars, ReadsRight, Reading, Good, Pending
  <1> QED BY <1>2, <1>3, <1>4, <1>5, <1>6, <1>7, <1>8 DEF Next

LEMMA ReadsRightHolds == ASSUME PauseAnywhere = FALSE PROVE Spec => [](IInv /\ ReadsRight)
  <1>1. Init => IInv /\ ReadsRight
    <2> SUFFICES ASSUME Init PROVE IInv /\ ReadsRight
      OBVIOUS
    <2>1. /\ ~f.task /\ f.st = "OK" /\ io.at = "none" /\ trk.st = "active" /\ out.len = 0
          /\ \A i \in Bufs : buf[i].len = 0
      BY DEF Init, Opened, NoIo, Track, NoData, EmptyBuf
    <2> QED BY <2>1, InitIInv DEF ReadsRight, Reading, Good
  <1>2. IInv /\ ReadsRight /\ [Next]_vars => (IInv /\ ReadsRight)'
    BY StepIInv, StepReadsRight
  <1> QED BY <1>1, <1>2, PTL DEF Spec

(* As long as the chain works on the data it was given, the buffer's memory is the
   file's at that offset, for any number of buffers, any sizes and any seeks,
   when tracks are paused by their own output only: the run with the command
   that pauses all tracks shows how the reader goes wrong. *)
THEOREM DataIsRightHolds == ASSUME PauseAnywhere = FALSE PROVE Spec => []DataIsRight
  <1>1. IInv /\ ReadsRight => DataIsRight
    <2> SUFFICES ASSUME IInv, ReadsRight, out.len > 0
                 PROVE  buf[out.buf].from <= out.off /\ out.off + out.len <= buf[out.buf].to
      BY DEF DataIsRight
    <2>1. out \in OutType /\ buf \in [Bufs -> BType]
      BY DEF IInv, TypeOK, OutType, BType
    <2>2. out.buf \in Bufs /\ out.off \in Nat /\ out.len \in Nat /\ buf[out.buf] \in BType
      BY <2>1 DEF OutType
    <2>3. /\ buf[out.buf].off \in Int /\ buf[out.buf].len \in Nat
          /\ buf[out.buf].from \in Nat /\ buf[out.buf].to \in Nat
      BY <2>2 DEF BType, None
    <2>4. Reading
      BY <2>2 DEF ReadsRight
    <2>5. /\ Good(buf[out.buf]) /\ buf[out.buf].off <= out.off
          /\ out.off + out.len <= buf[out.buf].off + buf[out.buf].len
      BY <2>2, <2>4 DEF ReadsRight
    <2>6. buf[out.buf].len > 0
      BY <2>2, <2>3, <2>5
    <2>7. buf[out.buf].from <= buf[out.buf].off /\ buf[out.buf].off + buf[out.buf].len <= buf[out.buf].to
      BY <2>5, <2>6 DEF Good
    <2> QED BY <2>2, <2>3, <2>5, <2>7
  <1> QED BY <1>1, ReadsRightHolds, PTL

(* FF_ASSERT(f->state == FI_OK) (fffileread.c:367) holds on every step as long as
   tracks are paused by their own output only: the result of a read is taken when
   the pool is done with it. *)
THEOREM TakenWhenDoneHolds == ASSUME PauseAnywhere = FALSE PROVE Spec => TakenWhenDone
  <1>1. IInv /\ ReadsRight /\ [Next]_vars => [f.task /\ ~f'.task => f.st = "OK"]_vars
    BY StepReadsRight
  <1> QED BY <1>1, ReadsRightHolds, PTL DEF Spec, TakenWhenDone
=============================================================================
