--------------------------- MODULE AudioOutProofs ---------------------------
(***************************************************************************)
(* Safety of the audio output for any number of tracks, of blocks and of   *)
(* formats, any size of the audio buffer, on all six audio systems.        *)
(***************************************************************************)
EXTENDS AudioOut, FiniteSetTheorems, SequenceTheorems, TLAPS

Formats == {Native} \cup {Fmt[t] : t \in Tracks}
OutType ==
    [open : BOOLEAN, state : {"TRYOPEN", "OPEN", "DATA"}, stream : {0} \cup Streams, async : BOOLEAN,
     clear : BOOLEAN, fmt : Formats, offline : BOOLEAN]
TrkType ==
    [st : {"new", "active", "paused", "fin", "freed"}, go : BOOLEAN, stop : BOOLEAN, pause : BOOLEAN,
     seek : BOOLEAN, left : 0 .. Blocks]
Users == Tracks \cup {NoTrack}
Heards == {q \in Seq(Tracks) : Len(q) <= Cap}
ModType ==
    [out : {0} \cup Streams, fmt : Formats, heard : Heards, on : BOOLEAN, usedby : Users,
     tmr : {"off", "wake", "close"}, who : Users, bad : SUBSET Formats]
StateType == [mod : [Buffers -> ModType], a : [Tracks -> OutType], trk : [Tracks -> TrkType]]

-----------------------------------------------------------------------------
(* A buffer, its user and its timer; a track uses no other buffer than its own or
   the common one. *)
Owned(S, b) ==
    LET m == S.mod[b]
    IN  /\ m.usedby # NoTrack =>
               /\ S.a[m.usedby].open /\ m.out # 0 /\ S.a[m.usedby].stream = m.out
               /\ m.tmr = "wake" /\ b = Buf(m.usedby)
        /\ m.tmr = "wake" => m.who = m.usedby /\ m.who # NoTrack
        /\ m.tmr = "close" => m.usedby = NoTrack

(* What a buffer holds is its user's; the common one is empty when it is closed. *)
AllOf(q, t) == \A i \in 1 .. Len(q) : q[i] = t
Holds(S, b) ==
    LET m == S.mod[b]
    IN  /\ m.usedby # NoTrack => AllOf(m.heard, m.usedby)
        /\ b \in Tracks => AllOf(m.heard, b)
        /\ b = Common /\ m.out = 0 => m.heard = <<>>

(* A track waits for its filter, is queued or is paused. *)
Waiting(S, t) ==
    /\ S.a[t].async => ~S.trk[t].go /\ S.trk[t].st = "active"
    /\ S.trk[t].st = "paused" => ~S.trk[t].go

StateOK(S) == S \in StateType /\ \A b \in Buffers : Owned(S, b) /\ Holds(S, b)
Inv(S) == StateOK(S) /\ \A t \in Tracks : Waiting(S, t)

(* Inside trk_process() of track t. *)
Inside(S, t) ==
    /\ StateOK(S)
    /\ \A u \in Tracks \ {t} : Waiting(S, u)
    /\ S.a[t].open /\ ~S.a[t].async /\ ~S.trk[t].go /\ S.trk[t].st = "active"

IInv == sys \in Systems /\ cur \in Users /\ Inv(Now)

-----------------------------------------------------------------------------
LEMMA Assumed ==
  /\ Systems \subseteq OneBuffer \cup BufferEach /\ IsFiniteSet(Tracks) /\ NoTrack \notin Tracks
  /\ Blocks \in Nat /\ Blocks > 0 /\ Cap \in Nat /\ Cap > 0
  BY OutAssumption

(* Only the buffer b changes. *)
OnlyBuffer(S, T, b) ==
    /\ T \in StateType /\ T.a = S.a /\ T.trk = S.trk
    /\ \A c \in Buffers : c # b => T.mod[c] = S.mod[c]

LEMMA BufferSet ==
  ASSUME NEW S \in StateType, NEW b \in Buffers, NEW m \in ModType
  PROVE  LET T == [S EXCEPT !.mod[b] = m] IN OnlyBuffer(S, T, b) /\ T.mod[b] = m
  BY DEF StateType, OnlyBuffer

(* Only what the chain and the filter of track t keep changes. *)
OnlyTrack(S, T, t) ==
    /\ T \in StateType /\ T.mod = S.mod
    /\ \A u \in Tracks : u # t => T.a[u] = S.a[u] /\ T.trk[u] = S.trk[u]

LEMMA FilterSet ==
  ASSUME NEW S \in StateType, NEW t \in Tracks, NEW o \in OutType
  PROVE  LET T == [S EXCEPT !.a[t] = o] IN OnlyTrack(S, T, t) /\ T.a[t] = o /\ T.trk = S.trk
  BY DEF StateType, OnlyTrack

LEMMA TrackSet ==
  ASSUME NEW S \in StateType, NEW t \in Tracks, NEW k \in TrkType
  PROVE  LET T == [S EXCEPT !.trk[t] = k] IN OnlyTrack(S, T, t) /\ T.trk[t] = k /\ T.a = S.a
  BY DEF StateType, OnlyTrack

LEMMA StoppedIs ==
  ASSUME NEW S \in StateType, NEW b \in Buffers
  PROVE  /\ OnlyBuffer(S, Stopped(S, b), b)
         /\ Stopped(S, b).mod[b] = [S.mod[b] EXCEPT !.on = FALSE]
  <1> DEFINE m == [S.mod[b] EXCEPT !.on = FALSE]
  <1>1. S.mod[b] \in ModType
    BY DEF StateType
  <1>2. m \in ModType
    BY <1>1 DEF ModType
  <1>3. Stopped(S, b) = [S EXCEPT !.mod[b] = m]
    BY DEF Stopped
  <1> HIDE DEF m
  <1>4. OnlyBuffer(S, Stopped(S, b), b) /\ Stopped(S, b).mod[b] = m
    BY <1>2, <1>3, BufferSet
  <1> QED BY <1>4 DEF m

LEMMA ClearedIs ==
  ASSUME NEW S \in StateType, NEW b \in Buffers
  PROVE  /\ OnlyBuffer(S, Cleared(S, b), b)
         /\ Cleared(S, b).mod[b] = [S.mod[b] EXCEPT !.heard = <<>>]
  <1> DEFINE m == [S.mod[b] EXCEPT !.heard = <<>>]
  <1>1. S.mod[b] \in ModType /\ <<>> \in Heards
    BY Assumed DEF StateType, Heards
  <1>2. m \in ModType
    BY <1>1 DEF ModType
  <1>3. Cleared(S, b) = [S EXCEPT !.mod[b] = m]
    BY DEF Cleared
  <1> HIDE DEF m
  <1>4. OnlyBuffer(S, Cleared(S, b), b) /\ Cleared(S, b).mod[b] = m
    BY <1>2, <1>3, BufferSet
  <1> QED BY <1>4 DEF m

LEMMA TimerOffIs ==
  ASSUME NEW S \in StateType, NEW b \in Buffers
  PROVE  /\ OnlyBuffer(S, TimerOff(S, b), b)
         /\ TimerOff(S, b).mod[b] = [S.mod[b] EXCEPT !.tmr = "off", !.who = NoTrack]
  <1> DEFINE m == [S.mod[b] EXCEPT !.tmr = "off", !.who = NoTrack]
  <1>1. S.mod[b] \in ModType
    BY DEF StateType
  <1>2. m \in ModType
    BY <1>1 DEF ModType, Users
  <1>3. TimerOff(S, b) = [S EXCEPT !.mod[b] = m]
    BY DEF TimerOff, StateType
  <1> HIDE DEF m
  <1>4. OnlyBuffer(S, TimerOff(S, b), b) /\ TimerOff(S, b).mod[b] = m
    BY <1>2, <1>3, BufferSet
  <1> QED BY <1>4 DEF m

LEMMA UnusedIs ==
  ASSUME NEW S \in StateType, NEW b \in Buffers
  PROVE  /\ OnlyBuffer(S, Unused(S, b), b)
         /\ Unused(S, b).mod[b] = [S.mod[b] EXCEPT !.usedby = NoTrack]
  <1> DEFINE m == [S.mod[b] EXCEPT !.usedby = NoTrack]
  <1>1. S.mod[b] \in ModType
    BY DEF StateType
  <1>2. m \in ModType
    BY <1>1 DEF ModType, Users
  <1>3. Unused(S, b) = [S EXCEPT !.mod[b] = m]
    BY DEF Unused
  <1> HIDE DEF m
  <1>4. OnlyBuffer(S, Unused(S, b), b) /\ Unused(S, b).mod[b] = m
    BY <1>2, <1>3, BufferSet
  <1> QED BY <1>4 DEF m

LEMMA BufClosedIs ==
  ASSUME NEW S \in StateType, NEW b \in Buffers
  PROVE  /\ OnlyBuffer(S, BufClosed(S, b), b)
         /\ BufClosed(S, b).mod[b] = [S.mod[b] EXCEPT !.on = FALSE, !.heard = <<>>, !.out = 0]
  <1> DEFINE S1 == Stopped(S, b)
             S2 == Cleared(S1, b)
  <1>1. OnlyBuffer(S, S1, b) /\ S1.mod[b] = [S.mod[b] EXCEPT !.on = FALSE]
    BY StoppedIs
  <1>2. OnlyBuffer(S1, S2, b) /\ S2.mod[b] = [S1.mod[b] EXCEPT !.heard = <<>>]
    BY <1>1, ClearedIs DEF OnlyBuffer
  <1>3. BufClosed(S, b) = [S2 EXCEPT !.mod[b] = [S2.mod[b] EXCEPT !.out = 0]]
    BY DEF BufClosed
  <1> HIDE DEF S1, S2
  <1>4. S2 \in StateType /\ S2.mod[b] \in ModType /\ S.mod[b] \in ModType
    BY <1>2 DEF OnlyBuffer, StateType
  <1>5. [S2.mod[b] EXCEPT !.out = 0] \in ModType
    BY <1>4 DEF ModType
  <1>6. OnlyBuffer(S2, BufClosed(S, b), b) /\ BufClosed(S, b).mod[b] = [S2.mod[b] EXCEPT !.out = 0]
    BY <1>3, <1>4, <1>5, BufferSet
  <1>7. BufClosed(S, b).mod[b] = [S.mod[b] EXCEPT !.on = FALSE, !.heard = <<>>, !.out = 0]
    BY <1>1, <1>2, <1>4, <1>6 DEF ModType
  <1> QED BY <1>1, <1>2, <1>6, <1>7 DEF OnlyBuffer

(* audio_out_onplay() *)
LEMMA OnPlayIs ==
  ASSUME NEW S \in StateType, NEW t \in Tracks
  PROVE  /\ OnlyTrack(S, OnPlay(S, t), t)
         /\ OnPlay(S, t).a[t] = [S.a[t] EXCEPT !.async = FALSE]
         /\ OnPlay(S, t).trk[t] = IF S.a[t].async THEN [S.trk[t] EXCEPT !.go = TRUE] ELSE S.trk[t]
  <1>1. S.a[t] \in OutType /\ S.trk[t] \in TrkType
    BY DEF StateType
  <1>2. CASE ~S.a[t].async
    <2>1. OnPlay(S, t) = S
      BY <1>2 DEF OnPlay
    <2>2. [S.a[t] EXCEPT !.async = FALSE] = S.a[t]
      BY <1>1, <1>2 DEF OutType
    <2> QED BY <1>2, <2>1, <2>2 DEF OnlyTrack
  <1>3. CASE S.a[t].async
    <2> DEFINE o == [S.a[t] EXCEPT !.async = FALSE]
               k == [S.trk[t] EXCEPT !.go = TRUE]
               T == [S EXCEPT !.a[t] = o]
    <2>1. o \in OutType /\ k \in TrkType
      BY <1>1 DEF OutType, TrkType
    <2>2. OnPlay(S, t) = [T EXCEPT !.trk[t] = k]
      BY <1>3 DEF OnPlay, StateType
    <2> HIDE DEF o, k
    <2>3. OnlyTrack(S, T, t) /\ T.a[t] = o /\ T.trk = S.trk
      BY <2>1, FilterSet
    <2> HIDE DEF T
    <2>4. OnlyTrack(T, OnPlay(S, t), t) /\ OnPlay(S, t).trk[t] = k /\ OnPlay(S, t).a = T.a
      BY <2>1, <2>2, <2>3, TrackSet DEF OnlyTrack
    <2> QED BY <1>3, <2>3, <2>4 DEF OnlyTrack, o, k
  <1> QED BY <1>2, <1>3

-----------------------------------------------------------------------------
(* A buffer that changes and is right again. *)
LEMMA BufferStep ==
  ASSUME NEW S, NEW T, NEW b \in Buffers, OnlyBuffer(S, T, b), Owned(T, b), Holds(T, b)
  PROVE  /\ StateOK(S) => StateOK(T)
         /\ Inv(S) => Inv(T)
         /\ \A t \in Tracks : Inside(S, t) => Inside(T, t)
  <1>1. ASSUME StateOK(S) PROVE StateOK(T)
    <2>1. ASSUME NEW c \in Buffers, c # b PROVE Owned(T, c) /\ Holds(T, c)
      BY <1>1, <2>1 DEF StateOK, OnlyBuffer, Owned, Holds
    <2> QED BY <2>1 DEF StateOK, OnlyBuffer
  <1>2. \A t \in Tracks : Waiting(T, t) <=> Waiting(S, t)
    BY DEF OnlyBuffer, Waiting
  <1> QED BY <1>1, <1>2 DEF Inv, Inside, OnlyBuffer

(* A track that changes, but not its buffer. *)
LEMMA TrackStep ==
  ASSUME NEW S, NEW T, NEW t \in Tracks, OnlyTrack(S, T, t), StateOK(S),
         S.a[t].open => T.a[t].open,  T.a[t].stream = S.a[t].stream
  PROVE  /\ StateOK(T)
         /\ Inv(S) /\ Waiting(T, t) => Inv(T)
         /\ \A u \in Tracks \ {t} : Waiting(S, u) => Waiting(T, u)
  <1>1. \A u \in Tracks : (S.a[u].open => T.a[u].open) /\ T.a[u].stream = S.a[u].stream
    BY DEF OnlyTrack
  <1>2. ASSUME NEW c \in Buffers PROVE Owned(T, c) /\ Holds(T, c)
    <2>1. T.mod[c] = S.mod[c] /\ Owned(S, c) /\ Holds(S, c)
      BY DEF OnlyTrack, StateOK
    <2>2. S.mod[c].usedby # NoTrack => S.mod[c].usedby \in Tracks
      BY DEF StateOK, StateType, ModType, Users
    <2> QED BY <1>1, <2>1, <2>2 DEF Owned, Holds
  <1>3. \A u \in Tracks \ {t} : Waiting(T, u) <=> Waiting(S, u)
    BY DEF OnlyTrack, Waiting
  <1> QED BY <1>2, <1>3 DEF StateOK, Inv, OnlyTrack

(* The buffer that is open is left without a user. *)
LEMMA DisplacedIs ==
  ASSUME NEW S, NEW t \in Tracks, Inside(S, t), NEW T, T = Displaced(TimerOff(S, Common))
  PROVE  /\ Inside(T, t) /\ T.a[t] = S.a[t] /\ T.trk[t] = S.trk[t]
         /\ T.mod[Common].usedby = NoTrack /\ T.mod[Common].tmr = "off"
         /\ T.mod[Common].out = S.mod[Common].out /\ T.mod[Common].fmt = S.mod[Common].fmt
         /\ T.mod[Common].heard = S.mod[Common].heard
  <1> DEFINE S1 == TimerOff(S, Common)
             S2 == Unused(S1, Common)
             user == S.mod[Common].usedby
  <1>1. S \in StateType /\ Common \in Buffers /\ user \in Users /\ S.mod[Common] \in ModType
    BY DEF Inside, StateOK, Buffers, StateType, ModType
  <1>2. OnlyBuffer(S, S1, Common) /\ S1.mod[Common] = [S.mod[Common] EXCEPT !.tmr = "off", !.who = NoTrack]
    BY <1>1, TimerOffIs
  <1> HIDE DEF S1
  <1>3. OnlyBuffer(S1, S2, Common) /\ S2.mod[Common] = [S1.mod[Common] EXCEPT !.usedby = NoTrack]
    BY <1>1, <1>2, UnusedIs DEF OnlyBuffer
  <1> HIDE DEF S2
  <1>4. S1.mod[Common].usedby = user
    BY <1>1, <1>2 DEF ModType
  <1>5. /\ OnlyBuffer(S, S2, Common)
        /\ S2.mod[Common].usedby = NoTrack /\ S2.mod[Common].tmr = "off"
        /\ S2.mod[Common].out = S.mod[Common].out /\ S2.mod[Common].fmt = S.mod[Common].fmt
        /\ S2.mod[Common].heard = S.mod[Common].heard
    BY <1>1, <1>2, <1>3 DEF OnlyBuffer, ModType
  <1>6. Owned(S2, Common) /\ Holds(S2, Common)
    <2>1. Holds(S, Common) /\ Common \notin Tracks
      BY <1>1, Assumed DEF Inside, StateOK, Common
    <2> QED BY <1>5, <2>1 DEF Owned, Holds
  <1>7. Inside(S2, t)
    BY <1>1, <1>5, <1>6, BufferStep
  <1>8. CASE user = NoTrack
    <2>1. T = S1 /\ S2 = S1
      <3>1. T = S1
        BY <1>4, <1>8 DEF Displaced, S1
      <3>2. S2.mod[Common] = S1.mod[Common]
        <4>1. S1.mod[Common] \in ModType /\ S1.mod[Common].usedby = NoTrack
          BY <1>1, <1>2, <1>4, <1>8 DEF OnlyBuffer, StateType
        <4>2. [S1.mod[Common] EXCEPT !.usedby = NoTrack] = S1.mod[Common]
          BY <4>1 DEF ModType
        <4> QED BY <1>3, <4>2
      <3>3. S2.mod = S1.mod
        BY <3>2, <1>2, <1>3 DEF OnlyBuffer, StateType
      <3>4. S2 = S1
        BY <3>3, <1>2, <1>3 DEF OnlyBuffer, StateType
      <3> QED BY <3>1, <3>4
    <2> QED BY <1>5, <1>7, <2>1 DEF OnlyBuffer
  <1>9. CASE user # NoTrack
    <2>1. T = OnPlay(S2, user) /\ user \in Tracks
      BY <1>1, <1>4, <1>9 DEF Displaced, S1, S2, Users
    <2>2. /\ OnlyTrack(S2, T, user) /\ T.a[user] = [S2.a[user] EXCEPT !.async = FALSE]
          /\ T.trk[user] = IF S2.a[user].async THEN [S2.trk[user] EXCEPT !.go = TRUE] ELSE S2.trk[user]
      BY <2>1, <1>5, OnPlayIs DEF OnlyBuffer
    <2>3. S2.a[user] \in OutType /\ S2.trk[user] \in TrkType
      BY <2>1, <1>5 DEF OnlyBuffer, StateType
    <2>4. T.a[user].open = S2.a[user].open /\ T.a[user].stream = S2.a[user].stream /\ ~T.a[user].async
      BY <2>2, <2>3 DEF OutType
    <2>5. user = t => T.a[t] = S2.a[t] /\ T.trk[t] = S2.trk[t]
      <3> SUFFICES ASSUME user = t PROVE T.a[t] = S2.a[t] /\ T.trk[t] = S2.trk[t]
        OBVIOUS
      <3>1. S2.a[t].async = FALSE /\ S2.a[t] \in OutType
        BY <1>7, <2>3 DEF Inside, OutType
      <3>2. [S2.a[t] EXCEPT !.async = FALSE] = S2.a[t]
        BY <3>1 DEF OutType
      <3> QED BY <2>2, <3>1, <3>2
    <2>6. user # t => Waiting(T, user)
      <3>1. user # t => Waiting(S2, user)
        BY <1>7, <2>1 DEF Inside
      <3>2. CASE S2.a[user].async
        BY <2>2, <2>3, <2>4, <3>1, <3>2 DEF Waiting, TrkType
      <3>3. CASE ~S2.a[user].async
        BY <2>2, <2>4, <3>1, <3>3 DEF Waiting
      <3> QED BY <3>2, <3>3
    <2>7. StateOK(T) /\ \A u \in Tracks \ {user} : Waiting(S2, u) => Waiting(T, u)
      BY <1>7, <2>1, <2>2, <2>4, TrackStep DEF Inside
    <2>8. T.mod = S2.mod /\ T.a[t] = S2.a[t] /\ T.trk[t] = S2.trk[t]
      BY <2>2, <2>5 DEF OnlyTrack
    <2>9. Inside(T, t)
      BY <1>7, <2>6, <2>7, <2>8 DEF Inside
    <2> QED BY <1>5, <2>8, <2>9 DEF OnlyBuffer
  <1> QED BY <1>8, <1>9

-----------------------------------------------------------------------------
(* A new buffer is one that no filter has: there are more numbers than filters. *)
LEMMA NewStreamIs ==
  ASSUME NEW S \in StateType
  PROVE  NewStream(S) \in Streams /\ NewStream(S) # 0
  <1> DEFINE N == Cardinality(Tracks)
             R == {S.a[t].stream : t \in Tracks}
             f == [t \in Tracks |-> S.a[t].stream]
  <1>1. IsFiniteSet(Tracks) /\ N \in Nat
    BY Assumed, FS_CardinalityType
  <1>2. f \in Surjection(Tracks, R)
    BY DEF Surjection
  <1>3. IsFiniteSet(R) /\ Cardinality(R) <= N
    BY <1>1, <1>2, FS_Surjection
  <1>4. IsFiniteSet(1 .. N + 1) /\ Cardinality(1 .. N + 1) = N + 1
    <2> DEFINE k == N + 1
    <2>1. k \in Nat
      BY <1>1
    <2> HIDE DEF k
    <2>2. IsFiniteSet(1 .. k) /\ Cardinality(1 .. k) = k
      BY <2>1, FS_Interval
    <2> QED BY <2>2 DEF k
  <1>5. ~(Streams \subseteq R)
    <2>1. Streams = 1 .. N + 1
      BY DEF Streams
    <2> HIDE DEF N, R, f
    <2>2. ASSUME Streams \subseteq R PROVE FALSE
      <3>1. Cardinality(Streams) <= Cardinality(R)
        BY <1>3, <2>2, FS_Subset
      <3>2. Cardinality(R) \in Nat
        BY <1>3, FS_CardinalityType
      <3> QED BY <1>1, <1>3, <1>4, <2>1, <3>1, <3>2
    <2> QED BY <2>2
  <1>6. \E n \in Streams : \A t \in Tracks : S.a[t].stream # n
    BY <1>5
  <1>7. NewStream(S) \in Streams
    BY <1>6 DEF NewStream
  <1> QED BY <1>1, <1>7 DEF Streams

(* The track takes the buffer, with what is in it. *)
LEMMA UsedIs ==
  ASSUME NEW S, NEW t \in Tracks, NEW b, b = Buf(t), NEW T, T = Used(S, b, t),
         S \in StateType, \A u \in Tracks \ {t} : Waiting(S, u),
         \A c \in Buffers \ {b} : Owned(S, c) /\ Holds(S, c),
         S.a[t].open, ~S.a[t].async, ~S.trk[t].go, S.trk[t].st = "active",
         S.mod[b].out # 0, AllOf(S.mod[b].heard, t)
  PROVE  /\ Inside(T, t) /\ T.mod[b].usedby = t
  <1> DEFINE m == [S.mod[b] EXCEPT !.usedby = t, !.tmr = "wake", !.who = t]
             o == [S.a[t] EXCEPT !.stream = S.mod[b].out, !.state = "DATA"]
  <1>1. b \in Buffers /\ S.mod[b] \in ModType /\ S.a[t] \in OutType
    BY DEF Buf, Buffers, StateType
  <1>2. m \in ModType /\ o \in OutType
    BY <1>1 DEF ModType, OutType, Users
  <1>3. T.mod = [S.mod EXCEPT ![b] = m]
    BY <1>1 DEF Used, StateType, ModType
  <1>4. T.a = [S.a EXCEPT ![t] = o]
    BY <1>1 DEF Used, StateType, OutType
  <1>5. T = [mod |-> T.mod, a |-> T.a, trk |-> S.trk]
    BY DEF Used, StateType
  <1>6. m.usedby = t /\ m.tmr = "wake" /\ m.who = t /\ m.out = S.mod[b].out /\ m.heard = S.mod[b].heard
    BY <1>1 DEF ModType
  <1>7. o.open = S.a[t].open /\ o.async = S.a[t].async /\ o.stream = S.mod[b].out
    BY <1>1 DEF OutType
  <1> HIDE DEF m, o
  <1>8. /\ T \in StateType /\ T.trk = S.trk /\ T.mod[b] = m /\ T.a[t] = o
        /\ \A c \in Buffers : c # b => T.mod[c] = S.mod[c]
        /\ \A u \in Tracks : u # t => T.a[u] = S.a[u]
    BY <1>1, <1>2, <1>3, <1>4, <1>5 DEF StateType
  <1>9. Owned(T, b) /\ Holds(T, b)
    <2>1. b \in Tracks => b = t
      BY Assumed DEF Buf, Common
    <2>2. t # NoTrack
      BY Assumed
    <2> QED BY <1>6, <1>7, <1>8, <2>1, <2>2 DEF Owned, Holds
  <1>10. ASSUME NEW c \in Buffers, c # b PROVE Owned(T, c) /\ Holds(T, c)
    <2>1. T.mod[c] = S.mod[c] /\ Owned(S, c) /\ Holds(S, c)
      BY <1>8, <1>10
    <2>2. S.mod[c].usedby # NoTrack => S.mod[c].usedby \in Tracks \ {t}
      BY <1>10, <2>1 DEF Owned, StateType, ModType, Users
    <2> QED BY <1>8, <2>1, <2>2 DEF Owned, Holds
  <1>11. \A u \in Tracks \ {t} : Waiting(T, u)
    BY <1>8 DEF Waiting
  <1> QED BY <1>6, <1>7, <1>8, <1>9, <1>10, <1>11 DEF Inside, StateOK

(* What a step of the filter that is still inside its track has come to. *)
Goes(w, t) == Inside(w.s, t) /\ w.r \in {"ok", "more", "err"} /\ (w.r = "ok" => w.s.mod[Buf(t)].usedby = t)

(* A change that the invariant does not see. *)
LEMMA InsideStep ==
  ASSUME NEW S, NEW T, NEW t \in Tracks, Inside(S, t), OnlyTrack(S, T, t),
         T.a[t].open = S.a[t].open, T.a[t].async = S.a[t].async, T.a[t].stream = S.a[t].stream,
         T.trk[t].go = S.trk[t].go, T.trk[t].st = S.trk[t].st
  PROVE  Inside(T, t)
  <1>1. StateOK(T) /\ \A u \in Tracks \ {t} : Waiting(S, u) => Waiting(T, u)
    BY TrackStep DEF Inside
  <1> QED BY <1>1 DEF Inside

LEMMA ConvertsIs ==
  ASSUME NEW S, NEW t \in Tracks, Inside(S, t), NEW w, w = Converts(S, t)
  PROVE  Goes(w, t)
  <1> DEFINE o == [S.a[t] EXCEPT !.fmt = Native, !.state = "OPEN"]
             T == [S EXCEPT !.a[t] = o]
  <1>1. S \in StateType /\ S.a[t] \in OutType
    BY DEF Inside, StateOK, StateType
  <1>2. o \in OutType /\ o.open = S.a[t].open /\ o.async = S.a[t].async /\ o.stream = S.a[t].stream
    BY <1>1 DEF OutType, Formats
  <1>3. w.s = T /\ w.r = "more"
    BY <1>1 DEF Converts, Ret, StateType
  <1> HIDE DEF o
  <1>4. OnlyTrack(S, T, t) /\ T.a[t] = o /\ T.trk = S.trk
    BY <1>1, <1>2, FilterSet
  <1> HIDE DEF T
  <1>5. Inside(T, t)
    BY <1>2, <1>4, InsideStep
  <1> QED BY <1>3, <1>5 DEF Goes

LEMMA LearntIs ==
  ASSUME NEW S, NEW t \in Tracks, Inside(S, t), NEW b \in Buffers, NEW fmt \in Formats,
         NEW T, T = Learnt(S, b, fmt)
  PROVE  Inside(T, t)
  <1> DEFINE m == [S.mod[b] EXCEPT !.bad = @ \cup {fmt}]
             S1 == [S EXCEPT !.mod[b] = m]
  <1>1. S \in StateType /\ S.mod[b] \in ModType
    BY DEF Inside, StateOK, StateType
  <1>2. m \in ModType /\ m.usedby = S.mod[b].usedby /\ m.out = S.mod[b].out /\ m.tmr = S.mod[b].tmr
        /\ m.who = S.mod[b].who /\ m.heard = S.mod[b].heard
    BY <1>1 DEF ModType
  <1>3. T = S \/ T = S1
    BY DEF Learnt
  <1> HIDE DEF m
  <1>4. OnlyBuffer(S, S1, b) /\ S1.mod[b] = m
    BY <1>1, <1>2, BufferSet
  <1> HIDE DEF S1
  <1>5. Owned(S1, b) /\ Holds(S1, b)
    <2>1. Owned(S, b) /\ Holds(S, b)
      BY DEF Inside, StateOK
    <2> QED BY <1>2, <1>4, <2>1 DEF Owned, Holds, OnlyBuffer
  <1>6. Inside(S1, t)
    BY <1>4, <1>5, BufferStep
  <1> QED BY <1>3, <1>6

(* FMED_FSTOP *)
LEMMA StopsIs ==
  ASSUME NEW S, NEW t \in Tracks, Inside(S, t), NEW T, T = [S EXCEPT !.trk[t].stop = TRUE]
  PROVE  Inside(T, t) /\ T.mod = S.mod /\ T.a = S.a
  <1> DEFINE k == [S.trk[t] EXCEPT !.stop = TRUE]
             S1 == [S EXCEPT !.trk[t] = k]
  <1>1. S \in StateType /\ S.trk[t] \in TrkType
    BY DEF Inside, StateOK, StateType
  <1>2. k \in TrkType /\ k.go = S.trk[t].go /\ k.st = S.trk[t].st
    BY <1>1 DEF TrkType
  <1>3. T = S1
    OBVIOUS
  <1> HIDE DEF k
  <1>4. OnlyTrack(S, S1, t) /\ S1.trk[t] = k /\ S1.a = S.a
    BY <1>1, <1>2, TrackSet
  <1> HIDE DEF S1
  <1>5. S1.mod = S.mod /\ S1.a[t] = S.a[t]
    BY <1>4 DEF OnlyTrack
  <1>6. Inside(S1, t)
    BY <1>2, <1>4, <1>5, InsideStep
  <1> QED BY <1>3, <1>4, <1>5, <1>6

-----------------------------------------------------------------------------
(* Opening, taking over and creating a buffer. *)

(* A buffer that is nobody else's, and holds nothing of others. *)
Clean(S, t) == AllOf(S.mod[Buf(t)].heard, t)

LEMMA OpenIs ==
  ASSUME NEW S, NEW t \in Tracks, Inside(S, t), Clean(S, t), NEW w \in Open(S, t)
  PROVE  Goes(w, t)
  <1> DEFINE b == Buf(t)
             S1 == [S EXCEPT !.mod[b].out = NewStream(S), !.mod[b].fmt = S.a[t].fmt]
             m == [S.mod[b] EXCEPT !.out = NewStream(S), !.fmt = S.a[t].fmt]
             S2 == [S EXCEPT !.trk[t].stop = TRUE]
  <1>1. S \in StateType /\ b \in Buffers /\ S.mod[b] \in ModType /\ S.a[t].fmt \in Formats
    BY DEF Inside, StateOK, StateType, OutType, Buf, Buffers
  <1>2. CASE w = Converts(Learnt(S, b, S.a[t].fmt), t)
    BY <1>1, <1>2, LearntIs, ConvertsIs
  <1>3. CASE w = Ret(Opened(S, b, t), "ok")
    <2>1. m \in ModType /\ m.out = NewStream(S) /\ m.heard = S.mod[b].heard /\ m.out # 0
      BY <1>1, NewStreamIs DEF ModType
    <2>2. S1 = [S EXCEPT !.mod[b] = m]
      BY <1>1 DEF StateType
    <2>3. Opened(S, b, t) = Used(S1, b, t)
      BY DEF Opened
    <2> HIDE DEF m, S1
    <2>4. OnlyBuffer(S, S1, b) /\ S1.mod[b] = m
      BY <1>1, <2>1, <2>2, BufferSet
    <2>5. \A c \in Buffers \ {b} : Owned(S1, c) /\ Holds(S1, c)
      BY <2>4 DEF OnlyBuffer, Owned, Holds, Inside, StateOK
    <2>6. \A u \in Tracks \ {t} : Waiting(S1, u)
      BY <2>4 DEF OnlyBuffer, Waiting, Inside
    <2>7. S1.a[t].open /\ ~S1.a[t].async /\ ~S1.trk[t].go /\ S1.trk[t].st = "active" /\ S1 \in StateType
      BY <2>4 DEF OnlyBuffer, Inside
    <2>8. S1.mod[b].out # 0 /\ AllOf(S1.mod[b].heard, t)
      BY <2>1, <2>4 DEF Clean
    <2> DEFINE T == Used(S1, b, t)
    <2>9. Inside(T, t) /\ T.mod[b].usedby = t
      BY <2>5, <2>6, <2>7, <2>8, UsedIs
    <2> QED BY <1>3, <2>3, <2>9 DEF Goes, Ret
  <1>4. CASE w = Ret(S, "err")
    BY <1>4 DEF Goes, Ret
  <1>5. CASE w = Ret(S2, "err")
    <2>1. Inside(S2, t)
      BY StopsIs
    <2> QED BY <1>5, <2>1 DEF Goes, Ret
  <1> QED BY <1>2, <1>3, <1>4, <1>5 DEF Open

LEMMA ReusedIs ==
  ASSUME NEW S, NEW t \in Tracks, Inside(S, t), sys \in OneBuffer, S.mod[Common].out # 0,
         NEW w, w = Reused(S, t)
  PROVE  Goes(w, t)
  <1> DEFINE S1 == Stopped(S, Common)
             S2 == Cleared(S1, Common)
  <1>1. S \in StateType /\ Common \in Buffers /\ S.mod[Common] \in ModType
    BY DEF Inside, StateOK, StateType, Buffers
  <1>2. OnlyBuffer(S, S1, Common) /\ S1.mod[Common] = [S.mod[Common] EXCEPT !.on = FALSE]
    BY <1>1, StoppedIs
  <1>3. w = Ret(Used(S2, Common, t), "ok")
    BY DEF Reused
  <1> HIDE DEF S1
  <1>4. OnlyBuffer(S1, S2, Common) /\ S2.mod[Common] = [S1.mod[Common] EXCEPT !.heard = <<>>]
    BY <1>1, <1>2, ClearedIs DEF OnlyBuffer
  <1> HIDE DEF S2
  <1>5. /\ OnlyBuffer(S, S2, Common) /\ S2.mod[Common].heard = <<>>
        /\ S2.mod[Common].out = S.mod[Common].out
    BY <1>1, <1>2, <1>4 DEF OnlyBuffer, ModType
  <1>6. \A c \in Buffers \ {Common} : Owned(S2, c) /\ Holds(S2, c)
    BY <1>5 DEF OnlyBuffer, Owned, Holds, Inside, StateOK
  <1>7. \A u \in Tracks \ {t} : Waiting(S2, u)
    BY <1>5 DEF OnlyBuffer, Waiting, Inside
  <1>8. S2.a[t].open /\ ~S2.a[t].async /\ ~S2.trk[t].go /\ S2.trk[t].st = "active" /\ S2 \in StateType
    BY <1>5 DEF OnlyBuffer, Inside
  <1>9. S2.mod[Common].out # 0 /\ AllOf(S2.mod[Common].heard, t)
    BY <1>5 DEF AllOf
  <1>10. Buf(t) = Common
    BY DEF Buf
  <1> DEFINE T == Used(S2, Common, t)
  <1>11. Inside(T, t) /\ T.mod[Common].usedby = t
    BY <1>6, <1>7, <1>8, <1>9, <1>10, UsedIs
  <1> QED BY <1>3, <1>10, <1>11 DEF Goes, Ret

LEMMA BufClosedInside ==
  ASSUME NEW S, NEW t \in Tracks, Inside(S, t), S.mod[Common].usedby = NoTrack, S.mod[Common].tmr = "off",
         NEW T, T = BufClosed(S, Common)
  PROVE  Inside(T, t) /\ T.mod[Common].out = 0 /\ T.mod[Common].heard = <<>>
  <1>1. S \in StateType /\ Common \in Buffers /\ S.mod[Common] \in ModType
    BY DEF Inside, StateOK, StateType, Buffers
  <1>2. OnlyBuffer(S, T, Common) /\ T.mod[Common] = [S.mod[Common] EXCEPT !.on = FALSE, !.heard = <<>>, !.out = 0]
    BY <1>1, BufClosedIs
  <1>3. T.mod[Common].out = 0 /\ T.mod[Common].heard = <<>> /\ T.mod[Common].usedby = NoTrack
        /\ T.mod[Common].tmr = "off"
    BY <1>1, <1>2 DEF ModType
  <1>4. Owned(T, Common) /\ Holds(T, Common)
    BY <1>3, Assumed DEF Owned, Holds, Common
  <1> QED BY <1>1, <1>2, <1>3, <1>4, BufferStep

LEMMA CreateIs ==
  ASSUME NEW S, NEW t \in Tracks, Inside(S, t), sys \in OneBuffer, NEW w \in Create(S, t)
  PROVE  Goes(w, t)
  <1> DEFINE S1 == IF S.mod[Common].out = 0 THEN S ELSE Displaced(TimerOff(S, Common))
  <1>1. Inside(S1, t) /\ Buf(t) = Common /\ Common \in Buffers
    BY DisplacedIs DEF Buf, Buffers
  <1>2. w \in (IF S1.mod[Common].out = 0 THEN Open(S1, t)
               ELSE IF S1.mod[Common].fmt = S1.a[t].fmt THEN {Reused(S1, t)}
               ELSE Open(BufClosed(S1, Common), t))
    BY DEF Create
  <1>3. CASE S1.mod[Common].out = 0 /\ w \in Open(S1, t)
    <2>1. S1.mod[Common].heard = <<>>
      BY <1>1, <1>3 DEF Inside, StateOK, Holds
    <2>2. Clean(S1, t)
      BY <1>1, <2>1 DEF Clean, AllOf
    <2> HIDE DEF S1
    <2> QED BY <1>1, <1>3, <2>2, OpenIs
  <1>4. CASE S1.mod[Common].out # 0 /\ w = Reused(S1, t)
    <2> HIDE DEF S1
    <2> QED BY <1>1, <1>4, ReusedIs
  <1>5. CASE S1.mod[Common].out # 0 /\ w \in Open(BufClosed(S1, Common), t)
    <2>1. S1.mod[Common].usedby = NoTrack /\ S1.mod[Common].tmr = "off"
      BY <1>5, DisplacedIs
    <2> HIDE DEF S1
    <2> DEFINE S2 == BufClosed(S1, Common)
    <2>2. Inside(S2, t) /\ S2.mod[Common].heard = <<>>
      BY <1>1, <2>1, BufClosedInside
    <2>3. Clean(S2, t)
      BY <1>1, <2>2 DEF Clean, AllOf
    <2> HIDE DEF S2
    <2>4. w \in Open(S2, t)
      BY <1>5 DEF S2
    <2> QED BY <2>2, <2>3, <2>4, OpenIs
  <1> QED BY <1>2, <1>3, <1>4, <1>5

LEMMA CreateKnowingIs ==
  ASSUME NEW S, NEW t \in Tracks, Inside(S, t), sys \in OneBuffer, NEW w \in CreateKnowing(S, t)
  PROVE  Goes(w, t)
  <1>1. CASE w = Converts(Displaced(TimerOff(S, Common)), t)
    BY <1>1, DisplacedIs, ConvertsIs
  <1> QED BY <1>1, CreateIs DEF CreateKnowing

-----------------------------------------------------------------------------
(* Writing to the buffer. *)

(* The buffer is the track's, by its user or because each track has one. *)
Mine(S, t) == S.mod[Buf(t)].usedby = t \/ Buf(t) = t

LEMMA ChainKeeps ==
  ASSUME NEW S, NEW t \in Tracks, Inside(S, t), NEW k \in TrkType, k.go = S.trk[t].go, k.st = S.trk[t].st,
         NEW T, T = [S EXCEPT !.trk[t] = k]
  PROVE  Inside(T, t) /\ T.mod = S.mod /\ T.a = S.a /\ T.trk[t] = k
  <1>1. S \in StateType
    BY DEF Inside, StateOK
  <1>2. OnlyTrack(S, T, t) /\ T.trk[t] = k /\ T.a = S.a
    BY <1>1, TrackSet
  <1>3. T.mod = S.mod /\ T.a[t] = S.a[t]
    BY <1>2 DEF OnlyTrack
  <1>4. Inside(T, t)
    BY <1>2, <1>3, InsideStep
  <1> QED BY <1>2, <1>3, <1>4

LEMMA FilterKeeps ==
  ASSUME NEW S, NEW t \in Tracks, Inside(S, t), NEW o \in OutType,
         o.open = S.a[t].open, o.async = S.a[t].async, o.stream = S.a[t].stream,
         NEW T, T = [S EXCEPT !.a[t] = o]
  PROVE  Inside(T, t) /\ T.mod = S.mod /\ T.trk = S.trk /\ T.a[t] = o
  <1>1. S \in StateType
    BY DEF Inside, StateOK
  <1>2. OnlyTrack(S, T, t) /\ T.a[t] = o /\ T.trk = S.trk
    BY <1>1, FilterSet
  <1>3. T.mod = S.mod /\ T.trk[t] = S.trk[t]
    BY <1>2 DEF OnlyTrack
  <1>4. Inside(T, t)
    BY <1>2, <1>3, InsideStep
  <1> QED BY <1>2, <1>3, <1>4

(* What the buffer holds changes, and whether it plays. *)
LEMMA BufferKeeps ==
  ASSUME NEW S, NEW t \in Tracks, Inside(S, t), NEW m \in ModType, NEW b \in Buffers,
         m.out = S.mod[b].out, m.usedby = S.mod[b].usedby, m.tmr = S.mod[b].tmr, m.who = S.mod[b].who,
         \/ m.heard = S.mod[b].heard \/ m.heard = <<>>
         \/ AllOf(m.heard, t) /\ b = Buf(t) /\ Mine(S, t),
         NEW T, T = [S EXCEPT !.mod[b] = m]
  PROVE  Inside(T, t) /\ OnlyBuffer(S, T, b) /\ T.mod[b] = m
  <1>1. S \in StateType /\ Owned(S, b) /\ Holds(S, b)
    BY DEF Inside, StateOK
  <1>2. OnlyBuffer(S, T, b) /\ T.mod[b] = m
    BY <1>1, BufferSet
  <1>3. Owned(T, b)
    BY <1>1, <1>2 DEF Owned, OnlyBuffer
  <1>4. Holds(T, b)
    <2>1. CASE m.heard = S.mod[b].heard
      BY <1>1, <1>2, <2>1 DEF Holds
    <2>2. CASE m.heard = <<>>
      BY <1>1, <1>2, <2>2 DEF Holds, AllOf
    <2>3. CASE AllOf(m.heard, t) /\ b = Buf(t) /\ Mine(S, t)
      <3>1. CASE sys \in OneBuffer
        <4>1. b = Common /\ S.mod[b].usedby = t /\ b \notin Tracks
          BY <2>3, <3>1, Assumed DEF Buf, Mine, Common
        <4>2. m.out # 0 /\ m.usedby = t
          BY <1>1, <4>1, Assumed DEF Owned
        <4> QED BY <1>2, <2>3, <4>1, <4>2 DEF Holds
      <3>2. CASE sys \notin OneBuffer
        <4>1. b = t /\ b # Common
          BY <2>3, <3>2, Assumed DEF Buf, Common
        <4>2. m.usedby # NoTrack => m.usedby = t
          <5>1. m.usedby # NoTrack => b = Buf(m.usedby)
            BY <1>1 DEF Owned
          <5> QED BY <3>2, <4>1, <5>1 DEF Buf
        <4> QED BY <1>2, <2>3, <4>1, <4>2 DEF Holds
      <3> QED BY <3>1, <3>2
    <2> QED BY <2>1, <2>2, <2>3
  <1>5. Inside(T, t)
    BY <1>2, <1>3, <1>4, BufferStep
  <1> QED BY <1>2, <1>5

(* A step of the filter may end its call, with a track that waits or is paused. *)
Ends(w, t) ==
    /\ w.r = "async" => Inv(w.s)
    /\ w.r # "async" => Inside(w.s, t)

LEMMA WaitsIs ==
  ASSUME NEW S, NEW t \in Tracks, Inside(S, t), NEW w, w = Waits(S, t)
  PROVE  Ends(w, t) /\ w.r = "async"
  <1> DEFINE o == [S.a[t] EXCEPT !.async = TRUE]
             T == [S EXCEPT !.a[t] = o]
  <1>1. S \in StateType /\ S.a[t] \in OutType
    BY DEF Inside, StateOK, StateType
  <1>2. o \in OutType /\ o.open = S.a[t].open /\ o.stream = S.a[t].stream
    BY <1>1 DEF OutType
  <1>3. w.s = T /\ w.r = "async"
    BY DEF Waits, Ret
  <1> HIDE DEF o
  <1>4. OnlyTrack(S, T, t) /\ T.a[t] = o /\ T.trk = S.trk
    BY <1>1, <1>2, FilterSet
  <1> HIDE DEF T
  <1>5. StateOK(T) /\ \A u \in Tracks \ {t} : Waiting(T, u)
    BY <1>2, <1>4, TrackStep DEF Inside
  <1>6. Waiting(T, t)
    BY <1>4 DEF Waiting, Inside
  <1> QED BY <1>3, <1>5, <1>6 DEF Ends, Inv

LEMMA WrittenIs ==
  ASSUME NEW S, NEW t \in Tracks, Inside(S, t), Mine(S, t), NEW b, b = Buf(t), NEW w, w = Written(S, b, t)
  PROVE  Ends(w, t) /\ w.r \in {"more", "done", "async"}
  <1>1. S \in StateType /\ b \in Buffers /\ S.mod[b] \in ModType /\ S.trk[t] \in TrkType
    BY DEF Inside, StateOK, StateType, Buf, Buffers
  <1>2. CASE S.trk[t].left > 0 /\ Len(S.mod[b].heard) < Cap
    <2> DEFINE heard == Append(S.mod[b].heard, t)
               m == [S.mod[b] EXCEPT !.heard = heard, !.on = TRUE]
               k == [S.trk[t] EXCEPT !.left = @ - 1]
               S1 == [S EXCEPT !.mod[b] = m]
               S2 == [S1 EXCEPT !.trk[t] = k]
    <2>1. S.mod[b].heard \in Seq(Tracks) /\ Len(S.mod[b].heard) \in Nat /\ AllOf(S.mod[b].heard, t)
      <3>1. S.mod[b].heard \in Seq(Tracks)
        BY <1>1 DEF ModType, Heards
      <3>2. Holds(S, b) /\ Owned(S, b)
        BY <1>1 DEF Inside, StateOK
      <3>3. t # NoTrack
        BY Assumed
      <3> QED BY <3>1, <3>2, <3>3 DEF Mine, Holds
    <2>2. heard \in Seq(Tracks) /\ Len(heard) = Len(S.mod[b].heard) + 1 /\ AllOf(heard, t)
      BY <2>1, AppendProperties DEF AllOf
    <2> HIDE DEF heard
    <2>3. heard \in Heards
      BY <1>2, <2>1, <2>2, Assumed DEF Heards
    <2>4. /\ m \in ModType /\ m.heard = heard /\ m.out = S.mod[b].out /\ m.usedby = S.mod[b].usedby
          /\ m.tmr = S.mod[b].tmr /\ m.who = S.mod[b].who
      BY <1>1, <2>3 DEF ModType
    <2>5. k \in TrkType /\ k.go = S.trk[t].go /\ k.st = S.trk[t].st
      BY <1>1, <1>2, Assumed DEF TrkType
    <2>6. w.r = "more" /\ w.s = S2
      BY <1>1, <1>2 DEF Written, Ret, StateType, heard
    <2> HIDE DEF m, k
    <2>7. Inside(S1, t) /\ OnlyBuffer(S, S1, b)
      BY <1>1, <2>2, <2>4, BufferKeeps
    <2> HIDE DEF S1
    <2>8. Inside(S2, t)
      BY <2>5, <2>7, ChainKeeps DEF OnlyBuffer
    <2> QED BY <2>6, <2>8 DEF Ends
  <1>3. CASE w = Ret(S, "done")
    BY <1>3 DEF Ret, Ends
  <1>4. CASE w = Waits([S EXCEPT !.mod[b].on = TRUE], t)
    <2> DEFINE m == [S.mod[b] EXCEPT !.on = TRUE]
               S1 == [S EXCEPT !.mod[b] = m]
    <2>1. /\ m \in ModType /\ m.heard = S.mod[b].heard /\ m.out = S.mod[b].out /\ m.usedby = S.mod[b].usedby
          /\ m.tmr = S.mod[b].tmr /\ m.who = S.mod[b].who
      BY <1>1 DEF ModType
    <2>2. w = Waits(S1, t)
      BY <1>4
    <2> HIDE DEF m
    <2>3. Inside(S1, t)
      BY <1>1, <2>1, BufferKeeps
    <2> HIDE DEF S1
    <2> QED BY <2>2, <2>3, WaitsIs
  <1> QED BY <1>2, <1>3, <1>4 DEF Written

LEMMA FailuresIs ==
  ASSUME NEW S, NEW t \in Tracks, Inside(S, t), NEW T \in Failures(S, t)
  PROVE  Inside(T, t)
  <1>1. S \in StateType /\ S.a[t] \in OutType /\ S.trk[t] \in TrkType
    BY DEF Inside, StateOK, StateType
  <1> DEFINE o(x) == [S.a[t] EXCEPT !.offline = x]
             k == [S.trk[t] EXCEPT !.stop = TRUE]
             S1 == [S EXCEPT !.trk[t] = k]
  <1>2. k \in TrkType /\ k.go = S.trk[t].go /\ k.st = S.trk[t].st
    BY <1>1 DEF TrkType
  <1>3. \A x \in BOOLEAN : /\ o(x) \in OutType /\ o(x).open = S.a[t].open /\ o(x).async = S.a[t].async
                           /\ o(x).stream = S.a[t].stream
    BY <1>1 DEF OutType
  <1>4. T \in {S, [S EXCEPT !.a[t] = o(TRUE)], [S1 EXCEPT !.a[t] = o(FALSE)]}
    BY <1>1 DEF Failures, StateType
  <1> HIDE DEF o, k
  <1>5. Inside(S1, t) /\ S1.a = S.a
    BY <1>2, ChainKeeps
  <1> HIDE DEF S1
  <1>6. CASE T = [S EXCEPT !.a[t] = o(TRUE)]
    <2>1. o(TRUE) \in OutType /\ o(TRUE).open = S.a[t].open /\ o(TRUE).async = S.a[t].async
          /\ o(TRUE).stream = S.a[t].stream
      BY <1>3
    <2> QED BY <1>6, <2>1, FilterKeeps
  <1>7. CASE T = [S1 EXCEPT !.a[t] = o(FALSE)]
    <2>1. o(FALSE) \in OutType /\ o(FALSE).open = S1.a[t].open /\ o(FALSE).async = S1.a[t].async
          /\ o(FALSE).stream = S1.a[t].stream
      BY <1>3, <1>5
    <2> QED BY <1>5, <1>7, <2>1, FilterKeeps
  <1> QED BY <1>4, <1>6, <1>7

(* Clearing the buffer for a seek. *)
LEMMA ClearIs ==
  ASSUME NEW S, NEW t \in Tracks, Inside(S, t), Mine(S, t), NEW b, b = Buf(t),
         NEW T, T = [Cleared(Stopped(S, b), b) EXCEPT !.a[t].clear = FALSE]
  PROVE  Inside(T, t) /\ Mine(T, t)
  <1> DEFINE S1 == Stopped(S, b)
             S2 == Cleared(S1, b)
             o == [S.a[t] EXCEPT !.clear = FALSE]
  <1>1. S \in StateType /\ b \in Buffers /\ S.mod[b] \in ModType /\ S.a[t] \in OutType
    BY DEF Inside, StateOK, StateType, Buf, Buffers
  <1>2. OnlyBuffer(S, S1, b) /\ S1.mod[b] = [S.mod[b] EXCEPT !.on = FALSE]
    BY <1>1, StoppedIs
  <1> HIDE DEF S1
  <1>3. OnlyBuffer(S1, S2, b) /\ S2.mod[b] = [S1.mod[b] EXCEPT !.heard = <<>>]
    BY <1>1, <1>2, ClearedIs DEF OnlyBuffer
  <1>4. T = [S2 EXCEPT !.a[t] = [S2.a[t] EXCEPT !.clear = FALSE]]
    BY DEF S1
  <1> HIDE DEF S2
  <1>5. /\ OnlyBuffer(S, S2, b) /\ S2.mod[b].heard = <<>> /\ S2.mod[b].usedby = S.mod[b].usedby
        /\ S2.mod[b].out = S.mod[b].out /\ S2.mod[b].tmr = S.mod[b].tmr /\ S2.mod[b].who = S.mod[b].who
    BY <1>1, <1>2, <1>3 DEF OnlyBuffer, ModType
  <1>6. Owned(S2, b) /\ Holds(S2, b)
    <2>1. Owned(S, b)
      BY <1>1 DEF Inside, StateOK
    <2> QED BY <1>5, <2>1 DEF Owned, Holds, AllOf, OnlyBuffer
  <1>7. Inside(S2, t) /\ S2.a = S.a
    BY <1>1, <1>5, <1>6, BufferStep DEF OnlyBuffer
  <1>8. o \in OutType /\ o.open = S.a[t].open /\ o.async = S.a[t].async /\ o.stream = S.a[t].stream
    BY <1>1 DEF OutType
  <1>9. T = [S2 EXCEPT !.a[t] = o]
    BY <1>4, <1>7
  <1> HIDE DEF o
  <1>10. o \in OutType /\ o.open = S2.a[t].open /\ o.async = S2.a[t].async /\ o.stream = S2.a[t].stream
    BY <1>7, <1>8
  <1>11. Inside(T, t) /\ T.mod = S2.mod
    BY ONLY <1>7, <1>9, <1>10, FilterKeeps, t \in Tracks
  <1> QED BY <1>5, <1>11 DEF Mine

LEMMA OutputIs ==
  ASSUME NEW S0, NEW t \in Tracks, Inside(S0, t), Mine(S0, t), NEW w \in Output(S0, t)
  PROVE  Ends(w, t) /\ w.r \in {"more", "done", "async", "fail"}
  <1> DEFINE b == Buf(t)
             S == IF S0.a[t].clear THEN [Cleared(Stopped(S0, b), b) EXCEPT !.a[t].clear = FALSE] ELSE S0
  <1>1. Inside(S, t) /\ Mine(S, t)
    BY ClearIs
  <1>2. w \in (IF S0.a[t].clear /\ S.trk[t].seek
               THEN {Ret([S EXCEPT !.trk[t].seek = FALSE, !.trk[t].left = Blocks], "more")}
               ELSE IF S.trk[t].pause
               THEN {Ret([Stopped(S, b) EXCEPT !.trk[t].pause = FALSE, !.trk[t].st = "paused"], "async")}
               ELSE {Written(S, b, t)} \cup {Ret(F, "fail") : F \in Failures(S, t)})
    BY DEF Output
  <1> HIDE DEF S
  <1>3. S \in StateType /\ b \in Buffers /\ S.mod[b] \in ModType /\ S.a[t] \in OutType /\ S.trk[t] \in TrkType
    BY <1>1 DEF Inside, StateOK, StateType, Buf, Buffers
  <1>4. CASE w = Ret([S EXCEPT !.trk[t].seek = FALSE, !.trk[t].left = Blocks], "more")
    <2> DEFINE k == [S.trk[t] EXCEPT !.seek = FALSE, !.left = Blocks]
               T == [S EXCEPT !.trk[t] = k]
    <2>1. k \in TrkType /\ k.go = S.trk[t].go /\ k.st = S.trk[t].st
      <3>1. Blocks \in 0 .. Blocks
        BY Assumed
      <3>2. k.seek = FALSE /\ k.left = Blocks
        BY <1>3 DEF TrkType
      <3> QED BY <1>3, <3>1, <3>2 DEF TrkType
    <2>2. w = Ret(T, "more")
      BY <1>3, <1>4 DEF StateType
    <2> HIDE DEF k
    <2>3. Inside(T, t)
      BY <1>1, <2>1, ChainKeeps
    <2> QED BY <2>2, <2>3 DEF Ret, Ends
  <1>5. CASE w = Ret([Stopped(S, b) EXCEPT !.trk[t].pause = FALSE, !.trk[t].st = "paused"], "async")
    <2> DEFINE S1 == Stopped(S, b)
               k == [S.trk[t] EXCEPT !.pause = FALSE, !.st = "paused"]
               T == [S1 EXCEPT !.trk[t] = k]
    <2>1. OnlyBuffer(S, S1, b) /\ S1.mod[b] = [S.mod[b] EXCEPT !.on = FALSE]
      BY <1>3, StoppedIs
    <2>2. w = Ret(T, "async")
      <3>1. w = Ret([S1 EXCEPT !.trk[t].pause = FALSE, !.trk[t].st = "paused"], "async")
        BY <1>5
      <3> HIDE DEF S1
      <3>2. S1 \in StateType /\ S1.trk = S.trk
        BY <2>1 DEF OnlyBuffer
      <3>3. [S1 EXCEPT !.trk[t].pause = FALSE, !.trk[t].st = "paused"]
              = [S1 EXCEPT !.trk[t] = [S1.trk[t] EXCEPT !.pause = FALSE, !.st = "paused"]]
        BY <3>2 DEF StateType
      <3> QED BY ONLY <3>1, <3>2, <3>3
    <2> HIDE DEF S1
    <2>3. /\ S1.mod[b].heard = S.mod[b].heard /\ S1.mod[b].usedby = S.mod[b].usedby
          /\ S1.mod[b].out = S.mod[b].out /\ S1.mod[b].tmr = S.mod[b].tmr /\ S1.mod[b].who = S.mod[b].who
      BY <1>3, <2>1 DEF ModType
    <2>4. Owned(S1, b) /\ Holds(S1, b)
      <3>1. Owned(S, b) /\ Holds(S, b)
        BY <1>1, <1>3 DEF Inside, StateOK
      <3> QED BY <2>1, <2>3, <3>1 DEF Owned, Holds, OnlyBuffer
    <2>5. Inside(S1, t) /\ S1.a = S.a
      BY <1>1, <1>3, <2>1, <2>4, BufferStep DEF OnlyBuffer
    <2>6. k \in TrkType /\ k.go = S.trk[t].go /\ k.st = "paused"
      BY <1>3 DEF TrkType
    <2> HIDE DEF k
    <2>7. OnlyTrack(S1, T, t) /\ T.trk[t] = k /\ T.a = S1.a
      BY <2>1, <2>6, TrackSet DEF OnlyBuffer
    <2> HIDE DEF T
    <2>8. StateOK(T) /\ \A u \in Tracks \ {t} : Waiting(T, u)
      BY <2>5, <2>7, TrackStep DEF Inside
    <2>9. Waiting(T, t)
      BY <1>1, <2>5, <2>6, <2>7 DEF Waiting, Inside
    <2> QED BY <2>2, <2>8, <2>9 DEF Ret, Ends, Inv
  <1>6. CASE w = Written(S, b, t)
    BY <1>1, <1>6, WrittenIs
  <1>7. ASSUME NEW F \in Failures(S, t), w = Ret(F, "fail") PROVE Ends(w, t) /\ w.r = "fail"
    BY <1>1, <1>7, FailuresIs DEF Ret, Ends
  <1> QED BY <1>2, <1>4, <1>5, <1>6, <1>7

LEMMA FailedIs ==
  ASSUME NEW S, NEW t \in Tracks, Inside(S, t), NEW T, T = Failed(S)
  PROVE  Inside(T, t) /\ T.a = S.a
  <1> DEFINE S1 == BufClosed(S, Common)
             S2 == TimerOff(S1, Common)
  <1>1. S \in StateType /\ Common \in Buffers /\ S.mod[Common] \in ModType
    BY DEF Inside, StateOK, StateType, Buffers
  <1>2. OnlyBuffer(S, S1, Common) /\ S1.mod[Common] = [S.mod[Common] EXCEPT !.on = FALSE, !.heard = <<>>, !.out = 0]
    BY <1>1, BufClosedIs
  <1>3. T = Unused(S2, Common)
    BY DEF Failed
  <1> HIDE DEF S1
  <1>4. OnlyBuffer(S1, S2, Common) /\ S2.mod[Common] = [S1.mod[Common] EXCEPT !.tmr = "off", !.who = NoTrack]
    BY <1>1, <1>2, TimerOffIs DEF OnlyBuffer
  <1> HIDE DEF S2
  <1>5. OnlyBuffer(S2, T, Common) /\ T.mod[Common] = [S2.mod[Common] EXCEPT !.usedby = NoTrack]
    <2>1. S2 \in StateType
      BY <1>4 DEF OnlyBuffer
    <2> QED BY <1>1, <1>3, <2>1, UnusedIs
  <1>6. T.mod[Common].heard = <<>> /\ T.mod[Common].usedby = NoTrack /\ T.mod[Common].tmr = "off"
    BY <1>1, <1>2, <1>4, <1>5 DEF ModType, OnlyBuffer, StateType
  <1>7. OnlyBuffer(S, T, Common)
    BY <1>2, <1>4, <1>5 DEF OnlyBuffer
  <1>8. Owned(T, Common) /\ Holds(T, Common)
    BY <1>6 DEF Owned, Holds, AllOf
  <1> QED BY <1>1, <1>7, <1>8, BufferStep DEF OnlyBuffer

LEMMA FailedOwnIs ==
  ASSUME NEW S, NEW t \in Tracks, Inside(S, t), NEW T, T = FailedOwn(S, t)
  PROVE  Inside(T, t)
  <1> DEFINE S1 == Stopped(S, t)
             S2 == TimerOff(S1, t)
  <1>1. S \in StateType /\ t \in Buffers /\ S.mod[t] \in ModType
    BY DEF Inside, StateOK, StateType, Buffers
  <1>2. OnlyBuffer(S, S1, t) /\ S1.mod[t] = [S.mod[t] EXCEPT !.on = FALSE]
    BY <1>1, StoppedIs
  <1>3. T = Unused(S2, t)
    BY DEF FailedOwn
  <1> HIDE DEF S1
  <1>4. OnlyBuffer(S1, S2, t) /\ S2.mod[t] = [S1.mod[t] EXCEPT !.tmr = "off", !.who = NoTrack]
    BY <1>1, <1>2, TimerOffIs DEF OnlyBuffer
  <1> HIDE DEF S2
  <1>5. OnlyBuffer(S2, T, t) /\ T.mod[t] = [S2.mod[t] EXCEPT !.usedby = NoTrack]
    <2>1. S2 \in StateType
      BY <1>4 DEF OnlyBuffer
    <2> QED BY <1>1, <1>3, <2>1, UnusedIs
  <1>6. T.mod[t].heard = S.mod[t].heard /\ T.mod[t].usedby = NoTrack /\ T.mod[t].tmr = "off"
        /\ T.mod[t].out = S.mod[t].out
    BY <1>1, <1>2, <1>4, <1>5 DEF ModType, OnlyBuffer, StateType
  <1>7. OnlyBuffer(S, T, t)
    BY <1>2, <1>4, <1>5 DEF OnlyBuffer
  <1>8. Owned(T, t) /\ Holds(T, t)
    <2>1. Holds(S, t)
      BY <1>1 DEF Inside, StateOK
    <2> QED BY <1>6, <2>1 DEF Owned, Holds
  <1> QED BY <1>1, <1>7, <1>8, BufferStep

-----------------------------------------------------------------------------
(* The filters of the six systems. *)
Outcomes == {"more", "async", "done", "err", "fin"}

LEMMA IfInUseIs ==
  ASSUME NEW S, NEW t \in Tracks, Inside(S, t), sys \in OneBuffer, NEW w \in IfInUse(S, t)
  PROVE  Ends(w, t) /\ w.r \in Outcomes
  <1>1. CASE w = Ret([S EXCEPT !.trk[t].stop = TRUE], "fin")
    BY <1>1, StopsIs DEF Ret, Ends, Outcomes
  <1>2. CASE S.mod[Common].usedby = t
    <2>1. PICK x \in Output(S, t) : w = IF x.r = "fail" THEN Ret(Failed(x.s), "err") ELSE x
      BY <1>2 DEF IfInUse
    <2>2. Mine(S, t)
      BY <1>2 DEF Mine, Buf
    <2>3. Ends(x, t) /\ x.r \in {"more", "done", "async", "fail"}
      BY <2>2, OutputIs
    <2>4. CASE x.r = "fail"
      BY <2>1, <2>3, <2>4, FailedIs DEF Ret, Ends, Outcomes
    <2>5. CASE x.r # "fail"
      BY <2>1, <2>3, <2>5 DEF Outcomes
    <2> QED BY <2>4, <2>5
  <1> QED BY <1>1, <1>2 DEF IfInUse

LEMMA WriteOwnIs ==
  ASSUME NEW S, NEW t \in Tracks, Inside(S, t), sys \notin OneBuffer,
         NEW c \in Created(S, t, Open(S, t)), NEW w \in WriteOwn(c, t)
  PROVE  Ends(w, t) /\ w.r \in Outcomes
  <1>1. Inside(c.s, t) /\ c.r \in {"ok", "more", "err"}
    <2>1. Clean(S, t)
      <3>1. Holds(S, t)
        BY DEF Inside, StateOK, Buffers
      <3> QED BY <3>1 DEF Holds, Clean, Buf
    <2>2. c = Ret(S, "ok") \/ c \in Open(S, t)
      BY DEF Created
    <2> QED BY <2>1, <2>2, OpenIs DEF Goes, Ret
  <1>2. CASE c.r # "ok"
    BY <1>1, <1>2 DEF WriteOwn, Ends, Outcomes
  <1>3. CASE c.r = "ok"
    <2>1. PICK x \in Output(c.s, t) : w = IF x.r = "fail" THEN Ret(FailedOwn(x.s, t), "err") ELSE x
      BY <1>3 DEF WriteOwn
    <2>2. Mine(c.s, t)
      BY DEF Mine, Buf
    <2>3. Ends(x, t) /\ x.r \in {"more", "done", "async", "fail"}
      BY <1>1, <2>2, OutputIs
    <2>4. CASE x.r = "fail"
      BY <2>1, <2>3, <2>4, FailedOwnIs DEF Ret, Ends, Outcomes
    <2>5. CASE x.r # "fail"
      BY <2>1, <2>3, <2>5 DEF Outcomes
    <2> QED BY <2>4, <2>5
  <1> QED BY <1>2, <1>3

(* The filter's step, and what the chain has it return. *)
LEMMA CreatedIs ==
  ASSUME NEW S, NEW t \in Tracks, Inside(S, t), sys \in OneBuffer,
         NEW X, X = Create(S, t) \/ X = CreateKnowing(S, t), NEW c \in Created(S, t, X)
  PROVE  Inside(c.s, t) /\ c.r \in {"ok", "more", "err"}
  <1>1. c = Ret(S, "ok") \/ c \in X
    BY DEF Created
  <1> QED BY <1>1, CreateIs, CreateKnowingIs DEF Goes, Ret

LEMMA WasapiOnceIs ==
  ASSUME NEW S, NEW t \in Tracks, Inside(S, t), sys \in OneBuffer, NEW w \in WasapiOnce(S, t)
  PROVE  Ends(w, t) /\ w.r \in Outcomes \cup {"again"}
  <1>1. PICK c \in Created(S, t, CreateKnowing(S, t)) :
           w \in (IF c.r = "ok"
                  THEN {IF x.r = "err" /\ x.s.a[t].offline
                        THEN Ret([x.s EXCEPT !.a[t].state = "OPEN"], "again") ELSE x : x \in IfInUse(c.s, t)}
                  ELSE {c})
    BY DEF WasapiOnce, WasapiCreate
  <1>2. Inside(c.s, t) /\ c.r \in {"ok", "more", "err"}
    BY CreatedIs
  <1>3. CASE c.r # "ok"
    BY <1>1, <1>2, <1>3 DEF Ends, Outcomes
  <1>4. CASE c.r = "ok"
    <2>1. PICK x \in IfInUse(c.s, t) : w = IF x.r = "err" /\ x.s.a[t].offline
                                          THEN Ret([x.s EXCEPT !.a[t].state = "OPEN"], "again") ELSE x
      BY <1>1, <1>4
    <2>2. Ends(x, t) /\ x.r \in Outcomes
      BY <1>2, IfInUseIs
    <2>3. CASE x.r = "err" /\ x.s.a[t].offline
      <3> DEFINE o == [x.s.a[t] EXCEPT !.state = "OPEN"]
                 T == [x.s EXCEPT !.a[t] = o]
      <3>1. Inside(x.s, t) /\ x.s.a[t] \in OutType
        BY <2>2, <2>3 DEF Ends, Inside, StateOK, StateType
      <3>2. o \in OutType /\ o.open = x.s.a[t].open /\ o.async = x.s.a[t].async /\ o.stream = x.s.a[t].stream
        BY <3>1 DEF OutType
      <3>3. w = Ret(T, "again")
        BY <2>1, <2>3
      <3> HIDE DEF o
      <3>4. Inside(T, t)
        BY <3>1, <3>2, FilterKeeps
      <3> QED BY <3>3, <3>4 DEF Ret, Ends
    <2>4. CASE ~(x.r = "err" /\ x.s.a[t].offline)
      BY <2>1, <2>2, <2>4
    <2> QED BY <2>3, <2>4
  <1> QED BY <1>3, <1>4

LEMMA WriteIs ==
  ASSUME NEW S, NEW t \in Tracks, Inside(S, t), sys \in Systems, NEW w \in Write(S, t)
  PROVE  Ends(w, t) /\ w.r \in Outcomes
  <1>1. ASSUME NEW X, X = Create(S, t) \/ X = CreateKnowing(S, t), sys \in OneBuffer,
               NEW c \in Created(S, t, X), w \in (IF c.r = "ok" THEN IfInUse(c.s, t) ELSE {c})
        PROVE  Ends(w, t) /\ w.r \in Outcomes
    <2>1. Inside(c.s, t) /\ c.r \in {"ok", "more", "err"}
      BY <1>1, CreatedIs
    <2>2. CASE c.r = "ok"
      BY <1>1, <2>1, <2>2, IfInUseIs
    <2>3. CASE c.r # "ok"
      BY <1>1, <2>1, <2>3 DEF Ends, Outcomes
    <2> QED BY <2>2, <2>3
  <1>2. CASE sys = "pulse"
    <2>1. PICK c \in Created(S, t, Create(S, t)) : w \in (IF c.r = "ok" THEN IfInUse(c.s, t) ELSE {c})
      BY <1>2 DEF Write, PulseWrite, PulseCreate
    <2> QED BY <1>1, <1>2, <2>1 DEF OneBuffer
  <1>3. CASE sys = "alsa"
    <2>1. PICK c \in Created(S, t, CreateKnowing(S, t)) : w \in (IF c.r = "ok" THEN IfInUse(c.s, t) ELSE {c})
      BY <1>3 DEF Write, AlsaWrite, AlsaCreate
    <2> QED BY <1>1, <1>3, <2>1 DEF OneBuffer
  <1>4. CASE sys = "oss"
    <2>1. sys \in OneBuffer
      BY <1>4 DEF OneBuffer
    <2>2. w \in OssWrite(S, t)
      BY <1>4 DEF Write
    <2>3. CASE S.a[t].state = "DATA"
      BY <2>1, <2>2, <2>3, IfInUseIs DEF OssWrite
    <2>4. CASE S.a[t].state # "DATA"
      <3>1. PICK c \in Create(S, t) : w = IF c.r = "ok" THEN Ret(c.s, "more") ELSE c
        BY <2>2, <2>4 DEF OssWrite, OssCreate
      <3>2. Inside(c.s, t) /\ c.r \in {"ok", "more", "err"}
        BY <2>1, CreateIs DEF Goes
      <3> QED BY <3>1, <3>2 DEF Ends, Ret, Outcomes
    <2> QED BY <2>3, <2>4
  <1>5. CASE sys = "wasapi"
    <2>1. sys \in OneBuffer
      BY <1>5 DEF OneBuffer
    <2>2. PICK x \in WasapiOnce(S, t) :
             w \in (IF x.r # "again" THEN {x} ELSE {y \in WasapiOnce(x.s, t) : y.r # "again"})
      BY <1>5 DEF Write, WasapiWrite
    <2>3. Ends(x, t) /\ x.r \in Outcomes \cup {"again"}
      BY <2>1, WasapiOnceIs
    <2>4. CASE x.r # "again"
      BY <2>2, <2>3, <2>4
    <2>5. CASE x.r = "again"
      <3>1. w \in WasapiOnce(x.s, t) /\ w.r # "again"
        BY <2>2, <2>5
      <3>2. Inside(x.s, t)
        BY <2>3, <2>5 DEF Ends
      <3>3. Ends(w, t) /\ w.r \in Outcomes \cup {"again"}
        BY <2>1, <3>1, <3>2, WasapiOnceIs
      <3> QED BY <3>1, <3>3
    <2> QED BY <2>4, <2>5
  <1>6. CASE sys \in {"dsound", "coreaudio"}
    <2>1. PICK c \in Created(S, t, Open(S, t)) : w \in WriteOwn(c, t)
      BY <1>6 DEF Write, DsndWrite, CoraudWrite, DsndCreate, CoraudCreate
    <2>2. sys \notin OneBuffer
      BY <1>6 DEF OneBuffer
    <2> QED BY <2>1, <2>2, WriteOwnIs
  <1> QED BY <1>2, <1>3, <1>4, <1>5, <1>6, Assumed DEF OneBuffer, BufferEach

-----------------------------------------------------------------------------
(* Closing the filter. *)

(* The buffer is left without a user, empty or with what it held. *)
LEMMA LeftIs ==
  ASSUME NEW S, StateOK(S), NEW b \in Buffers, NEW S1, OnlyBuffer(S, S1, b),
         S1.mod[b].heard = <<>> \/ (S1.mod[b].heard = S.mod[b].heard /\ S1.mod[b].out = S.mod[b].out),
         NEW T, T = Unused(TimerOff(S1, b), b)
  PROVE  /\ StateOK(T) /\ OnlyBuffer(S, T, b)
         /\ T.mod[b].usedby = NoTrack /\ T.mod[b].tmr = "off"
  <1> DEFINE S2 == TimerOff(S1, b)
  <1>1. S1 \in StateType
    BY DEF OnlyBuffer
  <1>2. OnlyBuffer(S1, S2, b) /\ S2.mod[b] = [S1.mod[b] EXCEPT !.tmr = "off", !.who = NoTrack]
    BY <1>1, TimerOffIs
  <1>3. T = Unused(S2, b)
    OBVIOUS
  <1> HIDE DEF S2
  <1>4. S2 \in StateType
    BY <1>2 DEF OnlyBuffer
  <1>5. OnlyBuffer(S2, T, b) /\ T.mod[b] = [S2.mod[b] EXCEPT !.usedby = NoTrack]
    BY <1>3, <1>4, UnusedIs
  <1>6. OnlyBuffer(S, T, b)
    BY <1>2, <1>5 DEF OnlyBuffer
  <1>7. S1.mod[b] \in ModType
    BY <1>1 DEF StateType
  <1>8. /\ T.mod[b].usedby = NoTrack /\ T.mod[b].tmr = "off"
        /\ T.mod[b].heard = S1.mod[b].heard /\ T.mod[b].out = S1.mod[b].out
    BY <1>2, <1>5, <1>7 DEF ModType
  <1>9. Owned(T, b) /\ Holds(T, b)
    <2>1. Holds(S, b)
      BY DEF StateOK
    <2>2. Owned(T, b)
      BY <1>8 DEF Owned
    <2>3. CASE S1.mod[b].heard = <<>>
      BY <1>8, <2>2, <2>3 DEF Holds, AllOf
    <2>4. CASE S1.mod[b].heard = S.mod[b].heard /\ S1.mod[b].out = S.mod[b].out
      BY <1>8, <2>1, <2>2, <2>4 DEF Holds
    <2> QED BY <2>3, <2>4
  <1>10. StateOK(T)
    BY <1>6, <1>9, BufferStep
  <1> QED BY <1>6, <1>8, <1>10

(* The filter of a track that uses no buffer is closed. *)
LEMMA FilterClosedIs ==
  ASSUME NEW S, StateOK(S), NEW t \in Tracks, \A b \in Buffers : S.mod[b].usedby # t,
         NEW T, T = [S EXCEPT !.a[t] = [NewOut(t) EXCEPT !.open = FALSE]]
  PROVE  StateOK(T) /\ OnlyTrack(S, T, t) /\ T.trk = S.trk /\ ~T.a[t].async
  <1> DEFINE o == [NewOut(t) EXCEPT !.open = FALSE]
  <1>1. S \in StateType
    BY DEF StateOK
  <1>2. o \in OutType /\ o.async = FALSE
    BY DEF NewOut, OutType, Formats
  <1>3. T = [S EXCEPT !.a[t] = o]
    OBVIOUS
  <1> HIDE DEF o
  <1>4. OnlyTrack(S, T, t) /\ T.a[t] = o /\ T.trk = S.trk
    BY ONLY <1>1, <1>2, <1>3, FilterSet, t \in Tracks
  <1>5. ASSUME NEW b \in Buffers PROVE Owned(T, b) /\ Holds(T, b)
    <2>1. T.mod[b] = S.mod[b] /\ Owned(S, b) /\ Holds(S, b)
      BY <1>4 DEF OnlyTrack, StateOK
    <2>2. S.mod[b].usedby # NoTrack => S.mod[b].usedby \in Tracks \ {t}
      BY <1>1 DEF StateType, ModType, Users
    <2>3. \A u \in Tracks \ {t} : T.a[u] = S.a[u]
      BY <1>4 DEF OnlyTrack
    <2> QED BY <2>1, <2>2, <2>3 DEF Owned, Holds
  <1> QED BY <1>2, <1>4, <1>5 DEF StateOK, OnlyTrack

LEMMA ClosedIs ==
  ASSUME NEW S, StateOK(S), sys \in Systems, NEW t \in Tracks, NEW T, T = Closed(S, t)
  PROVE  /\ StateOK(T) /\ T.trk = S.trk /\ ~T.a[t].async
         /\ \A u \in Tracks \ {t} : T.a[u] = S.a[u]
  <1> DEFINE Released(S1) == /\ StateOK(S1) /\ S1.a = S.a /\ S1.trk = S.trk
                             /\ \A b \in Buffers : S1.mod[b].usedby # t
  <1>1. S \in StateType /\ t # NoTrack /\ Common \in Buffers /\ t \in Buffers /\ Common # t
    BY Assumed DEF StateOK, Buffers, Common
  <1>2. ASSUME NEW S1, NEW b \in Buffers, b = Buf(t), StateOK(S1), OnlyBuffer(S, S1, b), S1.mod[b].usedby = NoTrack
        PROVE  Released(S1)
    <2>1. \A c \in Buffers : c # b => S1.mod[c].usedby # t
      BY <1>1, <1>2 DEF OnlyBuffer, StateOK, Owned
    <2> QED BY <1>1, <1>2, <2>1 DEF OnlyBuffer
  <1>3. ASSUME NEW S1, sys \in OneBuffer, StateOK(S1), OnlyBuffer(S, S1, Common), S1.mod[Common].usedby = NoTrack,
               NEW S2, S2 = IfUser(S, t, S1)
        PROVE  Released(S2)
    <2>1. Buf(t) = Common
      BY <1>3 DEF Buf
    <2>2. CASE S.mod[Common].usedby = t
      BY <1>1, <1>2, <1>3, <2>1, <2>2 DEF IfUser
    <2>3. CASE S.mod[Common].usedby # t
      <3>1. \A c \in Buffers : S.mod[c].usedby # t
        BY <1>1, <2>1, <2>3 DEF StateOK, Owned
      <3> QED BY <1>3, <2>3, <3>1 DEF IfUser
    <2> QED BY <2>2, <2>3
  <1>4. ASSUME sys \in {"pulse", "alsa", "wasapi"} PROVE Released(IfUser(S, t, LeftToTimer(S, t)))
    <2> DEFINE S1 == Stopped(S, Common)
               S2 == Unused(TimerOff(S1, Common), Common)
               m == [S2.mod[Common] EXCEPT !.tmr = "close"]
               S3 == [S2 EXCEPT !.mod[Common] = m]
    <2>1. OnlyBuffer(S, S1, Common) /\ S1.mod[Common] = [S.mod[Common] EXCEPT !.on = FALSE]
      BY <1>1, StoppedIs
    <2>2. LeftToTimer(S, t) = S2 \/ LeftToTimer(S, t) = S3
      BY DEF LeftToTimer
    <2> HIDE DEF S1
    <2>3. S.mod[Common] \in ModType
      BY <1>1 DEF StateType
    <2>4. S1.mod[Common].heard = S.mod[Common].heard /\ S1.mod[Common].out = S.mod[Common].out
      BY <2>1, <2>3 DEF ModType
    <2>5. StateOK(S2) /\ OnlyBuffer(S, S2, Common) /\ S2.mod[Common].usedby = NoTrack /\ S2.mod[Common].tmr = "off"
      <3>1. S2 = Unused(TimerOff(S1, Common), Common)
        OBVIOUS
      <3>2. \/ S1.mod[Common].heard = <<>>
            \/ (S1.mod[Common].heard = S.mod[Common].heard /\ S1.mod[Common].out = S.mod[Common].out)
        BY <2>4
      <3>3. OnlyBuffer(S, S1, Common)
        BY <2>1
      <3> HIDE DEF S2
      <3> QED BY ONLY <1>1, <3>1, <3>2, <3>3, LeftIs, StateOK(S)
    <2> HIDE DEF S2
    <2>6. S2 \in StateType /\ S2.mod[Common] \in ModType
      BY <1>1, <2>5 DEF StateOK, StateType
    <2>7. /\ m \in ModType /\ m.tmr = "close" /\ m.usedby = NoTrack
          /\ m.heard = S2.mod[Common].heard /\ m.out = S2.mod[Common].out
      BY <2>5, <2>6 DEF ModType
    <2> HIDE DEF m
    <2>8. OnlyBuffer(S2, S3, Common) /\ S3.mod[Common] = m
      BY ONLY <1>1, <2>6, <2>7, BufferSet
    <2> HIDE DEF S3
    <2>9. Owned(S3, Common) /\ Holds(S3, Common)
      <3>1. Holds(S2, Common)
        BY <1>1, <2>5 DEF StateOK
      <3> QED BY <2>7, <2>8, <3>1 DEF Owned, Holds
    <2>10. StateOK(S3)
      BY <1>1, <2>5, <2>8, <2>9, BufferStep
    <2>11. OnlyBuffer(S, S3, Common) /\ S3.mod[Common].usedby = NoTrack
      BY <2>5, <2>7, <2>8 DEF OnlyBuffer
    <2>12. sys \in OneBuffer
      BY <1>4 DEF OneBuffer
    <2> HIDE DEF Released
    <2> QED BY <1>3, <2>2, <2>5, <2>10, <2>11, <2>12
  <1>5. ASSUME sys = "oss" PROVE Released(OssClose(S, t))
    <2> DEFINE S0 == Stopped(S, Common)
               S1 == IF S.trk[t].stop THEN BufClosed(S, Common) ELSE Cleared(S0, Common)
               S2 == Unused(TimerOff(S1, Common), Common)
    <2>1. OnlyBuffer(S, S0, Common)
      BY <1>1, StoppedIs
    <2>2. OssClose(S, t) = IfUser(S, t, S2)
      BY DEF OssClose
    <2>3. OnlyBuffer(S, S1, Common) /\ S1.mod[Common].heard = <<>>
      <3>1. CASE S.trk[t].stop
        <4>1. S.mod[Common] \in ModType
          BY <1>1 DEF StateType
        <4>2. /\ OnlyBuffer(S, S1, Common)
              /\ S1.mod[Common] = [S.mod[Common] EXCEPT !.on = FALSE, !.heard = <<>>, !.out = 0]
          BY <1>1, <3>1, BufClosedIs
        <4> QED BY <4>1, <4>2 DEF ModType
      <3>2. CASE ~S.trk[t].stop
        <4>1. S1 = Cleared(S0, Common)
          BY <3>2
        <4> HIDE DEF S0, S1
        <4>2. S0 \in StateType /\ S0.mod[Common] \in ModType
          BY <1>1, <2>1 DEF OnlyBuffer, StateType
        <4>3. OnlyBuffer(S0, S1, Common) /\ S1.mod[Common] = [S0.mod[Common] EXCEPT !.heard = <<>>]
          BY <1>1, <4>1, <4>2, ClearedIs
        <4> QED BY <2>1, <4>2, <4>3 DEF OnlyBuffer, ModType
      <3> QED BY <3>1, <3>2
    <2> HIDE DEF S1
    <2>4. StateOK(S2) /\ OnlyBuffer(S, S2, Common) /\ S2.mod[Common].usedby = NoTrack
      <3>1. S2 = Unused(TimerOff(S1, Common), Common)
        OBVIOUS
      <3> HIDE DEF S2
      <3> QED BY ONLY <1>1, <2>3, <3>1, LeftIs, StateOK(S)
    <2>5. sys \in OneBuffer
      BY <1>5 DEF OneBuffer
    <2> HIDE DEF S2, Released
    <2> QED BY <1>3, <2>2, <2>4, <2>5
  <1>6. ASSUME sys \in {"dsound", "coreaudio"} PROVE Released(Unused(TimerOff(BufClosed(S, t), t), t))
    <2> DEFINE S1 == BufClosed(S, t)
               S2 == Unused(TimerOff(S1, t), t)
    <2>1. OnlyBuffer(S, S1, t) /\ S1.mod[t].heard = <<>>
      <3>1. S.mod[t] \in ModType
        BY <1>1 DEF StateType
      <3>2. OnlyBuffer(S, S1, t) /\ S1.mod[t] = [S.mod[t] EXCEPT !.on = FALSE, !.heard = <<>>, !.out = 0]
        BY <1>1, BufClosedIs
      <3> QED BY <3>1, <3>2 DEF ModType
    <2> HIDE DEF S1
    <2>2. StateOK(S2) /\ OnlyBuffer(S, S2, t) /\ S2.mod[t].usedby = NoTrack
      <3>1. S2 = Unused(TimerOff(S1, t), t)
        OBVIOUS
      <3> HIDE DEF S2
      <3> QED BY ONLY <1>1, <2>1, <3>1, LeftIs, StateOK(S)
    <2>3. Buf(t) = t
      BY <1>6 DEF Buf, OneBuffer
    <2> HIDE DEF S2
    <2>4. Released(S2)
      BY <1>1, <1>2, <2>2, <2>3
    <2> QED BY <2>4 DEF S2, S1
  <1>7. PICK S1 : /\ Released(S1) /\ T = [S1 EXCEPT !.a[t] = [NewOut(t) EXCEPT !.open = FALSE]]
    <2> HIDE DEF Released
    <2>1. CASE sys \in {"pulse", "alsa", "wasapi"}
      BY <1>4, <2>1 DEF Closed, PulseClose, AlsaClose, WasapiClose
    <2>2. CASE sys = "oss"
      BY <1>5, <2>2 DEF Closed
    <2>3. CASE sys \in {"dsound", "coreaudio"}
      BY <1>6, <2>3 DEF Closed, DsndClose, CoraudClose
    <2> QED BY <2>1, <2>2, <2>3, Assumed DEF OneBuffer, BufferEach
  <1>8. StateOK(T) /\ OnlyTrack(S1, T, t) /\ T.trk = S1.trk /\ ~T.a[t].async
    BY <1>7, FilterClosedIs
  <1> QED BY <1>7, <1>8 DEF OnlyTrack

LEMMA FinIs ==
  ASSUME NEW S, StateOK(S), NEW t \in Tracks, ~S.a[t].async, \A u \in Tracks \ {t} : Waiting(S, u),
         NEW T, T = Fin(S, t)
  PROVE  Inv(T)
  <1> DEFINE k == [S.trk[t] EXCEPT !.st = "fin", !.go = FALSE]
  <1>1. S \in StateType /\ S.trk[t] \in TrkType
    BY DEF StateOK, StateType
  <1>2. k \in TrkType /\ k.st = "fin"
    BY <1>1 DEF TrkType
  <1>3. T = [S EXCEPT !.trk[t] = k]
    BY <1>1 DEF Fin, StateType
  <1> HIDE DEF k
  <1>4. OnlyTrack(S, T, t) /\ T.trk[t] = k /\ T.a = S.a
    BY ONLY <1>1, <1>2, <1>3, TrackSet, t \in Tracks
  <1>5. StateOK(T) /\ \A u \in Tracks \ {t} : Waiting(T, u)
    BY <1>4, TrackStep
  <1>6. Waiting(T, t)
    BY <1>2, <1>4 DEF Waiting
  <1> QED BY <1>5, <1>6 DEF Inv

-----------------------------------------------------------------------------
(* The handlers. *)
LEMMA BecomesIs ==
  ASSUME NEW S, Inv(S), Becomes(S), sys' = sys
  PROVE  Inv(Now)'
  <1>1. S \in StateType
    BY DEF Inv, StateOK
  <1>2. S = [mod |-> S.mod, a |-> S.a, trk |-> S.trk]
    BY <1>1 DEF StateType
  <1>3. Now' = S
    BY <1>2 DEF Becomes, Now
  <1>4. \A u : Buf(u)' = Buf(u)
    BY DEF Buf
  <1>5. \A u \in Tracks : Waiting(Now, u)'
    BY <1>3 DEF Inv, Waiting
  <1>6. \A b \in Buffers : Owned(Now, b)'
    BY <1>3, <1>4 DEF Inv, StateOK, Owned
  <1>7. \A b \in Buffers : Holds(Now, b)'
    BY <1>3 DEF Inv, StateOK, Holds
  <1> QED BY <1>1, <1>3, <1>5, <1>6, <1>7 DEF Inv, StateOK

LEMMA ProcessIs ==
  ASSUME NEW S, Inv(S), NEW t \in Tracks, S.trk[t].st = "active", ~S.trk[t].go, ~S.a[t].async,
         sys \in Systems, sys' = sys, Process(S, t)
  PROVE  Inv(Now)'
  <1>1. S \in StateType /\ StateOK(S) /\ \A u \in Tracks : Waiting(S, u)
    BY DEF Inv, StateOK
  <1>2. CASE S.trk[t].stop
    <2> DEFINE T == Fin(S, t)
    <2>1. Inv(T)
      BY <1>1, FinIs
    <2>2. Becomes(T)
      BY <1>2 DEF Process
    <2> HIDE DEF T
    <2> QED BY <2>1, <2>2, BecomesIs
  <1>3. CASE ~S.trk[t].stop
    <2> DEFINE o == [S.a[t] EXCEPT !.open = TRUE]
               S0 == [S EXCEPT !.a[t] = o]
    <2>1. PICK w \in Write(S0, t) : \E S1 \in {CASE w.r = "more" -> [w.s EXCEPT !.trk[t].go = TRUE]
                     [] w.r = "async" -> w.s
                     [] w.r = "done" -> Fin(Closed(w.s, t), t)
                     [] w.r \in {"err", "fin"} -> Fin(w.s, t)} : Becomes(S1)
      BY <1>3 DEF Process
    <2>2. S.a[t] \in OutType
      BY <1>1 DEF StateType
    <2>3. o \in OutType /\ o.open /\ o.async = S.a[t].async /\ o.stream = S.a[t].stream
      BY <2>2 DEF OutType
    <2> HIDE DEF o
    <2>4. OnlyTrack(S, S0, t) /\ S0.a[t] = o /\ S0.trk = S.trk
      BY <1>1, <2>3, FilterSet
    <2> HIDE DEF S0
    <2>5. StateOK(S0) /\ \A u \in Tracks \ {t} : Waiting(S0, u)
      BY <1>1, <2>3, <2>4, TrackStep
    <2>6. Inside(S0, t)
      BY <2>3, <2>4, <2>5 DEF Inside
    <2>7. Ends(w, t) /\ w.r \in Outcomes
      BY <2>1, <2>6, WriteIs
    <2>8. CASE w.r = "more"
      <3> DEFINE k == [w.s.trk[t] EXCEPT !.go = TRUE]
                 T == [w.s EXCEPT !.trk[t] = k]
      <3>1. Inside(w.s, t) /\ w.s \in StateType /\ w.s.trk[t] \in TrkType
        BY <2>7, <2>8 DEF Ends, Inside, StateOK, StateType
      <3>2. Becomes(T)
        BY <2>1, <2>8
      <3>3. k \in TrkType /\ k.st = w.s.trk[t].st
        BY <3>1 DEF TrkType
      <3> HIDE DEF k
      <3>4. OnlyTrack(w.s, T, t) /\ T.trk[t] = k /\ T.a = w.s.a
        BY <3>1, <3>3, TrackSet
      <3> HIDE DEF T
      <3>5. StateOK(T) /\ \A u \in Tracks \ {t} : Waiting(T, u)
        BY <3>1, <3>4, TrackStep DEF Inside
      <3>6. Waiting(T, t)
        BY <3>1, <3>3, <3>4 DEF Waiting, Inside
      <3>7. Inv(T)
        BY <3>5, <3>6 DEF Inv
      <3> QED BY <3>2, <3>7, BecomesIs
    <2>9. CASE w.r = "async"
      <3>1. Inv(w.s) /\ Becomes(w.s)
        BY <2>1, <2>7, <2>9 DEF Ends
      <3> QED BY <3>1, BecomesIs
    <2>10. CASE w.r = "done"
      <3> DEFINE C == Closed(w.s, t)
                 T == Fin(C, t)
      <3>1. Inside(w.s, t)
        BY <2>7, <2>10 DEF Ends
      <3>2. Becomes(T)
        BY <2>1, <2>10
      <3>3. /\ StateOK(C) /\ C.trk = w.s.trk /\ ~C.a[t].async
            /\ \A u \in Tracks \ {t} : C.a[u] = w.s.a[u]
        BY <3>1, ClosedIs DEF Inside
      <3> HIDE DEF C
      <3>4. \A u \in Tracks \ {t} : Waiting(C, u)
        BY <3>1, <3>3 DEF Waiting, Inside
      <3>5. Inv(T)
        BY <3>3, <3>4, FinIs
      <3> HIDE DEF T
      <3> QED BY <3>2, <3>5, BecomesIs
    <2>11. CASE w.r \in {"err", "fin"}
      <3> DEFINE T == Fin(w.s, t)
      <3>1. Inside(w.s, t)
        BY <2>7, <2>11 DEF Ends
      <3>2. Becomes(T)
        BY <2>1, <2>11
      <3>3. Inv(T)
        BY <3>1, FinIs DEF Inside
      <3> HIDE DEF T
      <3> QED BY <3>2, <3>3, BecomesIs
    <2> QED BY <2>7, <2>8, <2>9, <2>10, <2>11 DEF Outcomes
  <1> QED BY <1>2, <1>3

(* Only what the track keeps changes. *)
LEMMA TrackOnly ==
  ASSUME NEW S, Inv(S), NEW t \in Tracks, NEW k \in TrkType, NEW T, T = [S EXCEPT !.trk[t] = k],
         S.a[t].async => ~k.go /\ k.st = "active", k.st = "paused" => ~k.go
  PROVE  Inv(T) /\ T.trk[t] = k /\ T.a = S.a /\ T.mod = S.mod
  <1>1. S \in StateType /\ StateOK(S)
    BY DEF Inv, StateOK
  <1>2. OnlyTrack(S, T, t) /\ T.trk[t] = k /\ T.a = S.a
    BY <1>1, TrackSet
  <1>3. Waiting(T, t)
    BY <1>2 DEF Waiting
  <1>4. Inv(T)
    BY <1>1, <1>2, <1>3, TrackStep
  <1> QED BY <1>2, <1>4 DEF OnlyTrack

(* What is known of each step. *)
LEMMA NowIs ==
  ASSUME IInv
  PROVE  /\ sys \in Systems /\ cur \in Users /\ Inv(Now) /\ StateOK(Now) /\ Now \in StateType
         /\ Now.mod = mod /\ Now.a = a /\ Now.trk = trk
         /\ \A t \in Tracks : Waiting(Now, t) /\ trk[t] \in TrkType /\ a[t] \in OutType
  <1>1. Now \in StateType /\ Now.mod = mod /\ Now.a = a /\ Now.trk = trk
    BY DEF IInv, Inv, StateOK, Now
  <1> QED BY <1>1 DEF IInv, Inv, StateOK, StateType

LEMMA StartStep ==
  ASSUME IInv, NEW t \in Tracks, Start(t)
  PROVE  IInv'
  <1> DEFINE k == [trk[t] EXCEPT !.st = "active", !.go = TRUE]
  <1>1. PICK S : S = Now
    OBVIOUS
  <1>2. k \in TrkType /\ k.st = "active"
    BY NowIs DEF TrkType
  <1>3. PICK T : T = [S EXCEPT !.trk[t] = k]
    OBVIOUS
  <1>4. Becomes(T) /\ ~S.a[t].async /\ sys' = sys /\ cur' = cur
    <2>1. ~S.a[t].async
      BY <1>1, NowIs DEF Start, Waiting
    <2>2. S \in StateType
      BY <1>1, NowIs
    <2>3. T.trk = [trk EXCEPT ![t] = k] /\ T.a = a /\ T.mod = mod
      BY <1>1, <1>3, <2>2, NowIs DEF StateType
    <2>4. trk' = [trk EXCEPT ![t] = k]
      BY NowIs DEF Start, TrkType
    <2> QED BY <2>1, <2>3, <2>4 DEF Start, Becomes
  <1> HIDE DEF k
  <1>5. Inv(T)
    BY <1>1, <1>2, <1>3, <1>4, TrackOnly, NowIs
  <1>6. Inv(Now)'
    BY <1>4, <1>5, BecomesIs
  <1> QED BY <1>4, <1>6, NowIs DEF IInv

LEMMA RunStep ==
  ASSUME IInv, NEW t \in Tracks, Run(t)
  PROVE  IInv'
  <1> DEFINE k == [trk[t] EXCEPT !.go = FALSE]
  <1>1. PICK S : S = Now
    OBVIOUS
  <1>2. k \in TrkType /\ k.st = trk[t].st /\ k.go = FALSE
    BY NowIs DEF TrkType
  <1>3. PICK T : T = [S EXCEPT !.trk[t] = k]
    OBVIOUS
  <1>4. ~S.a[t].async
    BY <1>1, NowIs DEF Run, Waiting
  <1>5. /\ IF trk[t].st = "active" THEN Process(T, t) ELSE Becomes(T)
        /\ sys' = sys
    BY <1>1, <1>3 DEF Run, Now
  <1> HIDE DEF k
  <1>6. Inv(T) /\ T.trk[t] = k /\ T.a = S.a
    <2>1. Inv(S) /\ S \in StateType
      BY <1>1, NowIs
    <2>2. Inv(T) /\ T.a = S.a
      BY <1>2, <1>3, <1>4, <2>1, TrackOnly
    <2>3. T.trk[t] = k
      BY <1>3, <2>1 DEF StateType
    <2> QED BY <2>2, <2>3
  <1>7. Inv(Now)'
    <2>1. CASE trk[t].st = "active"
      <3>1. T.trk[t].st = "active" /\ ~T.trk[t].go /\ ~T.a[t].async /\ Process(T, t)
        BY <1>2, <1>4, <1>5, <1>6, <2>1
      <3> QED BY <1>5, <1>6, <3>1, ProcessIs, NowIs
    <2>2. CASE trk[t].st # "active"
      BY <1>5, <1>6, <2>2, BecomesIs
    <2> QED BY <2>1, <2>2
  <1>8. cur' \in Users
    BY NowIs DEF Run, Users
  <1> QED BY <1>5, <1>7, <1>8, NowIs DEF IInv

LEMMA StopStep ==
  ASSUME IInv, NEW t \in Tracks, Stop(t)
  PROVE  IInv'
  <1> DEFINE k(st) == [trk[t] EXCEPT !.stop = TRUE, !.st = st]
  <1>1. PICK S : S = Now
    OBVIOUS
  <1>2. sys' = sys /\ cur' = cur
    BY DEF Stop
  <1>3. S \in StateType /\ S.trk = trk /\ S.a = a /\ Inv(S) /\ trk[t] \in TrkType /\ Waiting(S, t)
    BY <1>1, NowIs
  <1>4. CASE trk[t].st = "paused"
    <2>1. PICK T : T = [S EXCEPT !.trk[t] = k("active")]
      OBVIOUS
    <2>2. Process(T, t)
      <3>1. Process([[S EXCEPT !.trk[t].stop = TRUE] EXCEPT !.trk[t].st = "active"], t)
        BY <1>1, <1>4 DEF Stop, Now
      <3>2. [[S EXCEPT !.trk[t].stop = TRUE] EXCEPT !.trk[t].st = "active"] = [S EXCEPT !.trk[t] = k("active")]
        BY <1>3 DEF StateType
      <3> QED BY ONLY <2>1, <3>1, <3>2
    <2>3. k("active") \in TrkType /\ k("active").st = "active" /\ k("active").go = trk[t].go
      BY <1>3 DEF TrkType
    <2> HIDE DEF k
    <2>4. ~S.a[t].async /\ ~trk[t].go
      BY <1>3, <1>4 DEF Waiting
    <2>5. Inv(T) /\ T.trk[t] = k("active") /\ T.a = S.a
      BY <1>3, <2>1, <2>3, <2>4, TrackOnly
    <2>6. Inv(Now)'
      BY <1>2, <2>2, <2>3, <2>4, <2>5, ProcessIs, NowIs
    <2> QED BY <1>2, <2>6, NowIs DEF IInv
  <1>5. CASE trk[t].st # "paused"
    <2> DEFINE j == [trk[t] EXCEPT !.stop = TRUE]
    <2>1. PICK T : T = [S EXCEPT !.trk[t] = j]
      OBVIOUS
    <2>2. Becomes(T)
      BY <1>1, <1>5, <2>1 DEF Stop, Now
    <2>3. j \in TrkType /\ j.st = trk[t].st /\ j.go = trk[t].go
      BY <1>3 DEF TrkType
    <2> HIDE DEF j
    <2>4. Inv(T)
      BY <1>3, <2>1, <2>3, TrackOnly DEF Waiting
    <2>5. Inv(Now)'
      BY <1>2, <2>2, <2>4, BecomesIs
    <2> QED BY <1>2, <2>5, NowIs DEF IInv
  <1> QED BY <1>4, <1>5

LEMMA FreeStep ==
  ASSUME IInv, NEW t \in Tracks, Free(t)
  PROVE  IInv'
  <1> DEFINE k == [trk[t] EXCEPT !.st = "freed", !.go = FALSE]
  <1>1. PICK S : S = Now
    OBVIOUS
  <1>2. S \in StateType /\ S.trk = trk /\ S.a = a /\ Inv(S) /\ trk[t] \in TrkType /\ Waiting(S, t)
    BY <1>1, NowIs
  <1>3. PICK T : T = [S EXCEPT !.trk[t] = k]
    OBVIOUS
  <1>4. sys' = sys /\ Becomes(IF a[t].open THEN Closed(T, t) ELSE T)
    <2>1. [S EXCEPT !.trk[t].st = "freed", !.trk[t].go = FALSE] = T
      BY <1>2, <1>3 DEF StateType
    <2>2. Becomes(IF a[t].open THEN Closed([S EXCEPT !.trk[t].st = "freed", !.trk[t].go = FALSE], t)
                  ELSE [S EXCEPT !.trk[t].st = "freed", !.trk[t].go = FALSE])
      BY <1>1 DEF Free
    <2> QED BY ONLY <2>1, <2>2, Free(t) DEF Free
  <1>5. k \in TrkType /\ k.st = "freed" /\ k.go = FALSE
    BY <1>2 DEF TrkType
  <1> HIDE DEF k
  <1>6. ~S.a[t].async
    BY <1>2 DEF Free, Waiting
  <1>7. Inv(T) /\ T.trk[t] = k /\ T.a = S.a
    <2>1. Inv(T) /\ T.a = S.a
      BY <1>2, <1>3, <1>5, <1>6, TrackOnly
    <2>2. T.trk[t] = k
      BY <1>2, <1>3 DEF StateType
    <2> QED BY <2>1, <2>2
  <1>8. Inv(Now)'
    <2>1. CASE ~a[t].open
      BY <1>4, <1>7, <2>1, BecomesIs
    <2>2. CASE a[t].open
      <3>1. PICK C : C = Closed(T, t)
        OBVIOUS
      <3>2. StateOK(C) /\ C.trk = T.trk /\ ~C.a[t].async /\ \A u \in Tracks \ {t} : C.a[u] = T.a[u]
        BY <1>7, <3>1, ClosedIs, NowIs DEF Inv
      <3>3. \A u \in Tracks : Waiting(C, u)
        BY <1>5, <1>7, <3>2 DEF Waiting, Inv
      <3>4. Inv(C)
        BY <3>2, <3>3 DEF Inv
      <3> QED BY <1>4, <2>2, <3>1, <3>4, BecomesIs
    <2> QED BY <2>1, <2>2
  <1>9. cur' \in Users
    BY NowIs DEF Free, Users
  <1> QED BY <1>4, <1>8, <1>9, NowIs DEF IInv

LEMMA PauseStep ==
  ASSUME IInv, Pause
  PROVE  IInv'
  <1>1. PICK S : S = Now
    OBVIOUS
  <1>2. PICK t \in Tracks : t = cur
    BY NowIs DEF Pause, Users
  <1> DEFINE k == [trk[t] EXCEPT !.pause = TRUE]
  <1>3. S \in StateType /\ S.trk = trk /\ S.a = a /\ S.mod = mod /\ Inv(S) /\ trk[t] \in TrkType /\ Waiting(S, t)
    BY <1>1, NowIs
  <1>4. PICK T : T = [S EXCEPT !.trk[t] = k]
    OBVIOUS
  <1>5. sys' = sys /\ cur' = cur /\ Becomes(T)
    BY <1>2, <1>3, <1>4 DEF Pause, Becomes, StateType
  <1>6. k \in TrkType /\ k.st = trk[t].st /\ k.go = trk[t].go
    BY <1>3 DEF TrkType
  <1> HIDE DEF k
  <1>7. Inv(T)
    BY <1>3, <1>4, <1>6, TrackOnly DEF Waiting
  <1>8. Inv(Now)'
    BY <1>5, <1>7, BecomesIs
  <1> QED BY <1>5, <1>8, NowIs DEF IInv

LEMMA UnpauseStep ==
  ASSUME IInv, Unpause
  PROVE  IInv'
  <1>1. PICK S : S = Now
    OBVIOUS
  <1>2. PICK t \in Tracks : t = cur
    BY NowIs DEF Unpause, Users
  <1>3. S \in StateType /\ S.trk = trk /\ S.a = a /\ S.mod = mod /\ Inv(S) /\ trk[t] \in TrkType /\ Waiting(S, t)
    BY <1>1, NowIs
  <1>4. sys' = sys /\ cur' = cur
    BY DEF Unpause
  <1>5. CASE trk[t].st = "paused" /\ Process([Now EXCEPT !.trk[t].st = "active"], t)
    <2> DEFINE k == [trk[t] EXCEPT !.st = "active"]
    <2>1. PICK T : T = [S EXCEPT !.trk[t] = k]
      OBVIOUS
    <2>2. Process(T, t)
      BY <1>1, <1>5, <2>1 DEF Now
    <2>3. k \in TrkType /\ k.st = "active" /\ k.go = trk[t].go
      BY <1>3 DEF TrkType
    <2> HIDE DEF k
    <2>4. ~S.a[t].async /\ ~trk[t].go
      BY <1>3, <1>5 DEF Waiting
    <2>5. Inv(T) /\ T.trk[t] = k /\ T.a = S.a
      BY <1>3, <2>1, <2>3, <2>4, TrackOnly
    <2>6. Inv(Now)'
      BY <1>4, <2>2, <2>3, <2>4, <2>5, ProcessIs, NowIs
    <2> QED BY <1>4, <2>6, NowIs DEF IInv
  <1>6. CASE trk' = [trk EXCEPT ![t].pause = FALSE] /\ UNCHANGED <<mod, a>>
    <2> DEFINE k == [trk[t] EXCEPT !.pause = FALSE]
    <2>1. PICK T : T = [S EXCEPT !.trk[t] = k]
      OBVIOUS
    <2>2. Becomes(T)
      BY <1>3, <1>6, <2>1 DEF Becomes, StateType
    <2>3. k \in TrkType /\ k.st = trk[t].st /\ k.go = trk[t].go
      BY <1>3 DEF TrkType
    <2> HIDE DEF k
    <2>4. Inv(T)
      BY <1>3, <2>1, <2>3, TrackOnly DEF Waiting
    <2>5. Inv(Now)'
      BY <1>4, <2>2, <2>4, BecomesIs
    <2> QED BY <1>4, <2>5, NowIs DEF IInv
  <1> QED BY <1>2, <1>5, <1>6 DEF Unpause

(* The filter has its track woken. *)
LEMMA OnPlayInv ==
  ASSUME NEW S, Inv(S), NEW t \in Tracks, NEW T, T = OnPlay(S, t)
  PROVE  Inv(T)
  <1>1. S \in StateType /\ StateOK(S) /\ Waiting(S, t) /\ S.a[t] \in OutType /\ S.trk[t] \in TrkType
    BY DEF Inv, StateOK, StateType
  <1>2. /\ OnlyTrack(S, T, t) /\ T.a[t] = [S.a[t] EXCEPT !.async = FALSE]
        /\ T.trk[t] = IF S.a[t].async THEN [S.trk[t] EXCEPT !.go = TRUE] ELSE S.trk[t]
    BY <1>1, OnPlayIs
  <1>3. T.a[t].async = FALSE /\ T.a[t].open = S.a[t].open /\ T.a[t].stream = S.a[t].stream
    BY <1>1, <1>2 DEF OutType
  <1>4. T.trk[t].st = S.trk[t].st /\ (~S.a[t].async => T.trk[t] = S.trk[t])
    BY <1>1, <1>2 DEF TrkType
  <1>5. Waiting(T, t)
    BY <1>1, <1>3, <1>4 DEF Waiting
  <1> QED BY <1>1, <1>2, <1>3, <1>5, TrackStep

LEMMA SeekStep ==
  ASSUME IInv, Seek
  PROVE  IInv'
  <1>1. PICK S : S = Now
    OBVIOUS
  <1>2. PICK t \in Tracks : t = cur
    BY NowIs DEF Seek, Users
  <1>3. S \in StateType /\ Inv(S) /\ StateOK(S) /\ Common \in Buffers /\ S.mod[Common] \in ModType
    BY <1>1, NowIs DEF StateType, Buffers
  <1>4. sys' = sys /\ cur' = cur
    BY DEF Seek
  <1>5. PICK S1 : S1 = Stopped(S, Common)
    OBVIOUS
  <1>6. OnlyBuffer(S, S1, Common) /\ S1.mod[Common] = [S.mod[Common] EXCEPT !.on = FALSE]
    BY <1>3, <1>5, StoppedIs
  <1>7. Inv(S1)
    <2>1. /\ S1.mod[Common].heard = S.mod[Common].heard /\ S1.mod[Common].usedby = S.mod[Common].usedby
          /\ S1.mod[Common].out = S.mod[Common].out /\ S1.mod[Common].tmr = S.mod[Common].tmr
          /\ S1.mod[Common].who = S.mod[Common].who
      BY <1>3, <1>6 DEF ModType
    <2>2. Owned(S1, Common) /\ Holds(S1, Common)
      <3>1. Owned(S, Common) /\ Holds(S, Common)
        BY <1>3 DEF StateOK
      <3> QED BY <1>6, <2>1, <3>1 DEF Owned, Holds, OnlyBuffer
    <2> QED BY <1>3, <1>6, <2>2, BufferStep
  <1> DEFINE o == [S1.a[t] EXCEPT !.clear = TRUE]
             k == [S1.trk[t] EXCEPT !.seek = TRUE]
             S2 == [S1 EXCEPT !.a[t] = o]
             S3 == [S2 EXCEPT !.trk[t] = k]
  <1>8. S1 \in StateType /\ StateOK(S1) /\ S1.a[t] \in OutType /\ S1.trk[t] \in TrkType /\ Waiting(S1, t)
    BY <1>7 DEF Inv, StateOK, StateType
  <1>9. Becomes(OnPlay(S3, t))
    <2>1. Becomes(OnPlay([S1 EXCEPT !.a[t].clear = TRUE, !.trk[t].seek = TRUE], t))
      BY <1>1, <1>2, <1>5 DEF Seek
    <2>2. [S1 EXCEPT !.a[t].clear = TRUE, !.trk[t].seek = TRUE] = S3
      BY <1>8 DEF StateType
    <2> QED BY ONLY <2>1, <2>2
  <1>10. o \in OutType /\ o.open = S1.a[t].open /\ o.async = S1.a[t].async /\ o.stream = S1.a[t].stream
    BY <1>8 DEF OutType
  <1>11. k \in TrkType /\ k.go = S1.trk[t].go /\ k.st = S1.trk[t].st
    BY <1>8 DEF TrkType
  <1> HIDE DEF o, k
  <1>12. OnlyTrack(S1, S2, t) /\ S2.a[t] = o /\ S2.trk = S1.trk
    BY <1>8, <1>10, FilterSet
  <1> HIDE DEF S2
  <1>13. Waiting(S2, t)
    BY <1>8, <1>10, <1>12 DEF Waiting
  <1>14. Inv(S2)
    BY <1>7, <1>8, <1>10, <1>12, <1>13, TrackStep
  <1>15. Inv(S3)
    BY <1>11, <1>12, <1>13, <1>14, TrackOnly DEF Waiting
  <1> HIDE DEF S3
  <1>16. PICK T : T = OnPlay(S3, t)
    OBVIOUS
  <1>17. Inv(T) /\ Becomes(T)
    BY <1>9, <1>15, <1>16, OnPlayInv
  <1>18. Inv(Now)'
    BY <1>4, <1>17, BecomesIs
  <1> QED BY <1>4, <1>18, NowIs DEF IInv

LEMMA DeviceStep ==
  ASSUME IInv, NEW b \in Buffers, Device(b)
  PROVE  IInv'
  <1>1. PICK S : S = Now
    OBVIOUS
  <1>2. /\ S \in StateType /\ Inv(S) /\ StateOK(S) /\ S.mod[b] \in ModType /\ Owned(S, b) /\ Holds(S, b)
        /\ S.mod = mod /\ S.a = a /\ S.trk = trk
    BY <1>1, NowIs DEF StateType, StateOK
  <1>3. sys' = sys /\ cur' = cur
    BY DEF Device
  <1>4. CASE mod[b].tmr = "wake" /\ Becomes(OnPlay(Now, mod[b].who))
    <2>1. PICK t \in Tracks : t = mod[b].who
      BY <1>2, <1>4 DEF Owned, ModType, Users
    <2>2. PICK T : T = OnPlay(S, t)
      OBVIOUS
    <2>3. Inv(T) /\ Becomes(T)
      BY <1>1, <1>2, <1>4, <2>1, <2>2, OnPlayInv
    <2>4. Inv(Now)'
      BY <1>3, <2>3, BecomesIs
    <2> QED BY <1>3, <2>4, NowIs DEF IInv
  <1>5. CASE mod[b].tmr = "close" /\ Becomes(TimerOff(BufClosed(Now, b), b))
    <2>1. PICK S1 : S1 = BufClosed(S, b)
      OBVIOUS
    <2>2. PICK T : T = TimerOff(S1, b)
      OBVIOUS
    <2>3. OnlyBuffer(S, S1, b) /\ S1.mod[b] = [S.mod[b] EXCEPT !.on = FALSE, !.heard = <<>>, !.out = 0]
      BY <1>2, <2>1, BufClosedIs
    <2>4. S1 \in StateType
      BY <2>3 DEF OnlyBuffer
    <2>5. OnlyBuffer(S1, T, b) /\ T.mod[b] = [S1.mod[b] EXCEPT !.tmr = "off", !.who = NoTrack]
      BY <2>2, <2>4, TimerOffIs
    <2>6. T.mod[b].heard = <<>> /\ T.mod[b].usedby = NoTrack /\ T.mod[b].tmr = "off"
      <3>1. S.mod[b].usedby = NoTrack /\ S1.mod[b] \in ModType
        BY <1>2, <1>5, <2>4 DEF Owned, StateType
      <3> QED BY <1>2, <2>3, <2>5, <3>1 DEF ModType
    <2>7. OnlyBuffer(S, T, b)
      BY <2>3, <2>5 DEF OnlyBuffer
    <2>8. Owned(T, b) /\ Holds(T, b)
      BY <2>6 DEF Owned, Holds, AllOf
    <2>9. Inv(T)
      BY <1>2, <2>7, <2>8, BufferStep
    <2>10. Becomes(T)
      BY <1>1, <1>5, <2>1, <2>2
    <2>11. Inv(Now)'
      BY <1>3, <2>9, <2>10, BecomesIs
    <2> QED BY <1>3, <2>11, NowIs DEF IInv
  <1>6. CASE Play(b)
    <2> DEFINE q == Tail(S.mod[b].heard)
               m == [S.mod[b] EXCEPT !.heard = q]
    <2>1. PICK T : T = [S EXCEPT !.mod[b] = m]
      OBVIOUS
    <2>2. Becomes(T)
      BY <1>2, <1>6, <2>1 DEF Play, Becomes, StateType
    <2>3. S.mod[b].heard \in Seq(Tracks) /\ Len(S.mod[b].heard) <= Cap /\ S.mod[b].heard # <<>>
      BY <1>2, <1>6 DEF Play, ModType, Heards
    <2>4. /\ q \in Seq(Tracks) /\ Len(q) = Len(S.mod[b].heard) - 1
          /\ \A i \in 1 .. Len(q) : q[i] = S.mod[b].heard[i + 1]
      BY <2>3, HeadTailProperties
    <2>5. q \in Heards
      <3>1. Len(S.mod[b].heard) \in Nat /\ Len(q) \in Nat
        BY <2>3, <2>4
      <3> QED BY <2>3, <2>4, <3>1, Assumed DEF Heards
    <2>6. ASSUME NEW t, AllOf(S.mod[b].heard, t) PROVE AllOf(q, t)
      <3>1. Len(S.mod[b].heard) \in Nat /\ Len(q) \in Nat
        BY <2>3, <2>4
      <3> QED BY <2>4, <2>6, <3>1 DEF AllOf
    <2> HIDE DEF q
    <2>7. /\ m \in ModType /\ m.heard = q /\ m.usedby = S.mod[b].usedby /\ m.out = S.mod[b].out
          /\ m.tmr = S.mod[b].tmr /\ m.who = S.mod[b].who
      BY <1>2, <2>5 DEF ModType
    <2> HIDE DEF m
    <2>8. OnlyBuffer(S, T, b) /\ T.mod[b] = m
      BY <1>2, <2>1, <2>7, BufferSet
    <2>9. Owned(T, b) /\ Holds(T, b)
      <3>1. ~(b = Common /\ S.mod[b].out = 0)
        BY <1>2, <2>3 DEF Holds
      <3> QED BY <1>2, <2>6, <2>7, <2>8, <3>1 DEF Owned, Holds, OnlyBuffer
    <2>10. Inv(T)
      BY <1>2, <2>8, <2>9, BufferStep
    <2>11. Inv(Now)'
      BY <1>3, <2>2, <2>10, BecomesIs
    <2> QED BY <1>3, <2>11, NowIs DEF IInv
  <1> QED BY <1>4, <1>5, <1>6 DEF Device, Timer

-----------------------------------------------------------------------------
LEMMA InitInv ==
  ASSUME Init
  PROVE  IInv
  <1>1. PICK bad \in SUBSET {Fmt[t] : t \in Tracks} : mod = [b \in Buffers |-> [NoMod EXCEPT !.bad = bad]]
    BY DEF Init
  <1>2. PICK m : m = [NoMod EXCEPT !.bad = bad]
    OBVIOUS
  <1>3. /\ m \in ModType /\ m.usedby = NoTrack /\ m.tmr = "off" /\ m.heard = <<>>
    <2>1. <<>> \in Heards
      BY Assumed DEF Heards
    <2>2. m = [out |-> 0, fmt |-> Native, heard |-> <<>>, on |-> FALSE,
               usedby |-> NoTrack, tmr |-> "off", who |-> NoTrack, bad |-> bad]
      BY <1>2 DEF NoMod
    <2> QED BY <1>1, <2>1, <2>2 DEF ModType, Formats, Users
  <1>4. mod = [b \in Buffers |-> m]
    BY <1>1, <1>2
  <1>5. \A t \in Tracks : [NewOut(t) EXCEPT !.open = FALSE] \in OutType /\ ~[NewOut(t) EXCEPT !.open = FALSE].async
    BY DEF NewOut, OutType, Formats
  <1>6. NewTrack \in TrkType /\ NewTrack.st = "new"
    <2>1. Blocks \in 0 .. Blocks
      BY Assumed
    <2> QED BY <2>1 DEF NewTrack, TrkType
  <1>7. a \in [Tracks -> OutType] /\ trk \in [Tracks -> TrkType] /\ mod \in [Buffers -> ModType]
    BY <1>3, <1>4, <1>5, <1>6 DEF Init
  <1>8. Now \in StateType /\ Now.mod = mod /\ Now.a = a /\ Now.trk = trk
    BY <1>7 DEF Now, StateType
  <1>9. \A b \in Buffers : Owned(Now, b) /\ Holds(Now, b)
    <2>1. \A b \in Buffers : Now.mod[b] = m
      BY <1>4, <1>8
    <2> QED BY <1>3, <2>1 DEF Owned, Holds, AllOf
  <1>10. \A t \in Tracks : Waiting(Now, t)
    <2> TAKE t \in Tracks
    <2>1. a[t] = [NewOut(t) EXCEPT !.open = FALSE] /\ trk[t] = NewTrack
      BY DEF Init
    <2>2. ~a[t].async
      BY <1>5, <2>1
    <2>3. trk[t].st = "new"
      BY <1>6, <2>1
    <2> QED BY <1>8, <2>2, <2>3 DEF Waiting
  <1> QED BY <1>8, <1>9, <1>10 DEF IInv, Inv, StateOK, Init, Users

LEMMA NextInv ==
  ASSUME IInv, [Next]_vars
  PROVE  IInv'
  <1>1. CASE UNCHANGED vars
    <2>1. PICK S : S = Now
      OBVIOUS
    <2>2. Inv(S) /\ Becomes(S) /\ sys' = sys /\ cur' = cur
      BY <1>1, <2>1, NowIs DEF vars, Becomes
    <2>3. Inv(Now)'
      BY <2>2, BecomesIs
    <2> QED BY <2>2, <2>3, NowIs DEF IInv
  <1>2. CASE Next
    BY <1>2, StartStep, RunStep, StopStep, FreeStep, PauseStep, UnpauseStep, SeekStep, DeviceStep DEF Next
  <1> QED BY <1>1, <1>2

(* The invariant holds in every state. *)
THEOREM Invariance == Spec => []IInv
  <1>1. Init => IInv
    BY InitInv
  <1>2. IInv /\ [Next]_vars => IInv'
    BY NextInv
  <1> QED BY <1>1, <1>2, PTL DEF Spec

(* The state is well typed: a number for a new buffer, pulse_open() and the other
   functions that open one, there always is. *)
THEOREM TypeCorrect == Spec => []TypeOK
  <1>1. IInv => TypeOK
    <2> SUFFICES ASSUME IInv PROVE TypeOK
      OBVIOUS
    <2>1. ASSUME NEW b \in Buffers PROVE ModOK(mod[b])
      <3>1. mod[b] \in ModType
        BY NowIs DEF StateType
      <3> QED BY <3>1 DEF ModType, ModOK, Heards, Users
    <2>2. ASSUME NEW t \in Tracks PROVE OutOK(a[t]) /\ TrackOK(trk[t])
      <3>1. a[t] \in OutType /\ trk[t] \in TrkType
        BY NowIs
      <3> QED BY <3>1 DEF OutType, TrkType, OutOK, TrackOK
    <2> QED BY <2>1, <2>2, NowIs DEF TypeOK, Users
  <1> QED BY <1>1, Invariance, PTL

(* A buffer, the track that uses it and the timer agree (pulse_create(),
   alsa_create(), oss_create(), wasapi_create() and their close functions), however
   many tracks take the buffer from each other. *)
THEOREM OwnerHoldsDeviceHolds == Spec => []OwnerHoldsDevice
  <1>1. IInv => OwnerHoldsDevice
    <2> SUFFICES ASSUME IInv PROVE OwnerHoldsDevice
      OBVIOUS
    <2>1. ASSUME NEW b \in Buffers PROVE Owned(Now, b)
      BY NowIs DEF StateOK
    <2> QED BY <2>1, NowIs DEF OwnerHoldsDevice, Owned
  <1> QED BY <1>1, Invariance, PTL

(* What is heard is the track that uses the buffer: whoever takes it over stops
   it and clears it first, or opens one that is empty. *)
THEOREM OnlyOwnerIsHeardHolds == Spec => []OnlyOwnerIsHeard
  <1>1. IInv => OnlyOwnerIsHeard
    <2> SUFFICES ASSUME IInv PROVE OnlyOwnerIsHeard
      OBVIOUS
    <2>1. ASSUME NEW b \in Buffers PROVE Holds(Now, b)
      BY NowIs DEF StateOK
    <2> QED BY <2>1, NowIs DEF OnlyOwnerIsHeard, Holds, AllOf
  <1> QED BY <1>1, Invariance, PTL

(* audio_out_onplay() has a track woken only when it waits for its filter: not one
   that is queued already, nor one that is paused. *)
THEOREM WokenOnceHolds == Spec => []WokenOnce
  <1>1. IInv => WokenOnce
    <2> SUFFICES ASSUME IInv PROVE WokenOnce
      OBVIOUS
    <2>1. ASSUME NEW t \in Tracks PROVE Waiting(Now, t)
      BY NowIs
    <2> QED BY <2>1, NowIs DEF WokenOnce, Waiting
  <1> QED BY <1>1, Invariance, PTL
=============================================================================
