----------------------------- MODULE MixerProofs -----------------------------
(***************************************************************************)
(* Safety of the mixer for any number of inputs, any size of the shared    *)
(* block and any length of the data, also if inputs fail early.            *)
(***************************************************************************)
EXTENDS Mixer, FiniteSetTheorems, SequenceTheorems, TLAPS

(* What posting, deleting and taking a task does to a queue. *)

(* fftask_post() of a task that is not queued adds it at the end. *)
LEMMA PostedTask ==
  ASSUME NEW T, NEW queue \in Seq(T), IsInjective(queue), NEW task \in T
  PROVE  /\ Posted(queue, task) \in Seq(T) /\ IsInjective(Posted(queue, task))
         /\ \A x : Contains(Posted(queue, task), x) <=> Contains(queue, x) \/ x = task
  <1>1. CASE Contains(queue, task)
    BY <1>1 DEF Posted
  <1>2. CASE ~Contains(queue, task)
    <2> DEFINE new == Append(queue, task)
    <2>1. new \in Seq(T) /\ Len(new) = Len(queue) + 1 /\ Len(queue) \in Nat
          /\ (\A i \in 1 .. Len(queue) : new[i] = queue[i]) /\ new[Len(queue) + 1] = task
      BY AppendProperties, LenProperties
    <2>2. DOMAIN new = 1 .. Len(new) /\ DOMAIN queue = 1 .. Len(queue)
      BY <2>1, LenProperties
    <2>3. IsInjective(new)
      BY <1>2, <2>1, <2>2 DEF IsInjective, Contains
    <2>4. ASSUME NEW x PROVE Contains(new, x) <=> Contains(queue, x) \/ x = task
      BY <2>1 DEF Contains
    <2> QED BY <1>2, <2>1, <2>3, <2>4 DEF Posted
  <1> QED BY <1>1, <1>2

(* A task is queued at one place, so deleting it leaves none. *)
LEMMA DeletedTask ==
  ASSUME NEW T, NEW queue \in Seq(T), IsInjective(queue), NEW task
  PROVE  /\ Deleted(queue, task) \in Seq(T) /\ IsInjective(Deleted(queue, task))
         /\ \A x : Contains(Deleted(queue, task), x) <=> Contains(queue, x) /\ x # task
  <1>1. CASE ~Contains(queue, task)
    BY <1>1 DEF Deleted, Contains
  <1>2. CASE Contains(queue, task)
    <2>0. DOMAIN queue = 1 .. Len(queue) /\ Len(queue) \in Nat
      BY LenProperties
    <2> DEFINE k == CHOOSE i \in DOMAIN queue : queue[i] = task
               new == RemoveAt(queue, k)
    <2>1. k \in 1 .. Len(queue) /\ queue[k] = task
      BY <1>2, <2>0 DEF Contains
    <2>2. \A i \in 1 .. Len(queue) : queue[i] \in T
      BY ElementOfSeq
    <2> DEFINE n == Len(queue)
               a == SubSeq(queue, 1, k - 1)
               b == SubSeq(queue, k + 1, n)
    <2> HIDE DEF k
    <2>3. a \in Seq(T) /\ Len(a) = k - 1 /\ \A i \in 1 .. k - 1 : a[i] = queue[i]
      <3>1. /\ a \in Seq(T) /\ Len(a) = IF 1 <= k - 1 THEN (k - 1) - 1 + 1 ELSE 0
            /\ \A i \in 1 .. (k - 1) - 1 + 1 : a[i] = queue[1 + i - 1]
        BY <2>0, <2>1, <2>2, SubSeqProperties
      <3> HIDE DEF a
      <3> QED BY <3>1, <2>0, <2>1
    <2>4. b \in Seq(T) /\ Len(b) = n - k /\ \A i \in 1 .. n - k : b[i] = queue[k + i]
      <3>1. /\ b \in Seq(T) /\ Len(b) = IF k + 1 <= n THEN n - (k + 1) + 1 ELSE 0
            /\ \A i \in 1 .. n - (k + 1) + 1 : b[i] = queue[(k + 1) + i - 1]
        BY <2>0, <2>1, <2>2, SubSeqProperties
      <3> HIDE DEF b, n
      <3>2. n \in Nat /\ k \in 1 .. n
        BY <2>0, <2>1 DEF n
      <3> QED BY <3>1, <3>2
    <2>5. /\ new \in Seq(T) /\ Len(new) = Len(queue) - 1
          /\ \A i \in 1 .. Len(queue) - 1 : new[i] = IF i < k THEN queue[i] ELSE queue[i + 1]
      <3>1. new = a \o b
        BY DEF RemoveAt
      <3> HIDE DEF a, b, new
      <3>2. /\ new \in Seq(T) /\ Len(new) = Len(a) + Len(b)
            /\ \A i \in 1 .. Len(a) + Len(b) : new[i] = IF i <= Len(a) THEN a[i] ELSE b[i - Len(a)]
        BY <3>1, <2>3, <2>4, ConcatProperties
      <3>3. n \in Nat /\ k \in 1 .. n
        BY <2>0, <2>1
      <3> HIDE DEF n
      <3>4. ASSUME NEW i \in 1 .. n - 1 PROVE new[i] = IF i < k THEN queue[i] ELSE queue[i + 1]
        <4>1. CASE i < k
          BY <4>1, <3>2, <3>3, <2>3, <2>4
        <4>2. CASE i >= k
          <5>1. i - Len(a) \in 1 .. n - k /\ k + (i - Len(a)) = i + 1
            BY <4>2, <3>3, <2>3
          <5>2. new[i] = b[i - Len(a)]
            BY <4>2, <3>2, <3>3, <2>3, <2>4
          <5>3. b[i - Len(a)] = queue[k + (i - Len(a))]
            BY <5>1, <2>4
          <5> QED BY <4>2, <5>1, <5>2, <5>3, <3>3
        <4> QED BY <4>1, <4>2, <3>3
      <3>5. Len(new) = n - 1
        BY <3>2, <3>3, <2>3, <2>4
      <3> QED BY <3>2, <3>4, <3>5 DEF n
    <2>6. DOMAIN new = 1 .. Len(queue) - 1
      BY <2>5, LenProperties
    <2> HIDE DEF new
    <2>7. IsInjective(new)
      <3> SUFFICES ASSUME NEW i \in 1 .. Len(queue) - 1, NEW j \in 1 .. Len(queue) - 1, new[i] = new[j]
                   PROVE  i = j
        BY <2>6 DEF IsInjective
      <3>1. \A x, y \in 1 .. Len(queue) : queue[x] = queue[y] => x = y
        BY <2>0 DEF IsInjective
      <3> QED BY <3>1, <2>0, <2>1, <2>5
    <2>8. ASSUME NEW x, Contains(new, x) PROVE Contains(queue, x) /\ x # task
      BY <2>0, <2>1, <2>5, <2>8 DEF IsInjective, Contains
    <2>9. ASSUME NEW x, Contains(queue, x), x # task PROVE Contains(new, x)
      <3>1. PICK i \in 1 .. Len(queue) : queue[i] = x
        BY <2>9 DEF Contains
      <3>2. i # k
        BY <2>1, <2>9, <3>1
      <3>3. CASE i < k
        BY <2>0, <2>1, <2>5, <3>1, <3>3 DEF Contains
      <3>4. CASE i > k
        <4>1. i - 1 \in 1 .. Len(queue) - 1 /\ new[i - 1] = x
          BY <2>0, <2>1, <2>5, <3>1, <3>4
        <4> QED BY <4>1, <2>5 DEF Contains
      <3> QED BY <2>0, <2>1, <3>1, <3>2, <3>3, <3>4
    <2>10. Deleted(queue, task) = new
      BY <1>2 DEF Deleted, new, k
    <2> QED BY <2>5, <2>7, <2>8, <2>9, <2>10
  <1> QED BY <1>1, <1>2

(* Taking the first task leaves the others. *)
LEMMA TakenTask ==
  ASSUME NEW T, NEW queue \in Seq(T), IsInjective(queue), queue # <<>>
  PROVE  /\ Tail(queue) \in Seq(T) /\ IsInjective(Tail(queue))
         /\ Head(queue) \in T /\ Contains(queue, Head(queue))
         /\ \A x : Contains(Tail(queue), x) <=> Contains(queue, x) /\ x # Head(queue)
  <1>1. Len(queue) \in Nat \ {0} /\ DOMAIN queue = 1 .. Len(queue)
    BY EmptySeq, LenProperties
  <1>2. Head(queue) \in T /\ Tail(queue) \in Seq(T) /\ Len(Tail(queue)) = Len(queue) - 1
        /\ \A i \in 1 .. Len(queue) - 1 : Tail(queue)[i] = queue[i + 1]
    BY HeadTailProperties
  <1>3. Head(queue) = queue[1]
    OBVIOUS
  <1>4. DOMAIN Tail(queue) = 1 .. Len(queue) - 1
    BY <1>2, LenProperties
  <1>5. IsInjective(Tail(queue))
    BY <1>1, <1>2, <1>4 DEF IsInjective
  <1>6. ASSUME NEW x, Contains(Tail(queue), x) PROVE Contains(queue, x) /\ x # Head(queue)
    BY <1>1, <1>2, <1>3, <1>6 DEF IsInjective, Contains
  <1>7. ASSUME NEW x, Contains(queue, x), x # Head(queue) PROVE Contains(Tail(queue), x)
    <2>1. PICK i \in 1 .. Len(queue) : queue[i] = x
      BY <1>7 DEF Contains
    <2>2. i - 1 \in 1 .. Len(queue) - 1 /\ Tail(queue)[i - 1] = x
      BY <1>1, <1>2, <1>3, <1>7, <2>1
    <2> QED BY <2>2, <1>2 DEF Contains
  <1> QED BY <1>1, <1>2, <1>3, <1>5, <1>6, <1>7 DEF Contains

(* SetToSeq() lists each element of a finite set once. *)
LEMMA ListedOnce ==
  ASSUME NEW S, IsFiniteSet(S)
  PROVE  /\ SetToSeq(S) \in Seq(S) /\ IsInjective(SetToSeq(S))
         /\ \A x : Contains(SetToSeq(S), x) <=> x \in S
  <1> DEFINE n == Cardinality(S)
  <1>1. n \in Nat /\ \E f \in [1 .. n -> S] : IsInjective(f) /\ \A x \in S : \E i \in 1 .. n : f[i] = x
    BY FS_CardinalityType DEF ExistsBijection, Bijection, Injection, Surjection
  <1>2. SetToSeq(S) \in [1 .. n -> S] /\ IsInjective(SetToSeq(S))
    BY <1>1 DEF SetToSeq
  <1>3. SetToSeq(S) \in Seq(S) /\ Len(SetToSeq(S)) = n
    BY <1>1, <1>2
  <1>4. SetToSeq(S) \in Injection(1 .. n, S)
    BY <1>2 DEF Injection
  <1>5. IsFiniteSet(1 .. n) /\ Cardinality(1 .. n) = n
    BY <1>1, FS_Interval
  <1>6. SetToSeq(S) \in Surjection(1 .. n, S)
    BY <1>4, <1>5, FS_Injection
  <1> QED BY <1>2, <1>3, <1>6 DEF Surjection, Contains

(* fftask_post() of several tasks adds those that are not queued. *)
LEMMA AllPostedTasks ==
  ASSUME NEW T, NEW queue \in Seq(T), IsInjective(queue), NEW tasks \in SUBSET T, IsFiniteSet(tasks)
  PROVE  /\ AllPosted(queue, tasks) \in Seq(T) /\ IsInjective(AllPosted(queue, tasks))
         /\ \A x : Contains(AllPosted(queue, tasks), x) <=> Contains(queue, x) \/ x \in tasks
  <1> DEFINE S == tasks \ Range(queue)
             new == SetToSeq(S)
             all == queue \o new
  <1>1. S \subseteq T
    OBVIOUS
  <1>2. IsFiniteSet(S)
    BY FS_Subset
  <1>3. new \in Seq(S) /\ IsInjective(new) /\ \A x : Contains(new, x) <=> x \in S
    BY <1>2, ListedOnce
  <1>4. new \in Seq(T)
    BY <1>1, <1>3, SeqMonotonic
  <1> HIDE DEF new
  <1>5. Len(queue) \in Nat /\ Len(new) \in Nat /\ DOMAIN queue = 1 .. Len(queue) /\ DOMAIN new = 1 .. Len(new)
    BY <1>4, LenProperties
  <1>6. all \in Seq(T) /\ Len(all) = Len(queue) + Len(new)
        /\ \A i \in 1 .. Len(queue) + Len(new) :
               all[i] = IF i <= Len(queue) THEN queue[i] ELSE new[i - Len(queue)]
    BY <1>4, ConcatProperties
  <1>7. DOMAIN all = 1 .. Len(queue) + Len(new)
    BY <1>6, LenProperties
  <1> HIDE DEF all
  <1>8. \A i \in 1 .. Len(queue), j \in 1 .. Len(new) : queue[i] # new[j]
    <2>1. \A j \in 1 .. Len(new) : new[j] \in S
      BY <1>3 DEF Contains
    <2>2. \A i \in 1 .. Len(queue) : queue[i] \in Range(queue)
      BY <1>5 DEF Range
    <2> QED BY <2>1, <2>2
  <1>9. IsInjective(all)
    <2> SUFFICES ASSUME NEW i \in 1 .. Len(queue) + Len(new), NEW j \in 1 .. Len(queue) + Len(new),
                        all[i] = all[j]
                 PROVE  i = j
      BY <1>7 DEF IsInjective
    <2>1. CASE i <= Len(queue) /\ j <= Len(queue)
      BY <2>1, <1>5, <1>6 DEF IsInjective
    <2>2. CASE i <= Len(queue) /\ j > Len(queue)
      BY <2>2, <1>5, <1>6, <1>8
    <2>3. CASE i > Len(queue) /\ j <= Len(queue)
      BY <2>3, <1>5, <1>6, <1>8
    <2>4. CASE i > Len(queue) /\ j > Len(queue)
      <3>1. i - Len(queue) \in 1 .. Len(new) /\ j - Len(queue) \in 1 .. Len(new)
            /\ new[i - Len(queue)] = new[j - Len(queue)]
        BY <2>4, <1>5, <1>6
      <3>2. i - Len(queue) = j - Len(queue)
        BY <3>1, <1>3, <1>5 DEF IsInjective
      <3> QED BY <3>2, <1>5
    <2> QED BY <2>1, <2>2, <2>3, <2>4, <1>5
  <1>10. ASSUME NEW x PROVE Contains(all, x) <=> Contains(queue, x) \/ Contains(new, x)
    <2>1. ASSUME Contains(all, x) PROVE Contains(queue, x) \/ Contains(new, x)
      <3>1. PICK i \in 1 .. Len(queue) + Len(new) : all[i] = x
        BY <2>1, <1>6 DEF Contains
      <3>2. CASE i <= Len(queue)
        BY <3>1, <3>2, <1>5, <1>6 DEF Contains
      <3>3. CASE i > Len(queue)
        <4>1. i - Len(queue) \in 1 .. Len(new) /\ new[i - Len(queue)] = x
          BY <3>1, <3>3, <1>5, <1>6
        <4> QED BY <4>1 DEF Contains
      <3> QED BY <3>1, <3>2, <3>3, <1>5
    <2>2. ASSUME Contains(queue, x) PROVE Contains(all, x)
      BY <2>2, <1>5, <1>6 DEF Contains
    <2>3. ASSUME Contains(new, x) PROVE Contains(all, x)
      <3>1. PICK j \in 1 .. Len(new) : new[j] = x
        BY <2>3 DEF Contains
      <3>2. Len(queue) + j \in 1 .. Len(queue) + Len(new) /\ all[Len(queue) + j] = x
        BY <3>1, <1>5, <1>6
      <3> QED BY <3>2, <1>6 DEF Contains
    <2> QED BY <2>1, <2>2, <2>3
  <1>11. ASSUME NEW x PROVE x \in Range(queue) <=> Contains(queue, x)
    BY <1>5 DEF Range, Contains
  <1>12. AllPosted(queue, tasks) = all
    BY DEF AllPosted, all, new
  <1> QED BY <1>3, <1>6, <1>9, <1>10, <1>11, <1>12

-----------------------------------------------------------------------------

(* A track has a task, runs, or has an operation outside that will wake it. *)
Awake(t) == Contains(q, <<"tsk", t>>) \/ run.t = t \/ op[t]

NotEnded == {t \in Inputs : mi[t].at # "end"}
Filled == {t \in Opened : mi[t].filled}

(* Before mixer-out is open only its track has run. *)
NewOK ==
    mx.at = "new" =>
        /\ \A t \in Inputs : mi[t].at = "new"
        /\ \A t \in Tracks : ~op[t]
        /\ outpos = 0 /\ ~mx.clear /\ ~mx.err /\ mx.first
        /\ \/ run = NoTrack /\ q # <<>> /\ Head(q) = <<"tsk", Out>>
           \/ run.t = Out /\ run.len = Len(q)

(* A track is freed only after it has failed or ended. *)
FreeOK ==
    \A t \in Inputs : Contains(q, <<"free", t>>) => mi[t].at \in {"failed", "end"}

(* A track has one reason to be awake; the device is waited for only while a block
   is played, or at the end. *)
AwakeOnce ==
    /\ \A t \in Tracks :
           /\ run.t = t => ~Contains(q, <<"tsk", t>>) /\ ~op[t]
           /\ op[t] => ~Contains(q, <<"tsk", t>>)
    /\ op[Out] => mx.at \in {"play", "done"}

(* No input is missing in trk_count, and filled is right. *)
Counted ==
    /\ mx.trk_count >= Cardinality(NotEnded)
    /\ mx.filled = Cardinality(Filled)

(* What an input has given is what was passed on and its part of the block. *)
InStep ==
    \A t \in Inputs :
        /\ mi[t].at = "new" =>
               mi[t].off = 0 /\ mi[t].done = 0 /\ ~mi[t].filled /\ ~mi[t].more /\ outpos = 0
        /\ mi[t].at \in {"open", "failed"} =>
               /\ mi[t].done = outpos + mi[t].off
               /\ mi[t].off <= mx.len
               /\ mi[t].filled <=> mi[t].off = Size
               /\ mi[t].more => mi[t].filled
        /\ mi[t].at = "failed" => ~mi[t].filled

(* An input that has filled the block sleeps until mixer-out wakes it: if it ran, it
   would be counted twice. *)
FullSleeps ==
    \A t \in Inputs : mi[t].at = "open" /\ mi[t].off = Size => mi[t].more /\ ~Awake(t)

(* A block that is passed on is ready and stays so; mixer-out looks at one only if
   it is. *)
ClearOK ==
    /\ mx.at = "play" => mx.clear
    /\ mx.clear => Ready(mx)
    /\ mx.at = "mix" /\ ~mx.err /\ ~mx.first /\ ~mx.clear /\ Awake(Out) => Ready(mx)
    /\ mx.at = "done" => mx.trk_count = 0 /\ mx.len = 0

(* The longest input is the length of the mix. *)
Longest ==
    /\ \A t \in Inputs : mi[t].done <= outpos + mx.len
    /\ outpos + mx.len # 0 => \E t \in Inputs : mi[t].done = outpos + mx.len

SInv ==
    NewOK /\ FreeOK /\ AwakeOnce /\ Counted /\ InStep /\ FullSleeps /\ ClearOK /\ Longest
IInv == TypeOK /\ (mx.at # "end" => SInv)

-----------------------------------------------------------------------------
Tasks == {"tsk", "free"} \X Tracks

LEMMA Posting ==
  ASSUME NEW queue \in Seq(Tasks), IsInjective(queue), NEW task \in Tasks
  PROVE  /\ Posted(queue, task) \in Seq(Tasks) /\ IsInjective(Posted(queue, task))
         /\ \A x : Contains(Posted(queue, task), x) <=> Contains(queue, x) \/ x = task
  BY PostedTask

LEMMA WokenTasks ==
  ASSUME NEW queue \in Seq(Tasks), IsInjective(queue), NEW ts \in SUBSET Tracks, IsFiniteSet(Tracks)
  PROVE  /\ AllWoken(queue, ts) \in Seq(Tasks) /\ IsInjective(AllWoken(queue, ts))
         /\ \A x : Contains(AllWoken(queue, ts), x) <=>
                       Contains(queue, x) \/ \E t \in ts : x = <<"tsk", t>>
  <1> DEFINE R == {<<"tsk", t>> : t \in ts}
             f == [t \in ts |-> <<"tsk", t>>]
  <1>1. R \in SUBSET Tasks
    BY DEF Tasks
  <1>2. IsFiniteSet(R)
    <2>1. IsFiniteSet(ts)
      BY FS_Subset
    <2>2. f \in Surjection(ts, R)
      BY DEF Surjection
    <2> QED BY <2>1, <2>2, FS_Surjection
  <1>3. AllWoken(queue, ts) = AllPosted(queue, R)
    BY DEF AllWoken
  <1>4. \A x : x \in R <=> \E t \in ts : x = <<"tsk", t>>
    OBVIOUS
  <1> HIDE DEF R
  <1> QED BY <1>1, <1>2, <1>3, <1>4, AllPostedTasks

LEMMA InputsFinite ==
  /\ IsFiniteSet(Inputs) /\ IsFiniteSet(Tracks) /\ Cardinality(Inputs) = Len(Items)
  /\ Len(Items) \in Nat
  <1>1. Items \in [1 .. Len(Items) -> Inputs] /\ Len(Items) \in Nat
    BY MixerAssumption, LenProperties
  <1>2. Items \in Injection(1 .. Len(Items), Inputs) /\ Items \in Surjection(1 .. Len(Items), Inputs)
    BY <1>1, MixerAssumption DEF Injection, Surjection, Inputs, Range
  <1>3. IsFiniteSet(1 .. Len(Items)) /\ Cardinality(1 .. Len(Items)) = Len(Items)
    <2> DEFINE n == Len(Items)
    <2>1. n \in Nat
      BY <1>1
    <2> HIDE DEF n
    <2>2. IsFiniteSet(1 .. n) /\ Cardinality(1 .. n) = n
      BY <2>1, FS_Interval
    <2> QED BY <2>2 DEF n
  <1>4. ExistsBijection(1 .. Len(Items), Inputs)
    BY <1>2 DEF ExistsBijection, Bijection
  <1>5. IsFiniteSet(Inputs) /\ Cardinality(Inputs) = Len(Items)
    BY <1>3, <1>4, FS_Bijection
  <1> QED BY <1>1, <1>5, FS_AddElement DEF Tracks

-----------------------------------------------------------------------------
(* The counted sets are finite. *)
LEMMA Counts ==
  ASSUME TypeOK
  PROVE  /\ IsFiniteSet(NotEnded) /\ IsFiniteSet(Filled) /\ Filled \subseteq NotEnded
         /\ Cardinality(NotEnded) \in Nat /\ Cardinality(Filled) \in Nat
         /\ Cardinality(Filled) <= Cardinality(NotEnded)
         /\ Cardinality(Filled) = Cardinality(NotEnded) => Filled = NotEnded
  <1>1. NotEnded \in SUBSET Inputs /\ Filled \in SUBSET NotEnded
    BY DEF NotEnded, Filled, Opened
  <1>2. IsFiniteSet(NotEnded)
    BY <1>1, InputsFinite, FS_Subset
  <1>3. IsFiniteSet(Filled) /\ Cardinality(Filled) <= Cardinality(NotEnded)
        /\ (Cardinality(NotEnded) = Cardinality(Filled) => Filled = NotEnded)
    BY <1>1, <1>2, FS_Subset
  <1> QED BY <1>1, <1>2, <1>3, FS_CardinalityType

(* When the block is ready, all inputs that have not ended have filled it and
   sleep: nothing happens until mixer-out goes on. *)
LEMMA ReadyMeansFull ==
  ASSUME TypeOK, SInv, Ready(mx)
  PROVE  \A t \in Inputs : mi[t].at # "end" =>
             mi[t].at = "open" /\ mi[t].filled /\ mi[t].off = Size /\ mi[t].more /\ ~Awake(t)
  <1>1. Filled = NotEnded
    <2>1. mx.filled = mx.trk_count /\ mx.trk_count >= Cardinality(NotEnded) /\ mx.filled = Cardinality(Filled)
      BY DEF SInv, Ready, Counted
    <2>2. mx.filled \in Nat
      BY DEF TypeOK
    <2> QED BY <2>1, <2>2, Counts
  <1>2. \A t \in Inputs : mi[t].at # "end" => t \in Filled
    BY <1>1 DEF NotEnded
  <1>3. \A t \in Inputs : t \in Filled => mi[t].filled /\ mi[t].at \in {"open", "failed"}
    BY DEF Filled, Opened
  <1> QED BY <1>2, <1>3 DEF SInv, InStep, FullSleeps

(* Mixer-out waits for the device only with a ready block, or at the end. *)
LEMMA PlayedIsReady ==
  ASSUME TypeOK, SInv, op[Out] \/ mx.at \in {"play", "done"} \/ mx.clear \/ mx.trk_count = 0
  PROVE  Ready(mx)
  <1>1. CASE mx.clear
    BY <1>1 DEF SInv, ClearOK
  <1>2. CASE mx.trk_count = 0
    <2>1. 0 >= Cardinality(NotEnded) /\ mx.filled = Cardinality(Filled)
      BY <1>2 DEF SInv, Counted
    <2>2. mx.filled = 0
      BY <2>1, Counts
    <2> QED BY <1>2, <2>2 DEF Ready
  <1> QED BY <1>1, <1>2 DEF SInv, ClearOK, AwakeOnce

(* What of an input is counted and compared. *)
Same(t) ==
    /\ mi'[t].at = mi[t].at /\ mi'[t].off = mi[t].off /\ mi'[t].filled = mi[t].filled
    /\ mi'[t].more = mi[t].more /\ mi'[t].done = mi[t].done

LEMMA SameCounts ==
  ASSUME \A t \in Inputs : Same(t)
  PROVE  NotEnded' = NotEnded /\ Filled' = Filled /\ Opened' = Opened
  BY DEF Same, NotEnded, Filled, Opened

(* A step that only makes tracks run or wait. *)
LEMMA QuietStep ==
  ASSUME SInv, mx' = mx, outpos' = outpos, \A t \in Inputs : Same(t),
         \A t \in Tracks : Awake(t)' => Awake(t)
  PROVE  (Counted /\ InStep /\ FullSleeps /\ ClearOK /\ Longest)'
  <1>0. Counted /\ InStep /\ FullSleeps /\ ClearOK /\ Longest
    BY DEF SInv
  <1>1. Counted'
    BY <1>0, SameCounts DEF Counted
  <1>2. InStep'
    BY <1>0 DEF InStep, Same
  <1>3. FullSleeps'
    BY <1>0 DEF FullSleeps, Same, Tracks
  <1>4. ClearOK'
    BY <1>0 DEF ClearOK, Tracks, Ready
  <1>5. Longest'
    BY <1>0 DEF Longest, Same
  <1> QED BY <1>1, <1>2, <1>3, <1>4, <1>5

LEMMA NoneIsNoTrack == "none" \notin Tracks /\ Out \in Tracks /\ Inputs \subseteq Tracks /\ Out \notin Inputs
  BY MixerAssumption DEF Tracks

LEMMA QueueType == TypeOK => q \in Seq(Tasks) /\ IsInjective(q)
  BY DEF TypeOK, Tasks

InputType == [at : {"new", "open", "failed", "end"}, left : 0 .. MaxLength,
              have : 0 .. MaxLength, last : BOOLEAN, off : 0 .. Size,
              more : BOOLEAN, filled : BOOLEAN, done : Nat]

LEMMA InputTyped == TypeOK => mi \in [Inputs -> InputType]
  BY DEF TypeOK, InputType

LEMMA AtTyped ==
  ASSUME NEW i \in InputType, NEW at \in {"new", "open", "failed", "end"}
  PROVE  [i EXCEPT !.at = at] \in InputType
  BY DEF InputType

(* One track less. *)
LEMMA OneLess ==
  ASSUME TypeOK, NEW t \in Inputs
  PROVE  /\ Cardinality(NotEnded \ {t}) \in Nat /\ Cardinality(NotEnded) \in Nat
         /\ Cardinality(NotEnded \ {t}) =
                IF mi[t].at # "end" THEN Cardinality(NotEnded) - 1 ELSE Cardinality(NotEnded)
         /\ Cardinality(NotEnded \ {t}) <= Cardinality(NotEnded)
  <1>1. IsFiniteSet(NotEnded) /\ Cardinality(NotEnded) \in Nat
    BY Counts
  <1>2. /\ IsFiniteSet(NotEnded \ {t})
        /\ Cardinality(NotEnded \ {t}) =
                IF t \in NotEnded THEN Cardinality(NotEnded) - 1 ELSE Cardinality(NotEnded)
    BY <1>1, FS_RemoveElement
  <1>3. Cardinality(NotEnded \ {t}) \in Nat
    BY <1>2, FS_CardinalityType
  <1>4. t \in NotEnded <=> mi[t].at # "end"
    BY DEF NotEnded
  <1> HIDE DEF NotEnded
  <1> QED BY <1>1, <1>2, <1>3, <1>4

LEMMA InitIInv == Init => IInv
  <1> SUFFICES ASSUME Init PROVE IInv
    OBVIOUS
  <1> USE MixerAssumption, NoneIsNoTrack
  <1> DEFINE rest == [i \in DOMAIN Items |-> <<"tsk", Items[i]>>]
             first == <<<<"tsk", Out>>>>
  <1>1. Items \in Seq(Inputs) /\ DOMAIN Items = 1 .. Len(Items) /\ Len(Items) \in Nat
        /\ \A i \in 1 .. Len(Items) : Items[i] \in Inputs
    BY LenProperties, ElementOfSeq
  <1>2. /\ rest \in Seq(Tasks) /\ Len(rest) = Len(Items)
        /\ \A i \in 1 .. Len(Items) : rest[i] = <<"tsk", Items[i]>>
    BY <1>1 DEF Tasks
  <1>3. first \in Seq(Tasks) /\ Len(first) = 1 /\ first[1] = <<"tsk", Out>>
    BY DEF Tasks
  <1>4. q = first \o rest
    BY DEF Init
  <1> HIDE DEF rest, first
  <1>5. q \in Seq(Tasks) /\ Len(q) = 1 + Len(Items)
        /\ \A i \in 1 .. 1 + Len(Items) : q[i] = IF i <= 1 THEN first[i] ELSE rest[i - 1]
    <2>1. /\ q \in Seq(Tasks) /\ Len(q) = Len(first) + Len(rest)
          /\ \A i \in 1 .. Len(first) + Len(rest) :
                 q[i] = IF i <= Len(first) THEN first[i] ELSE rest[i - Len(first)]
      <3>1. first \in Seq(Tasks) /\ rest \in Seq(Tasks)
        BY <1>2, <1>3
      <3>2. /\ first \o rest \in Seq(Tasks) /\ Len(first \o rest) = Len(first) + Len(rest)
            /\ \A i \in 1 .. Len(first) + Len(rest) :
                 (first \o rest)[i] = IF i <= Len(first) THEN first[i] ELSE rest[i - Len(first)]
        BY ONLY <3>1, ConcatProperties
      <3> QED BY ONLY <3>2, <1>4
    <2> QED BY <2>1, <1>2, <1>3
  <1>6. q[1] = <<"tsk", Out>> /\ \A i \in 2 .. 1 + Len(Items) : q[i] = <<"tsk", Items[i - 1]>>
    <2>1. q[1] = <<"tsk", Out>>
      BY <1>1, <1>3, <1>5
    <2>2. ASSUME NEW i \in 2 .. 1 + Len(Items) PROVE q[i] = <<"tsk", Items[i - 1]>>
      <3>1. i \in 1 .. 1 + Len(Items) /\ ~(i <= 1) /\ i - 1 \in 1 .. Len(Items)
        BY <1>1
      <3>2. q[i] = rest[i - 1]
        BY <3>1, <1>5
      <3>3. rest[i - 1] = <<"tsk", Items[i - 1]>>
        BY <3>1, <1>2
      <3> QED BY <3>2, <3>3
    <2> QED BY <2>1, <2>2
  <1>7. DOMAIN q = 1 .. 1 + Len(Items)
    BY <1>5, LenProperties
  <1>8. IsInjective(q)
    <2> SUFFICES ASSUME NEW i \in 1 .. 1 + Len(Items), NEW j \in 1 .. 1 + Len(Items), q[i] = q[j]
                 PROVE  i = j
      BY <1>7 DEF IsInjective
    <2>1. CASE i = 1 \/ j = 1
      BY <2>1, <1>1, <1>6
    <2>2. CASE i # 1 /\ j # 1
      <3>1. i - 1 \in 1 .. Len(Items) /\ j - 1 \in 1 .. Len(Items) /\ Items[i - 1] = Items[j - 1]
        BY <2>2, <1>1, <1>6
      <3>2. i - 1 = j - 1
        BY <3>1, <1>1 DEF IsInjective
      <3> QED BY <3>2, <1>1
    <2> QED BY <2>1, <2>2
  <1>9. \A t \in Inputs : ~Contains(q, <<"free", t>>)
    BY <1>1, <1>5, <1>6 DEF Contains
  <1>10. q # <<>> /\ Head(q) = <<"tsk", Out>>
    <2>1. q # <<>>
      BY <1>5, <1>1, EmptySeq
    <2> QED BY <2>1, <1>6, <1>5
  <1>11. PICK length \in [Inputs -> 0 .. MaxLength] :
           mi = [t \in Inputs |-> [at |-> "new", left |-> length[t], have |-> 0, last |-> FALSE,
                                   off |-> 0, more |-> FALSE, filled |-> FALSE, done |-> 0]]
    BY DEF Init
  <1>12. /\ mx = [at |-> "new", trk_count |-> Len(Items), filled |-> 0, len |-> 0,
                  first |-> TRUE, clear |-> FALSE, err |-> FALSE]
         /\ op = [t \in Tracks |-> FALSE] /\ run = NoTrack /\ outpos = 0
    BY DEF Init
  <1>13. TypeOK
    BY <1>1, <1>5, <1>8, <1>11, <1>12 DEF TypeOK, Tasks
  <1>14. NewOK
    BY <1>10, <1>11, <1>12 DEF NewOK
  <1>15. FreeOK
    BY <1>9 DEF FreeOK
  <1>16. AwakeOnce
    BY <1>12 DEF AwakeOnce, NoTrack
  <1>17. Counted
    <2>1. NotEnded = Inputs /\ Filled = {}
      BY <1>11 DEF NotEnded, Filled, Opened
    <2> QED BY <2>1, <1>12, InputsFinite, FS_EmptySet DEF Counted
  <1>18. InStep /\ FullSleeps /\ ClearOK /\ Longest
    BY <1>11, <1>12 DEF InStep, FullSleeps, ClearOK, Longest
  <1> QED BY <1>13, <1>14, <1>15, <1>16, <1>17, <1>18 DEF IInv, SInv

LEMMA MinMax ==
  ASSUME NEW a \in Nat, NEW b \in Nat
  PROVE  /\ Min({a, b}) = IF a <= b THEN a ELSE b
         /\ Max({a, b}) = IF a <= b THEN b ELSE a
  <1>1. \E x \in {a, b} : \A y \in {a, b} : x =< y
    <2>1. CASE a <= b
      BY <2>1
    <2>2. CASE b <= a
      BY <2>2
    <2> QED BY <2>1, <2>2
  <1>2. \E x \in {a, b} : \A y \in {a, b} : x >= y
    <2>1. CASE a <= b
      BY <2>1
    <2>2. CASE b <= a
      BY <2>2
    <2> QED BY <2>1, <2>2
  <1>3. Min({a, b}) \in {a, b} /\ \A y \in {a, b} : Min({a, b}) =< y
    BY <1>1 DEF Min
  <1>4. Max({a, b}) \in {a, b} /\ \A y \in {a, b} : Max({a, b}) >= y
    BY <1>2 DEF Max
  <1> QED BY <1>3, <1>4

-----------------------------------------------------------------------------
(* One lemma for each action, or two: what it keeps of the invariant. *)

LEMMA RunStep == IInv /\ Run => IInv'
  <1> SUFFICES ASSUME IInv, Run PROVE IInv'
    OBVIOUS
  <1> USE NoneIsNoTrack
  <1>1. q \in Seq(Tasks) /\ IsInjective(q) /\ q # <<>> /\ run = NoTrack
    BY QueueType DEF IInv, Run
  <1>2. /\ q' \in Seq(Tasks) /\ IsInjective(q') /\ Head(q) \in Tasks /\ Contains(q, Head(q))
        /\ \A x : Contains(q', x) <=> Contains(q, x) /\ x # Head(q)
    BY <1>1, TakenTask DEF Run
  <1>3. Len(q') \in Nat
    BY <1>2, LenProperties
  <1>4. run'.t \in Tracks /\ run'.len = Len(q') /\ run' \in [t : Tracks, len : Nat]
        /\ Head(q) = <<"tsk", run'.t>>
    BY <1>2, <1>3 DEF Run, Tasks
  <1>5. UNCHANGED <<op, mi, mx, outpos>>
    BY DEF Run
  <1>6. TypeOK'
    BY <1>2, <1>4, <1>5 DEF IInv, TypeOK, Tasks
  <1>7. ASSUME SInv PROVE SInv'
    <2>1. NewOK'
      BY <1>1, <1>4, <1>5, <1>7 DEF SInv, NewOK, NoTrack
    <2>2. FreeOK'
      BY <1>2, <1>5, <1>7 DEF SInv, FreeOK
    <2>3. AwakeOnce'
      BY <1>2, <1>4, <1>5, <1>7 DEF SInv, AwakeOnce
    <2>4. \A t \in Tracks : Awake(t)' => Awake(t)
      BY <1>2, <1>4, <1>5 DEF Awake
    <2> QED BY <1>5, <1>7, <2>1, <2>2, <2>3, <2>4, QuietStep DEF SInv, Same
  <1> QED BY <1>5, <1>6, <1>7 DEF IInv

LEMMA YieldStep == IInv /\ Yield => IInv'
  <1> SUFFICES ASSUME IInv, Yield PROVE IInv'
    OBVIOUS
  <1> USE NoneIsNoTrack
  <1>1. q \in Seq(Tasks) /\ IsInjective(q) /\ run.t \in Tracks /\ <<"tsk", run.t>> \in Tasks
    BY QueueType DEF IInv, TypeOK, Yield, Tasks
  <1>2. /\ q' \in Seq(Tasks) /\ IsInjective(q')
        /\ \A x : Contains(q', x) <=> Contains(q, x) \/ x = <<"tsk", run.t>>
    BY <1>1, Posting DEF Yield, Woken
  <1>3. run' = NoTrack /\ UNCHANGED <<op, mi, mx, outpos>>
    BY DEF Yield
  <1>4. TypeOK'
    BY <1>2, <1>3 DEF IInv, TypeOK, Tasks
  <1>5. ASSUME SInv PROVE SInv'
    <2>1. NewOK'
      BY <1>1, <1>3, <1>5 DEF SInv, NewOK, NoTrack, Yield
    <2>2. FreeOK'
      BY <1>2, <1>3, <1>5 DEF SInv, FreeOK
    <2>3. AwakeOnce'
      BY <1>2, <1>3, <1>5 DEF SInv, AwakeOnce, NoTrack
    <2>4. \A t \in Tracks : Awake(t)' => Awake(t)
      BY <1>2, <1>3 DEF Awake, NoTrack
    <2> QED BY <1>3, <1>5, <2>1, <2>2, <2>3, <2>4, QuietStep DEF SInv, Same
  <1> QED BY <1>3, <1>4, <1>5 DEF IInv

LEMMA CompleteStep == ASSUME NEW t \in Tracks PROVE IInv /\ Complete(t) => IInv'
  <1> SUFFICES ASSUME IInv, Complete(t) PROVE IInv'
    OBVIOUS
  <1> USE NoneIsNoTrack
  <1>1. q \in Seq(Tasks) /\ IsInjective(q) /\ <<"tsk", t>> \in Tasks
    BY QueueType DEF IInv, Tasks
  <1>2. /\ q' \in Seq(Tasks) /\ IsInjective(q')
        /\ \A x : Contains(q', x) <=> Contains(q, x) \/ x = <<"tsk", t>>
    BY <1>1, Posting DEF Complete, Woken
  <1>3. /\ op[t] /\ op \in [Tracks -> BOOLEAN] /\ op' = [op EXCEPT ![t] = FALSE]
        /\ UNCHANGED <<run, mi, mx, outpos>>
    BY DEF Complete, IInv, TypeOK
  <1>4. TypeOK'
    BY <1>2, <1>3 DEF IInv, TypeOK, Tasks
  <1>5. ASSUME SInv PROVE SInv'
    <2>1. NewOK'
      BY <1>3, <1>5 DEF SInv, NewOK
    <2>2. FreeOK'
      BY <1>2, <1>3, <1>5 DEF SInv, FreeOK
    <2>3. AwakeOnce'
      BY <1>2, <1>3, <1>5 DEF SInv, AwakeOnce
    <2>4. \A s \in Tracks : Awake(s)' => Awake(s)
      BY <1>2, <1>3 DEF Awake
    <2> QED BY <1>3, <1>5, <2>1, <2>2, <2>3, <2>4, QuietStep DEF SInv, Same
  <1> QED BY <1>3, <1>4, <1>5 DEF IInv

LEMMA PlayWaitsStep == IInv /\ PlayWaits => IInv'
  <1> SUFFICES ASSUME IInv, PlayWaits PROVE IInv'
    OBVIOUS
  <1> USE NoneIsNoTrack
  <1>1. /\ run.t = Out /\ mx.at \in {"play", "done"} /\ run' = NoTrack
        /\ op \in [Tracks -> BOOLEAN] /\ op' = [op EXCEPT ![Out] = TRUE]
        /\ UNCHANGED <<q, mi, mx, outpos>>
    BY DEF PlayWaits, Running, Async, IInv, TypeOK
  <1>2. TypeOK'
    BY <1>1 DEF IInv, TypeOK
  <1>3. ASSUME SInv PROVE SInv'
    <2>1. NewOK' /\ FreeOK' /\ AwakeOnce'
      BY <1>1, <1>3 DEF SInv, NewOK, FreeOK, AwakeOnce, NoTrack
    <2>2. \A s \in Tracks : Awake(s)' => Awake(s)
      BY <1>1 DEF Awake, NoTrack
    <2> QED BY <1>1, <1>3, <2>1, <2>2, QuietStep DEF SInv, Same
  <1> QED BY <1>1, <1>2, <1>3 DEF IInv

LEMMA GetStep == ASSUME NEW t \in Inputs PROVE IInv /\ Get(t) => IInv'
  <1> SUFFICES ASSUME IInv, Get(t) PROVE IInv'
    OBVIOUS
  <1> USE NoneIsNoTrack
  <1>0. TypeOK /\ run.t = t /\ mi[t].at \in {"new", "open"} /\ UNCHANGED <<mx, outpos>>
    BY DEF IInv, Get, Running
  <1>1. CASE Async(t) /\ UNCHANGED <<q, mi>>
    <2>1. run' = NoTrack /\ op \in [Tracks -> BOOLEAN] /\ op' = [op EXCEPT ![t] = TRUE]
      BY <1>0, <1>1 DEF Async, TypeOK
    <2>2. TypeOK'
      BY <1>0, <1>1, <2>1 DEF TypeOK
    <2>3. ASSUME SInv PROVE SInv'
      <3>1. NewOK' /\ FreeOK' /\ AwakeOnce'
        BY <1>0, <1>1, <2>1, <2>3 DEF SInv, NewOK, FreeOK, AwakeOnce, NoTrack
      <3>2. \A s \in Tracks : Awake(s)' => Awake(s)
        BY <1>0, <1>1, <2>1 DEF Awake, NoTrack
      <3> QED BY <1>0, <1>1, <2>3, <3>1, <3>2, QuietStep DEF SInv, Same
    <2> QED BY <1>0, <2>2, <2>3 DEF IInv
  <1>2. ASSUME NEW n \in 0 .. mi[t].left, NEW last \in BOOLEAN,
               mi' = [mi EXCEPT ![t].have = n, ![t].left = @ - n, ![t].last = last],
               UNCHANGED <<q, run, op>>
        PROVE  IInv'
    <2>1. TypeOK'
      <3> DEFINE i == [mi[t] EXCEPT !.have = n, !.left = @ - n, !.last = last]
      <3>1. i \in InputType
        <4>1. mi[t] \in InputType
          BY <1>0, InputTyped
        <4>2. mi[t].left - n \in 0 .. MaxLength /\ n \in 0 .. MaxLength
          BY <4>1, MixerAssumption DEF InputType
        <4> QED BY <4>1, <4>2 DEF InputType
      <3>2. mi' = [mi EXCEPT ![t] = i]
        BY <1>0, <1>2 DEF TypeOK
      <3>3. mi' \in [Inputs -> InputType]
        BY <1>0, <3>1, <3>2, InputTyped
      <3> QED BY <1>0, <1>2, <3>3 DEF TypeOK, InputType
    <2>2. \A s \in Inputs : Same(s)
      BY <1>0, <1>2 DEF Same, TypeOK
    <2>3. ASSUME SInv PROVE SInv'
      <3>1. FreeOK' /\ AwakeOnce'
        BY <1>0, <1>2, <2>2, <2>3 DEF SInv, FreeOK, AwakeOnce, Same
      <3>11. NewOK'
        <4>1. NewOK
          BY <2>3 DEF SInv
        <4> QED BY <4>1, <1>0, <1>2, <2>2 DEF NewOK, Same
      <3>2. \A s \in Tracks : Awake(s)' => Awake(s)
        BY <1>2 DEF Awake
      <3> QED BY <1>0, <2>2, <2>3, <3>1, <3>11, <3>2, QuietStep DEF SInv
    <2> QED BY <1>0, <2>1, <2>3 DEF IInv
  <1>3. ASSUME mi' = [mi EXCEPT ![t].at = IF @ = "new" THEN "end" ELSE "failed"],
               q' = Posted(q, <<"free", t>>), run' = NoTrack, UNCHANGED op
        PROVE  IInv'
    <2>1. q \in Seq(Tasks) /\ IsInjective(q) /\ <<"free", t>> \in Tasks
      BY QueueType, <1>0 DEF Tasks
    <2>2. /\ q' \in Seq(Tasks) /\ IsInjective(q')
          /\ \A x : Contains(q', x) <=> Contains(q, x) \/ x = <<"free", t>>
      BY <2>1, <1>3, Posting
    <2>3. /\ \A s \in Inputs : s # t => mi'[s] = mi[s]
          /\ mi'[t].at = IF mi[t].at = "new" THEN "end" ELSE "failed"
          /\ mi'[t].off = mi[t].off /\ mi'[t].filled = mi[t].filled
          /\ mi'[t].more = mi[t].more /\ mi'[t].done = mi[t].done
      BY <1>0, <1>3 DEF TypeOK
    <2>4. TypeOK'
      <3>1. mi' = [mi EXCEPT ![t] = [mi[t] EXCEPT !.at = IF @ = "new" THEN "end" ELSE "failed"]]
        BY <1>0, <1>3 DEF TypeOK
      <3>2. mi' \in [Inputs -> InputType]
        BY <1>0, <3>1, InputTyped, AtTyped
      <3> QED BY <1>0, <1>3, <2>2, <3>2 DEF TypeOK, Tasks, InputType
    <2>5. ASSUME SInv PROVE SInv'
      <3>0. mi[t].at = "open" => mi[t].off # Size /\ ~mi[t].filled
        BY <1>0, <2>5 DEF SInv, FullSleeps, InStep, Awake
      <3>1. NewOK' /\ FreeOK' /\ AwakeOnce'
        BY <1>0, <1>3, <2>2, <2>3, <2>5 DEF SInv, NewOK, FreeOK, AwakeOnce, NoTrack
      <3>2. \A s \in Tracks : Awake(s)' => Awake(s)
        BY <1>3, <2>2 DEF Awake, NoTrack
      <3>3. Counted'
        <4>1. Filled' = Filled
          BY <1>0, <2>3, <3>0 DEF Filled, Opened
        <4>2. NotEnded' = NotEnded \/ NotEnded' = NotEnded \ {t}
          BY <1>0, <2>3 DEF NotEnded
        <4>3. Cardinality(NotEnded \ {t}) <= Cardinality(NotEnded) /\ Cardinality(NotEnded \ {t}) \in Nat
          BY <1>0, OneLess
        <4>4. Cardinality(NotEnded) \in Nat /\ mx.trk_count \in Nat
          BY <1>0, OneLess DEF TypeOK
        <4> QED BY <1>0, <2>5, <4>1, <4>2, <4>3, <4>4 DEF SInv, Counted
      <3>4. InStep'
        BY <1>0, <2>3, <2>5, <3>0 DEF SInv, InStep
      <3>5. FullSleeps'
        BY <1>0, <2>3, <2>5, <3>2 DEF SInv, FullSleeps
      <3>6. ClearOK'
        BY <1>0, <2>5, <3>2 DEF SInv, ClearOK, Ready
      <3>7. Longest'
        <4>1. \A s \in Inputs : mi'[s].done = mi[s].done
          BY <2>3
        <4> QED BY <1>0, <2>5, <4>1 DEF SInv, Longest
      <3> QED BY <3>1, <3>3, <3>4, <3>5, <3>6, <3>7 DEF SInv
    <2> QED BY <1>0, <2>4, <2>5 DEF IInv
  <1> QED BY <1>1, <1>2, <1>3 DEF Get

LEMMA OpenStep == ASSUME NEW t \in Inputs PROVE IInv /\ Open(t) => IInv'
  <1> SUFFICES ASSUME IInv, Open(t) PROVE IInv'
    OBVIOUS
  <1> USE NoneIsNoTrack
  <1>0. TypeOK /\ run.t = t /\ mi[t].at = "new" /\ UNCHANGED <<op, mx, outpos>>
    BY DEF IInv, Open, Running
  <1>1. CASE MixerExists /\ ~mx.err
    <2>1. mi' = [mi EXCEPT ![t].at = "open"] /\ UNCHANGED <<q, run>>
      BY <1>1 DEF Open
    <2>2. /\ \A s \in Inputs : s # t => mi'[s] = mi[s]
          /\ mi'[t].at = "open"
          /\ mi'[t].off = mi[t].off /\ mi'[t].filled = mi[t].filled
          /\ mi'[t].more = mi[t].more /\ mi'[t].done = mi[t].done
      BY <1>0, <2>1 DEF TypeOK
    <2>3. TypeOK'
      <3>1. mi' = [mi EXCEPT ![t] = [mi[t] EXCEPT !.at = "open"]]
        BY <1>0, <2>1 DEF TypeOK
      <3>2. mi' \in [Inputs -> InputType]
        BY <1>0, <3>1, InputTyped, AtTyped
      <3> QED BY <1>0, <2>1, <3>2 DEF TypeOK, Tasks, InputType
    <2>4. ASSUME SInv PROVE SInv'
      <3>0. mi[t].off = 0 /\ ~mi[t].filled /\ ~mi[t].more /\ mi[t].done = 0 /\ outpos = 0 /\ Size # 0
        BY <1>0, <2>4, MixerAssumption DEF SInv, InStep
      <3>1. NewOK' /\ FreeOK' /\ AwakeOnce'
        BY <1>0, <1>1, <2>1, <2>2, <2>4 DEF SInv, NewOK, FreeOK, AwakeOnce, MixerExists
      <3>2. \A s \in Tracks : Awake(s)' <=> Awake(s)
        BY <1>0, <2>1 DEF Awake
      <3>3. Counted'
        <4>1. Filled' = Filled /\ NotEnded' = NotEnded
          BY <1>0, <2>2, <3>0 DEF Filled, Opened, NotEnded
        <4> QED BY <1>0, <2>4, <4>1 DEF SInv, Counted
      <3>4. InStep'
        <4>1. mx.len \in Nat
          BY <1>0, MixerAssumption DEF TypeOK
        <4> QED BY <1>0, <2>2, <2>4, <3>0, <4>1 DEF SInv, InStep
      <3>5. FullSleeps'
        BY <1>0, <2>2, <2>4, <3>0, <3>2 DEF SInv, FullSleeps
      <3>6. ClearOK'
        BY <1>0, <2>4, <3>2 DEF SInv, ClearOK, Ready
      <3>7. Longest'
        <4>1. \A s \in Inputs : mi'[s].done = mi[s].done
          BY <2>2
        <4> QED BY <1>0, <2>4, <4>1 DEF SInv, Longest
      <3> QED BY <3>1, <3>3, <3>4, <3>5, <3>6, <3>7 DEF SInv
    <2> QED BY <1>0, <2>3, <2>4 DEF IInv
  <1>2. CASE ~(MixerExists /\ ~mx.err)
    <2>1. mi' = [mi EXCEPT ![t].at = "end"] /\ q' = Posted(q, <<"free", t>>) /\ run' = NoTrack
      BY <1>2 DEF Open
    <2>2. q \in Seq(Tasks) /\ IsInjective(q) /\ <<"free", t>> \in Tasks
      BY QueueType, <1>0 DEF Tasks
    <2>3. /\ q' \in Seq(Tasks) /\ IsInjective(q')
          /\ \A x : Contains(q', x) <=> Contains(q, x) \/ x = <<"free", t>>
      BY <2>1, <2>2, Posting
    <2>4. /\ \A s \in Inputs : s # t => mi'[s] = mi[s]
          /\ mi'[t].at = "end" /\ mi'[t].done = mi[t].done
      BY <1>0, <2>1 DEF TypeOK
    <2>5. TypeOK'
      <3>1. mi' = [mi EXCEPT ![t] = [mi[t] EXCEPT !.at = "end"]]
        BY <1>0, <2>1 DEF TypeOK
      <3>2. mi' \in [Inputs -> InputType]
        BY <1>0, <3>1, InputTyped, AtTyped
      <3> QED BY <1>0, <2>1, <2>3, <3>2 DEF TypeOK, Tasks, InputType
    <2>6. ASSUME SInv PROVE SInv'
      <3>1. NewOK'
        BY <1>0, <2>6 DEF SInv, NewOK, NoTrack
      <3>11. FreeOK'
        BY <2>3, <2>4, <2>6 DEF SInv, FreeOK
      <3>12. AwakeOnce'
        BY <1>0, <2>1, <2>3, <2>6 DEF SInv, AwakeOnce, NoTrack
      <3>2. \A s \in Tracks : Awake(s)' => Awake(s)
        BY <1>0, <2>1, <2>3 DEF Awake, NoTrack
      <3>3. Counted'
        <4>1. Filled' = Filled
          BY <1>0, <2>4 DEF Filled, Opened
        <4>2. NotEnded' = NotEnded \ {t}
          BY <1>0, <2>4 DEF NotEnded
        <4>3. Cardinality(NotEnded \ {t}) <= Cardinality(NotEnded) /\ Cardinality(NotEnded \ {t}) \in Nat
          BY <1>0, OneLess
        <4>4. Cardinality(NotEnded) \in Nat /\ mx.trk_count \in Nat
          BY <1>0, OneLess DEF TypeOK
        <4> QED BY <1>0, <2>6, <4>1, <4>2, <4>3, <4>4 DEF SInv, Counted
      <3>4. InStep'
        BY <1>0, <2>4, <2>6 DEF SInv, InStep
      <3>5. FullSleeps'
        BY <1>0, <2>4, <2>6, <3>2 DEF SInv, FullSleeps
      <3>6. ClearOK'
        BY <1>0, <2>6, <3>2 DEF SInv, ClearOK, Ready
      <3>7. Longest'
        <4>1. \A s \in Inputs : mi'[s].done = mi[s].done
          BY <2>4
        <4> QED BY <1>0, <2>6, <4>1 DEF SInv, Longest
      <3> QED BY <3>1, <3>11, <3>12, <3>3, <3>4, <3>5, <3>6, <3>7 DEF SInv
    <2> QED BY <1>0, <2>5, <2>6 DEF IInv
  <1> QED BY <1>1, <1>2

(* Before the block is ready, mixer-out neither plays nor waits. *)
LEMMA AwakeInput ==
  ASSUME TypeOK, SInv, NEW t \in Inputs, mi[t].at = "open", Awake(t)
  PROVE  /\ ~Ready(mx) /\ ~op[Out] /\ mx.at \notin {"play", "done"} /\ ~mx.clear /\ mx.trk_count # 0
         /\ mi[t].off # Size /\ ~mi[t].filled /\ ~mi[t].more
  <1>1. ~Ready(mx)
    BY ReadyMeansFull
  <1>2. mi[t].off # Size /\ ~mi[t].filled /\ ~mi[t].more
    BY DEF SInv, FullSleeps, InStep
  <1> QED BY <1>1, <1>2, PlayedIsReady

(* The mixer with other counters. *)
MixerType == [at : {"new", "mix", "play", "done", "failed", "end"}, trk_count : Nat, filled : Nat,
              len : 0 .. Size, first : BOOLEAN, clear : BOOLEAN, err : BOOLEAN]

LEMMA RejectStep == ASSUME NEW t \in Inputs PROVE IInv /\ Reject(t) => IInv'
  <1> SUFFICES ASSUME IInv, Reject(t) PROVE IInv'
    OBVIOUS
  <1> USE NoneIsNoTrack
  <1>0. /\ TypeOK /\ run.t = t /\ mi[t].at = "open" /\ UNCHANGED <<op, outpos>>
        /\ mi' = [mi EXCEPT ![t].at = "failed"] /\ run' = NoTrack
    BY DEF IInv, Reject, Running
  <1>1. q \in Seq(Tasks) /\ IsInjective(q) /\ <<"free", t>> \in Tasks /\ <<"tsk", Out>> \in Tasks
    BY QueueType, <1>0 DEF Tasks
  <1>2. /\ \A s \in Inputs : s # t => mi'[s] = mi[s]
        /\ mi'[t].at = "failed"
        /\ mi'[t].off = mi[t].off /\ mi'[t].filled = mi[t].filled
        /\ mi'[t].more = mi[t].more /\ mi'[t].done = mi[t].done
    BY <1>0 DEF TypeOK
  <1>3. mi' \in [Inputs -> InputType]
    <2>1. mi' = [mi EXCEPT ![t] = [mi[t] EXCEPT !.at = "failed"]]
      BY <1>0 DEF TypeOK
    <2>2. [mi[t] EXCEPT !.at = "failed"] \in InputType
      BY <1>0, InputTyped, AtTyped
    <2> QED BY <1>0, <2>1, <2>2, InputTyped
  <1>4. /\ q' \in Seq(Tasks) /\ IsInjective(q')
        /\ \/ /\ mx' = mx /\ (~MixerExists \/ mx.err)
              /\ \A x : Contains(q', x) <=> Contains(q, x) \/ x = <<"free", t>>
           \/ /\ mx' = Failed(mx) /\ MixerExists
              /\ \A x : Contains(q', x) <=> Contains(q, x) \/ x = <<"free", t>> \/ x = <<"tsk", Out>>
    <2>1. CASE (~MixerExists \/ mx.err) /\ mx' = mx /\ q' = Posted(q, <<"free", t>>)
      BY <1>1, <2>1, Posting
    <2>2. CASE MixerExists /\ mx' = Failed(mx) /\ q' = Posted(Woken(q, Out), <<"free", t>>)
      <3> DEFINE woken == Posted(q, <<"tsk", Out>>)
      <3>1. /\ woken \in Seq(Tasks) /\ IsInjective(woken)
            /\ \A x : Contains(woken, x) <=> Contains(q, x) \/ x = <<"tsk", Out>>
        BY <1>1, Posting
      <3>2. q' = Posted(woken, <<"free", t>>)
        BY <2>2 DEF Woken
      <3> HIDE DEF woken
      <3>3. /\ q' \in Seq(Tasks) /\ IsInjective(q')
            /\ \A x : Contains(q', x) <=> Contains(woken, x) \/ x = <<"free", t>>
        BY <1>1, <3>1, <3>2, Posting
      <3> QED BY <2>2, <3>1, <3>3
    <2> QED BY <2>1, <2>2 DEF Reject
  <1>5. /\ mx' \in MixerType /\ mx'.at = mx.at /\ mx'.trk_count = mx.trk_count /\ mx'.filled = mx.filled
        /\ mx'.len = mx.len /\ mx'.first = mx.first /\ mx'.clear = mx.clear
        /\ (mx' = mx \/ mx'.err) /\ (mx' = Failed(mx) => mx'.err)
    <2>1. mx \in MixerType
      BY <1>0 DEF TypeOK, MixerType
    <2> QED BY <1>4, <2>1 DEF MixerType, Failed
  <1>6. TypeOK'
    BY <1>0, <1>3, <1>4, <1>5 DEF TypeOK, Tasks, InputType, MixerType
  <1>7. ASSUME SInv PROVE SInv'
    <2>0. /\ ~Ready(mx) /\ ~op[Out] /\ mx.at \notin {"play", "done"} /\ ~mx.clear
          /\ mi[t].off # Size /\ ~mi[t].filled
      BY <1>0, <1>7, AwakeInput DEF Awake
    <2>1. NewOK'
      BY <1>0, <1>5, <1>7 DEF SInv, NewOK
    <2>2. FreeOK'
      BY <1>2, <1>4, <1>7 DEF SInv, FreeOK
    <2>3. AwakeOnce'
      BY <1>0, <1>4, <1>5, <1>7, <2>0 DEF SInv, AwakeOnce, NoTrack
    <2>4. \A s \in Inputs : Awake(s)' => Awake(s)
      BY <1>0, <1>4 DEF Awake, NoTrack
    <2>5. Counted'
      <3>1. Filled' = Filled /\ NotEnded' = NotEnded
        BY <1>0, <1>2, <2>0 DEF Filled, Opened, NotEnded
      <3> QED BY <1>5, <1>7, <3>1 DEF SInv, Counted
    <2>6. InStep'
      BY <1>0, <1>2, <1>5, <1>7, <2>0 DEF SInv, InStep
    <2>7. FullSleeps'
      BY <1>0, <1>2, <1>7, <2>4 DEF SInv, FullSleeps
    <2>8. ClearOK'
      <3>1. ~mx'.clear /\ mx'.at \notin {"play", "done"}
        BY <1>5, <2>0
      <3>2. mx'.at = "mix" /\ ~mx'.err /\ ~mx'.first /\ Awake(Out)' => Awake(Out) /\ mx' = mx
        BY <1>0, <1>4, <1>5 DEF Awake, NoTrack
      <3> QED BY <1>7, <3>1, <3>2 DEF SInv, ClearOK
    <2>9. Longest'
      <3>1. \A s \in Inputs : mi'[s].done = mi[s].done
        BY <1>2
      <3> QED BY <1>0, <1>5, <1>7, <3>1 DEF SInv, Longest
    <2> QED BY <2>1, <2>2, <2>3, <2>5, <2>6, <2>7, <2>8, <2>9 DEF SInv
  <1> QED BY <1>5, <1>6, <1>7 DEF IInv

LEMMA MixStep == ASSUME NEW t \in Inputs PROVE IInv /\ Mix(t) => IInv'
  <1> SUFFICES ASSUME IInv, Mix(t) PROVE IInv'
    OBVIOUS
  <1> USE NoneIsNoTrack
  <1> DEFINE i == mi[t]
             n == Fitting(i)
             off == i.off + n
             full == off = Size \/ i.last
             written == Written(mx, off, full)
             ends == i.last /\ off < Size
             wrote == [i EXCEPT !.off = off, !.have = @ - n, !.filled = @ \/ full, !.done = @ + n]
             closed == Closed(written, wrote)
             wake == full /\ Ready(written)
             queue == IF (ends /\ Ready(closed)) \/ wake THEN Woken(q, Out) ELSE q
  <1>0. /\ TypeOK /\ run.t = t /\ i.at = "open" /\ UNCHANGED <<op, outpos>>
        /\ MixerExists /\ ~mx.err
    BY DEF IInv, Mix, Running
  <1>1. i \in InputType /\ mx \in MixerType /\ Size \in Nat \ {0}
    BY <1>0, InputTyped, MixerAssumption DEF TypeOK, MixerType
  <1>2. n \in Nat /\ n <= i.have /\ off \in Nat /\ off <= Size
    <2>1. Size - i.off \in Nat /\ i.have \in Nat /\ i.off \in Nat
      BY <1>1 DEF InputType
    <2>2. n = IF Size - i.off <= i.have THEN Size - i.off ELSE i.have
      BY <2>1, MinMax DEF Fitting
    <2> HIDE DEF n
    <2> QED BY <1>1, <2>1, <2>2
  <1>3. /\ ends => /\ mi' = [mi EXCEPT ![t] = [wrote EXCEPT !.at = "end", !.have = 0]]
                   /\ mx' = closed
                   /\ q' = Posted(IF wake \/ Ready(closed) THEN Woken(q, Out) ELSE q, <<"free", t>>)
                   /\ run' = NoTrack
        /\ ~ends => /\ mx' = written
                    /\ q' = IF wake THEN Woken(q, Out) ELSE q
                    /\ off = Size => mi' = [mi EXCEPT ![t] = [wrote EXCEPT !.more = TRUE]] /\ run' = NoTrack
                    /\ off # Size => mi' = [mi EXCEPT ![t] = wrote] /\ UNCHANGED run
    BY DEF Mix
  <1>4. /\ wrote \in InputType /\ wrote.at = "open" /\ wrote.off = off /\ wrote.filled = (i.filled \/ full)
        /\ wrote.more = i.more /\ wrote.done = i.done + n
    <2> HIDE DEF n, off, full, ends, written, closed, wake, queue
    <2>1. i.have \in 0 .. MaxLength /\ i.done \in Nat /\ MaxLength \in Nat
      BY <1>1, MixerAssumption DEF InputType
    <2>2. i.have - n \in 0 .. MaxLength /\ off \in 0 .. Size /\ i.done + n \in Nat
      BY <1>1, <1>2, <2>1
    <2>3. (i.filled \/ full) \in BOOLEAN
      OBVIOUS
    <2> QED BY <1>0, <1>1, <2>2, <2>3 DEF InputType
  <1>5. /\ written \in MixerType /\ written.at = mx.at /\ written.trk_count = mx.trk_count
        /\ written.first = mx.first /\ written.clear = mx.clear /\ written.err = mx.err
        /\ written.filled = (IF full THEN mx.filled + 1 ELSE mx.filled)
        /\ written.len = IF mx.len <= off THEN off ELSE mx.len
    <2>1. mx.len \in Nat /\ mx.len <= Size /\ mx.filled \in Nat
      BY <1>1 DEF MixerType
    <2> HIDE DEF n, off, full
    <2>2. Max({mx.len, off}) = IF mx.len <= off THEN off ELSE mx.len
      BY <1>2, <2>1, MinMax
    <2>3. Max({mx.len, off}) \in 0 .. Size
      BY <1>1, <1>2, <2>1, <2>2
    <2>4. (IF full THEN mx.filled + 1 ELSE mx.filled) \in Nat
      BY <2>1
    <2> QED BY <1>1, <2>2, <2>3, <2>4 DEF MixerType, Written
  <1> HIDE DEF n, off, written, wrote
  <1>6. /\ closed.at = mx.at /\ closed.trk_count = mx.trk_count - 1 /\ closed.len = written.len
        /\ closed.first = mx.first /\ closed.clear = mx.clear /\ closed.err = mx.err
        /\ full => closed.filled = mx.filled
    <2>1. closed = [written EXCEPT !.trk_count = @ - 1, !.filled = IF wrote.filled THEN @ - 1 ELSE @]
      BY DEF Closed
    <2>2. mx.filled \in Nat /\ mx.trk_count \in Nat
      BY <1>1 DEF MixerType
    <2>3. full => wrote.filled
      BY <1>4
    <2> HIDE DEF closed, full
    <2>4. closed.filled = IF wrote.filled THEN written.filled - 1 ELSE written.filled
      BY <1>5, <2>1 DEF MixerType
    <2> QED BY <1>5, <2>1, <2>2, <2>3, <2>4 DEF MixerType
  <1>7. ASSUME SInv
        PROVE  /\ ~Ready(mx) /\ ~op[Out] /\ mx.at \notin {"play", "done"} /\ ~mx.clear
               /\ i.off # Size /\ ~i.filled /\ ~i.more
    BY <1>0, <1>7, AwakeInput DEF Awake
  <1>8. q \in Seq(Tasks) /\ IsInjective(q) /\ <<"free", t>> \in Tasks /\ <<"tsk", Out>> \in Tasks
    BY QueueType, <1>0 DEF Tasks
  <1>9. /\ queue \in Seq(Tasks) /\ IsInjective(queue)
        /\ \A x : Contains(queue, x) <=>
                Contains(q, x) \/ (((ends /\ Ready(closed)) \/ wake) /\ x = <<"tsk", Out>>)
    <2>1. CASE (ends /\ Ready(closed)) \/ wake
      BY <1>8, <2>1, Posting DEF Woken
    <2>2. CASE ~((ends /\ Ready(closed)) \/ wake)
      BY <1>8, <2>2
    <2> QED BY <2>1, <2>2
  <1>10. SInv
    BY <1>0 DEF IInv, MixerExists
  <1>11. \A s \in Inputs : s # t => mi'[s] = mi[s]
    BY <1>0, <1>3 DEF TypeOK
  <1>12. mx.trk_count \in Nat \ {0} /\ mx.filled \in Nat /\ mx.len \in Nat
    <2>1. Awake(t)
      BY <1>0 DEF Awake
    <2>2. mx.trk_count # 0
      BY <1>0, <1>10, <2>1, AwakeInput
    <2> QED BY <1>1, <2>2 DEF MixerType
  <1>13. CASE ends
    <2>1. q' = Posted(queue, <<"free", t>>) /\ run' = NoTrack /\ mx' = closed
      BY <1>3, <1>13
    <2> HIDE DEF queue
    <2>2. /\ q' \in Seq(Tasks) /\ IsInjective(q')
          /\ \A x : Contains(q', x) <=> Contains(queue, x) \/ x = <<"free", t>>
      BY <1>8, <1>9, <2>1, Posting
    <2>3. full /\ off < Size
      BY <1>13
    <2> HIDE DEF full, ends
    <2>4. wake <=> Ready(closed)
      BY <1>5, <1>6, <1>12, <2>3 DEF Ready
    <2>5. \A x : Contains(q', x) <=>
              Contains(q, x) \/ x = <<"free", t>> \/ (Ready(closed) /\ x = <<"tsk", Out>>)
      BY <1>9, <1>13, <2>2, <2>4
    <2>6. mi'[t].at = "end" /\ mi'[t].done = i.done + n /\ mi' \in [Inputs -> InputType]
      <3>1. /\ [wrote EXCEPT !.at = "end", !.have = 0] \in InputType
            /\ [wrote EXCEPT !.at = "end", !.have = 0].at = "end"
            /\ [wrote EXCEPT !.at = "end", !.have = 0].done = wrote.done
        <4>1. 0 \in 0 .. MaxLength
          BY MixerAssumption
        <4> HIDE DEF full
        <4> QED BY <1>4, <4>1 DEF InputType
      <3>2. mi \in [Inputs -> InputType]
        BY <1>0, InputTyped
      <3>3. mi' = [mi EXCEPT ![t] = [wrote EXCEPT !.at = "end", !.have = 0]]
        BY <1>3, <1>13
      <3> QED BY <1>4, <3>1, <3>2, <3>3
    <2>7. closed \in MixerType
      <3>1. mx.trk_count - 1 \in Nat
        BY <1>12
      <3>2. closed = [written EXCEPT !.trk_count = @ - 1, !.filled = IF wrote.filled THEN @ - 1 ELSE @]
        BY DEF Closed
      <3>3. (IF wrote.filled THEN written.filled - 1 ELSE written.filled) \in Nat
        BY <1>4, <1>5, <1>12, <2>3
      <3>4. written.trk_count - 1 \in Nat /\ written \in MixerType
        BY <1>5, <3>1
      <3> HIDE DEF closed
      <3> QED BY ONLY <3>2, <3>3, <3>4 DEF MixerType
    <2>8. TypeOK'
      BY <1>0, <2>1, <2>2, <2>6, <2>7 DEF TypeOK, Tasks, InputType, MixerType
    <2>9. NewOK'
      BY <1>0, <1>6, <1>10, <2>1 DEF SInv, NewOK, MixerExists
    <2>10. FreeOK'
      BY <1>10, <1>11, <2>5, <2>6 DEF SInv, FreeOK
    <2>11. AwakeOnce'
      BY <1>0, <1>6, <1>7, <1>10, <2>1, <2>5 DEF SInv, AwakeOnce, NoTrack
    <2>12. \A s \in Inputs : Awake(s)' => Awake(s)
      BY <1>0, <2>1, <2>5 DEF Awake, NoTrack
    <2>13. Counted'
      <3>1. NotEnded' = NotEnded \ {t}
        BY <1>11, <2>6 DEF NotEnded
      <3>2. Filled' = Filled
        BY <1>7, <1>10, <1>11, <2>6 DEF Filled, Opened
      <3>3. /\ Cardinality(NotEnded \ {t}) = Cardinality(NotEnded) - 1
            /\ Cardinality(NotEnded) \in Nat
        BY <1>0, OneLess
      <3>4. mx.trk_count >= Cardinality(NotEnded) /\ mx.filled = Cardinality(Filled)
        BY <1>10 DEF SInv, Counted
      <3>5. mx'.trk_count = mx.trk_count - 1 /\ mx'.filled = mx.filled
        BY <1>6, <2>1, <2>3
      <3> QED BY <1>12, <3>1, <3>2, <3>3, <3>4, <3>5 DEF Counted
    <2>14. mx'.len = (IF mx.len <= off THEN off ELSE mx.len)
      BY <1>5, <1>6, <2>1
    <2>15. InStep'
      <3>1. \A s \in Inputs : mi[s].off \in Nat
        BY <1>0, InputTyped DEF InputType
      <3>2. \A s \in Inputs : mi[s].off <= mx.len => mi[s].off <= mx'.len
        BY <1>2, <1>12, <2>14, <3>1
      <3>3. InStep
        BY <1>10 DEF SInv
      <3> QED BY <1>0, <1>11, <2>6, <3>2, <3>3 DEF InStep
    <2>16. FullSleeps'
      BY <1>10, <1>11, <2>6, <2>12 DEF SInv, FullSleeps
    <2>17. ClearOK'
      <3>1. Awake(Out)' => Awake(Out) \/ Ready(closed)
        BY <1>0, <2>1, <2>5 DEF Awake, NoTrack
      <3>2. mx.at = "mix" /\ ~mx.err /\ ~mx.first /\ ~mx.clear => ~Awake(Out)
        BY <1>7, <1>10 DEF SInv, ClearOK
      <3> QED BY <1>6, <1>7, <1>10, <2>1, <3>1, <3>2 DEF ClearOK
    <2>18. Longest'
      <3>1. /\ \A s \in Inputs : mi[s].done <= outpos + mx.len
            /\ outpos + mx.len # 0 => \E s \in Inputs : mi[s].done = outpos + mx.len
            /\ i.done = outpos + i.off
        BY <1>0, <1>10 DEF SInv, Longest, InStep
      <3>2. outpos \in Nat /\ (\A s \in Inputs : mi[s].done \in Nat) /\ i.off \in Nat
        BY <1>0, <1>1, InputTyped DEF TypeOK, InputType
      <3>3. mi'[t].done = outpos + off
        BY <1>2, <2>6, <3>1, <3>2 DEF off
      <3>4. i.off <= off
        BY <1>2, <3>2 DEF off
      <3>5. outpos' = outpos
        BY <1>0
      <3>6. \A s \in Inputs : mi'[s].done <= outpos + mx'.len
        <4> SUFFICES ASSUME NEW s \in Inputs PROVE mi'[s].done <= outpos + mx'.len
          OBVIOUS
        <4>1. mx.len <= mx'.len /\ off <= mx'.len /\ mx'.len \in Nat
          BY <1>2, <1>12, <2>14
        <4>2. CASE s = t
          BY <1>2, <3>2, <3>3, <4>1, <4>2
        <4>3. CASE s # t
          <5>1. mi[s].done <= outpos + mx.len /\ mi[s].done \in Nat /\ mi'[s] = mi[s]
            BY <1>11, <3>1, <3>2, <4>3
          <5> QED BY <1>12, <3>2, <4>1, <5>1
        <4> QED BY <4>2, <4>3
      <3>7. outpos + mx'.len # 0 => \E s \in Inputs : mi'[s].done = outpos + mx'.len
        <4>1. CASE mx.len <= off
          BY <2>14, <3>3, <4>1
        <4>2. CASE ~(mx.len <= off)
          <5>1. mx'.len = mx.len
            BY <2>14, <4>2
          <5>2. i.done # outpos + mx.len
            BY <1>2, <1>12, <3>1, <3>2, <3>4, <4>2
          <5> QED BY <1>11, <3>1, <5>1, <5>2
        <4> QED BY <4>1, <4>2
      <3> QED BY <3>5, <3>6, <3>7 DEF Longest
    <2> QED BY <2>8, <2>9, <2>10, <2>11, <2>13, <2>15, <2>16, <2>17, <2>18 DEF IInv, SInv
  <1>14. CASE ~ends
    <2>1. q' = queue /\ mx' = written
      BY <1>3, <1>14
    <2>2. full <=> off = Size
      BY <1>2, <1>14, <1>1
    <2> HIDE DEF queue
    <2> DEFINE wr == IF off = Size THEN [wrote EXCEPT !.more = TRUE] ELSE wrote
    <2>3. mi' = [mi EXCEPT ![t] = wr] /\ run' = IF off = Size THEN NoTrack ELSE run
      BY <1>3, <1>14
    <2>4. \A x : Contains(q', x) <=> Contains(q, x) \/ (wake /\ x = <<"tsk", Out>>)
      BY <1>9, <1>14, <2>1
    <2>5. q' \in Seq(Tasks) /\ IsInjective(q')
      BY <1>9, <2>1
    <2>6. /\ wr \in InputType /\ wr.at = "open" /\ wr.off = off /\ wr.filled = (i.filled \/ off = Size)
          /\ wr.more = (i.more \/ off = Size) /\ wr.done = i.done + n
      <3>1. CASE off = Size
        BY <1>4, <2>2, <3>1 DEF InputType
      <3>2. CASE off # Size
        BY <1>1, <1>4, <2>2, <3>2 DEF InputType
      <3> QED BY <3>1, <3>2
    <2> HIDE DEF wr
    <2>7. /\ mi' \in [Inputs -> InputType] /\ mi'[t].at = "open" /\ mi'[t].off = off
          /\ mi'[t].filled = (i.filled \/ off = Size)
          /\ mi'[t].more = (i.more \/ off = Size) /\ mi'[t].done = i.done + n
      <3>1. mi \in [Inputs -> InputType]
        BY <1>0, InputTyped
      <3>2. mi' \in [Inputs -> InputType] /\ mi'[t] = wr
        BY <2>3, <2>6, <3>1
      <3> QED BY <2>6, <3>2
    <2>8. TypeOK'
      <3>1. run' = NoTrack \/ run' \in [t : Tracks, len : Nat]
        BY <1>0, <2>3 DEF TypeOK
      <3> QED BY <1>0, <1>5, <2>1, <2>5, <2>7, <3>1 DEF TypeOK, Tasks, InputType, MixerType
    <2> HIDE DEF full, ends, wake
    <2>9. NewOK'
      BY <1>0, <1>5, <1>10, <2>1 DEF SInv, NewOK, MixerExists
    <2>10. FreeOK'
      BY <1>0, <1>10, <1>11, <2>4, <2>7 DEF SInv, FreeOK
    <2>11. AwakeOnce'
      BY <1>0, <1>5, <1>7, <1>10, <2>1, <2>3, <2>4 DEF SInv, AwakeOnce, NoTrack
    <2>12. \A s \in Inputs : Awake(s)' => Awake(s)
      BY <1>0, <2>3, <2>4 DEF Awake, NoTrack
    <2>13. Counted'
      <3>1. NotEnded' = NotEnded
        BY <1>0, <1>11, <2>7 DEF NotEnded
      <3>2. Filled' = IF off = Size THEN Filled \cup {t} ELSE Filled
        BY <1>0, <1>7, <1>10, <1>11, <2>7 DEF Filled, Opened
      <3>3. t \notin Filled /\ IsFiniteSet(Filled) /\ Cardinality(Filled) \in Nat
        BY <1>0, <1>7, <1>10, Counts DEF Filled
      <3>4. Cardinality(Filled \cup {t}) = Cardinality(Filled) + 1
        BY <3>3, FS_AddElement
      <3>5. mx.trk_count >= Cardinality(NotEnded) /\ mx.filled = Cardinality(Filled)
        BY <1>10 DEF SInv, Counted
      <3>6. mx'.trk_count = mx.trk_count /\ mx'.filled = IF off = Size THEN mx.filled + 1 ELSE mx.filled
        BY <1>5, <2>1, <2>2
      <3> QED BY <3>1, <3>2, <3>4, <3>5, <3>6 DEF Counted
    <2>14. mx'.len = (IF mx.len <= off THEN off ELSE mx.len)
      BY <1>5, <2>1
    <2>15. InStep'
      <3>1. \A s \in Inputs : mi[s].off \in Nat
        BY <1>0, InputTyped DEF InputType
      <3>2. \A s \in Inputs : mi[s].off <= mx.len => mi[s].off <= mx'.len
        BY <1>2, <1>12, <2>14, <3>1
      <3>3. InStep
        BY <1>10 DEF SInv
      <3>4. outpos \in Nat /\ i.off \in Nat /\ i.done = outpos + i.off
        BY <1>0, <1>1, <3>3 DEF TypeOK, InputType, InStep
      <3>5. mi'[t].done = outpos + off /\ off <= mx'.len
        BY <1>2, <1>12, <2>7, <2>14, <3>4 DEF off
      <3> QED BY <1>0, <1>7, <1>10, <1>11, <2>7, <3>2, <3>3, <3>5 DEF InStep
    <2>16. FullSleeps'
      <3>1. mi'[t].off = Size => mi'[t].more /\ ~Awake(t)'
        <4>1. ~Contains(q, <<"tsk", t>>) /\ ~op[t]
          BY <1>0, <1>10 DEF SInv, AwakeOnce
        <4>2. ~Contains(q', <<"tsk", t>>) /\ ~op'[t]
          BY <1>0, <2>4, <4>1
        <4>3. off = Size => mi'[t].more /\ run'.t # t
          BY <2>3, <2>7 DEF NoTrack
        <4> QED BY <2>7, <4>2, <4>3 DEF Awake
      <3> QED BY <1>10, <1>11, <2>7, <2>12, <3>1 DEF SInv, FullSleeps
    <2>17. ClearOK'
      <3>1. Awake(Out)' => Awake(Out) \/ Ready(written)
        BY <1>0, <2>3, <2>4 DEF Awake, NoTrack, wake
      <3>2. mx.at = "mix" /\ ~mx.err /\ ~mx.first /\ ~mx.clear => ~Awake(Out)
        BY <1>7, <1>10 DEF SInv, ClearOK
      <3> QED BY <1>5, <1>7, <1>10, <2>1, <3>1, <3>2 DEF ClearOK
    <2>18. Longest'
      <3>1. /\ \A s \in Inputs : mi[s].done <= outpos + mx.len
            /\ outpos + mx.len # 0 => \E s \in Inputs : mi[s].done = outpos + mx.len
            /\ i.done = outpos + i.off
        BY <1>0, <1>10 DEF SInv, Longest, InStep
      <3>2. outpos \in Nat /\ (\A s \in Inputs : mi[s].done \in Nat) /\ i.off \in Nat
        BY <1>0, <1>1, InputTyped DEF TypeOK, InputType
      <3>3. mi'[t].done = outpos + off
        BY <1>2, <2>7, <3>1, <3>2 DEF off
      <3>4. i.off <= off
        BY <1>2, <3>2 DEF off
      <3>5. outpos' = outpos
        BY <1>0
      <3>6. \A s \in Inputs : mi'[s].done <= outpos + mx'.len
        <4> SUFFICES ASSUME NEW s \in Inputs PROVE mi'[s].done <= outpos + mx'.len
          OBVIOUS
        <4>1. mx.len <= mx'.len /\ off <= mx'.len /\ mx'.len \in Nat
          BY <1>2, <1>12, <2>14
        <4>2. CASE s = t
          BY <1>2, <3>2, <3>3, <4>1, <4>2
        <4>3. CASE s # t
          <5>1. mi[s].done <= outpos + mx.len /\ mi[s].done \in Nat /\ mi'[s] = mi[s]
            BY <1>11, <3>1, <3>2, <4>3
          <5> QED BY <1>12, <3>2, <4>1, <5>1
        <4> QED BY <4>2, <4>3
      <3>7. outpos + mx'.len # 0 => \E s \in Inputs : mi'[s].done = outpos + mx'.len
        <4>1. CASE mx.len <= off
          BY <2>14, <3>3, <4>1
        <4>2. CASE ~(mx.len <= off)
          <5>1. mx'.len = mx.len
            BY <2>14, <4>2
          <5>2. i.done # outpos + mx.len
            BY <1>2, <1>12, <3>1, <3>2, <3>4, <4>2
          <5> QED BY <1>11, <3>1, <5>1, <5>2
        <4> QED BY <4>1, <4>2
      <3> QED BY <3>5, <3>6, <3>7 DEF Longest
    <2> QED BY <2>8, <2>9, <2>10, <2>11, <2>13, <2>15, <2>16, <2>17, <2>18 DEF IInv, SInv
  <1> QED BY <1>13, <1>14

LEMMA FreeInputStep == ASSUME NEW t \in Inputs PROVE IInv /\ FreeInput(t) => IInv'
  <1> SUFFICES ASSUME IInv, FreeInput(t) PROVE IInv'
    OBVIOUS
  <1> USE NoneIsNoTrack
  <1> DEFINE rest == Deleted(Tail(q), <<"tsk", t>>)
             joined == mi[t].at = "failed" /\ MixerExists
             waked == joined /\ Ready(mx')
  <1>0. /\ TypeOK /\ run = NoTrack /\ UNCHANGED <<run, outpos>>
        /\ q # <<>> /\ Head(q) = <<"free", t>>
        /\ op \in [Tracks -> BOOLEAN] /\ op' = [op EXCEPT ![t] = FALSE]
        /\ mi' = [mi EXCEPT ![t].at = "end"]
        /\ joined => mx' = Closed(mx, mi[t])
        /\ ~joined => mx' = mx
        /\ q' = IF waked THEN Woken(rest, Out) ELSE rest
    BY DEF IInv, TypeOK, FreeInput
  <1>1. /\ Tail(q) \in Seq(Tasks) /\ IsInjective(Tail(q)) /\ Contains(q, <<"free", t>>)
        /\ \A x : Contains(Tail(q), x) <=> Contains(q, x) /\ x # <<"free", t>>
    BY <1>0, QueueType, TakenTask
  <1>2. /\ rest \in Seq(Tasks) /\ IsInjective(rest)
        /\ \A x : Contains(rest, x) <=> Contains(q, x) /\ x # <<"free", t>> /\ x # <<"tsk", t>>
    BY <1>1, DeletedTask
  <1>3. <<"tsk", Out>> \in Tasks
    BY DEF Tasks
  <1> HIDE DEF rest
  <1>4. /\ q' \in Seq(Tasks) /\ IsInjective(q')
        /\ \A x : Contains(q', x) <=>
                \/ Contains(q, x) /\ x # <<"free", t>> /\ x # <<"tsk", t>>
                \/ waked /\ x = <<"tsk", Out>>
    <2>1. CASE waked
      <3>1. q' = Posted(rest, <<"tsk", Out>>)
        BY <1>0, <2>1 DEF Woken
      <3> QED BY <1>2, <1>3, <2>1, <3>1, Posting
    <2>2. CASE ~waked
      BY <1>0, <1>2, <2>2
    <2> QED BY <2>1, <2>2
  <1>5. mi' \in [Inputs -> InputType] /\ \A s \in Inputs : s # t => mi'[s] = mi[s]
    <2>1. mi' = [mi EXCEPT ![t] = [mi[t] EXCEPT !.at = "end"]]
      BY <1>0 DEF TypeOK
    <2>2. [mi[t] EXCEPT !.at = "end"] \in InputType
      BY <1>0, InputTyped, AtTyped
    <2> QED BY <1>0, <2>1, <2>2, InputTyped
  <1>6. mi'[t].at = "end" /\ mi'[t].done = mi[t].done
    BY <1>0 DEF TypeOK
  <1>7. op' \in [Tracks -> BOOLEAN] /\ \A s \in Tracks : op'[s] => op[s]
    BY <1>0
  <1>8. mx \in MixerType
    BY <1>0 DEF TypeOK, MixerType
  <1>9. CASE mx.at = "end"
    <2>1. ~joined
      BY <1>9 DEF MixerExists
    <2>2. mx' = mx
      BY <1>0, <2>1
    <2> HIDE DEF waked, joined
    <2>3. TypeOK'
      BY <1>0, <1>4, <1>5, <1>7, <1>8, <2>2 DEF TypeOK, Tasks, InputType, MixerType
    <2> QED BY <1>9, <2>2, <2>3 DEF IInv
  <1>10. CASE mx.at # "end"
    <2>1. SInv
      BY <1>10 DEF IInv
    <2>2. mi[t].at \in {"failed", "end"}
      BY <1>1, <2>1 DEF SInv, FreeOK
    <2>3. mx.at # "new" /\ MixerExists
      BY <1>10, <2>1, <2>2 DEF SInv, NewOK, MixerExists
    <2>4. joined => ~mi[t].filled /\ mx.trk_count \in Nat \ {0} /\ mx.filled \in Nat
      <3>1. joined => ~mi[t].filled
        BY <2>1 DEF SInv, InStep
      <3>2. joined => Cardinality(NotEnded) # 0
        <4>1. joined => t \in NotEnded
          BY DEF NotEnded
        <4> QED BY <1>0, <4>1, OneLess, Counts, FS_EmptySet
      <3>3. mx.trk_count >= Cardinality(NotEnded) /\ mx.trk_count \in Nat /\ Cardinality(NotEnded) \in Nat
        BY <1>0, <1>8, <2>1, OneLess DEF SInv, Counted, MixerType
      <3> QED BY <1>8, <3>1, <3>2, <3>3 DEF MixerType
    <2>5. /\ mx' \in MixerType /\ mx'.at = mx.at /\ mx'.filled = mx.filled /\ mx'.len = mx.len
          /\ mx'.first = mx.first /\ mx'.clear = mx.clear /\ mx'.err = mx.err
          /\ mx'.trk_count = IF joined THEN mx.trk_count - 1 ELSE mx.trk_count
      <3>1. CASE joined
        <4>1. mx' = [mx EXCEPT !.trk_count = @ - 1, !.filled = IF mi[t].filled THEN @ - 1 ELSE @]
          BY <1>0, <3>1 DEF Closed
        <4>2. mx' = [mx EXCEPT !.trk_count = @ - 1]
          BY <1>8, <2>4, <3>1, <4>1 DEF MixerType
        <4> QED BY <1>8, <2>4, <3>1, <4>2 DEF MixerType
      <3>2. CASE ~joined
        BY <1>0, <1>8, <3>2
      <3> QED BY <3>1, <3>2
    <2> HIDE DEF waked
    <2>6. TypeOK'
      BY <1>0, <1>4, <1>5, <1>7, <2>5 DEF TypeOK, Tasks, InputType, MixerType
    <2>7. joined => /\ ~Ready(mx) /\ ~op[Out] /\ mx.at \notin {"play", "done"} /\ ~mx.clear
      BY <1>0, <2>1, ReadyMeansFull, PlayedIsReady
    <2>8. joined <=> mi[t].at = "failed"
      BY <2>3
    <2>9. waked <=> joined /\ Ready(mx')
      BY DEF waked
    <2> HIDE DEF joined
    <2>10. NewOK'
      BY <2>3, <2>5 DEF NewOK
    <2>11. FreeOK'
      BY <1>4, <1>5, <1>6, <2>1 DEF SInv, FreeOK
    <2>12. AwakeOnce'
      <3>1. run'.t \notin Tracks
        BY <1>0 DEF NoTrack
      <3>2. \A s \in Tracks : op'[s] => ~Contains(q', <<"tsk", s>>)
        BY <1>4, <1>7, <2>1, <2>7, <2>9 DEF SInv, AwakeOnce
      <3>3. op'[Out] => mx'.at \in {"play", "done"}
        BY <1>7, <2>1, <2>5 DEF SInv, AwakeOnce
      <3> QED BY <3>1, <3>2, <3>3 DEF AwakeOnce
    <2>13. \A s \in Inputs : Awake(s)' => Awake(s)
      BY <1>0, <1>4, <1>7 DEF Awake
    <2>14. Counted'
      <3>1. NotEnded' = NotEnded \ {t}
        BY <1>5, <1>6 DEF NotEnded
      <3>2. Filled' = Filled
        BY <1>5, <1>6, <2>2, <2>4, <2>8 DEF Filled, Opened
      <3>3. /\ Cardinality(NotEnded \ {t}) =
                  IF mi[t].at # "end" THEN Cardinality(NotEnded) - 1 ELSE Cardinality(NotEnded)
            /\ Cardinality(NotEnded) \in Nat
        BY <1>0, OneLess
      <3>4. mx.trk_count >= Cardinality(NotEnded) /\ mx.filled = Cardinality(Filled)
        BY <2>1 DEF SInv, Counted
      <3>5. mx.trk_count \in Nat /\ (joined <=> mi[t].at # "end")
        BY <1>8, <2>2, <2>8 DEF MixerType
      <3> QED BY <2>5, <3>1, <3>2, <3>3, <3>4, <3>5 DEF Counted
    <2>15. InStep'
      BY <1>0, <1>5, <1>6, <2>1, <2>5 DEF SInv, InStep
    <2>16. FullSleeps'
      BY <1>5, <1>6, <2>1, <2>13 DEF SInv, FullSleeps
    <2>17. ClearOK'
      <3>1. CASE ~joined
        <4>1. mx' = mx
          BY <1>0, <3>1
        <4>2. Awake(Out)' => Awake(Out)
          BY <1>0, <1>4, <1>7, <2>9, <3>1 DEF Awake
        <4> QED BY <2>1, <4>1, <4>2 DEF SInv, ClearOK, Ready
      <3>2. CASE joined
        <4>1. Awake(Out)' => Awake(Out) \/ Ready(mx')
          BY <1>0, <1>4, <1>7, <2>9 DEF Awake
        <4>2. mx.at = "mix" /\ ~mx.err /\ ~mx.first /\ ~mx.clear => ~Awake(Out)
          BY <2>1, <2>7, <3>2 DEF SInv, ClearOK
        <4> QED BY <2>5, <2>7, <3>2, <4>1, <4>2 DEF ClearOK, Ready
      <3> QED BY <3>1, <3>2
    <2>18. Longest'
      <3>1. \A s \in Inputs : mi'[s].done = mi[s].done
        BY <1>5, <1>6
      <3> QED BY <1>0, <2>1, <2>5, <3>1 DEF SInv, Longest
    <2> QED BY <2>6, <2>10, <2>11, <2>12, <2>14, <2>15, <2>16, <2>17, <2>18 DEF IInv, SInv
  <1> QED BY <1>9, <1>10

-----------------------------------------------------------------------------
(* While mixer-out runs it waits for nothing else, and the invariant holds of the
   mixer that it changes. *)
LEMMA OutRuns ==
  ASSUME IInv, Running(Out), mx.at # "end"
  PROVE  /\ TypeOK /\ SInv /\ run.t = Out /\ mx \in MixerType
         /\ ~Contains(q, <<"tsk", Out>>) /\ ~op[Out] /\ Awake(Out)
  BY NoneIsNoTrack DEF IInv, SInv, AwakeOnce, Running, Awake, TypeOK, MixerType

LEMMA OpenOutStep == IInv /\ OpenOut => IInv'
  <1> SUFFICES ASSUME IInv, OpenOut PROVE IInv'
    OBVIOUS
  <1>1. /\ TypeOK /\ SInv /\ run.t = Out /\ mx \in MixerType /\ ~op[Out]
        /\ mx.at = "new" /\ mx' = [mx EXCEPT !.at = "mix"]
        /\ UNCHANGED <<q, run, op, mi, outpos>>
    BY OutRuns DEF OpenOut
  <1>2. /\ mx' \in MixerType /\ mx'.at = "mix" /\ mx'.trk_count = mx.trk_count /\ mx'.filled = mx.filled
        /\ mx'.len = mx.len /\ mx'.clear = mx.clear /\ mx'.first = mx.first
    BY <1>1 DEF MixerType
  <1>3. TypeOK'
    BY <1>1, <1>2 DEF TypeOK, MixerType
  <1>4. NewOK' /\ FreeOK' /\ AwakeOnce'
    BY <1>1, <1>2 DEF SInv, NewOK, FreeOK, AwakeOnce
  <1>5. Counted' /\ InStep' /\ FullSleeps' /\ Longest'
    <2>1. NotEnded' = NotEnded /\ Filled' = Filled /\ \A s \in Tracks : Awake(s)' <=> Awake(s)
      BY <1>1 DEF NotEnded, Filled, Opened, Awake
    <2> QED BY <1>1, <1>2, <2>1, NoneIsNoTrack DEF SInv, Counted, InStep, FullSleeps, Longest
  <1>6. ClearOK'
    BY <1>1, <1>2 DEF SInv, NewOK, ClearOK
  <1> QED BY <1>3, <1>4, <1>5, <1>6 DEF IInv, SInv

LEMMA ReadFirstStep == IInv /\ ReadFirst => IInv'
  <1> SUFFICES ASSUME IInv, ReadFirst PROVE IInv'
    OBVIOUS
  <1>1. /\ TypeOK /\ SInv /\ run.t = Out /\ mx \in MixerType /\ ~op[Out] /\ ~Contains(q, <<"tsk", Out>>)
        /\ mx.at = "mix" /\ mx' = [mx EXCEPT !.first = FALSE] /\ run' = NoTrack
        /\ UNCHANGED <<q, op, mi, outpos>>
    BY OutRuns DEF ReadFirst
  <1>2. /\ mx' \in MixerType /\ mx'.at = "mix" /\ mx'.trk_count = mx.trk_count /\ mx'.filled = mx.filled
        /\ mx'.len = mx.len /\ mx'.clear = mx.clear
    BY <1>1 DEF MixerType
  <1>3. TypeOK'
    BY <1>1, <1>2 DEF TypeOK, MixerType
  <1>4. NewOK' /\ FreeOK' /\ AwakeOnce'
    BY <1>1, <1>2, NoneIsNoTrack DEF SInv, NewOK, FreeOK, AwakeOnce, NoTrack
  <1>5. (\A s \in Tracks : Awake(s)' => Awake(s)) /\ ~Awake(Out)'
    BY <1>1, NoneIsNoTrack DEF Awake, NoTrack
  <1>6. Counted' /\ InStep' /\ FullSleeps' /\ Longest'
    <2>1. NotEnded' = NotEnded /\ Filled' = Filled
      BY <1>1 DEF NotEnded, Filled, Opened
    <2> QED BY <1>1, <1>2, <1>5, <2>1, NoneIsNoTrack DEF SInv, Counted, InStep, FullSleeps, Longest
  <1>7. ClearOK'
    BY <1>1, <1>2, <1>5 DEF SInv, ClearOK, Ready
  <1> QED BY <1>3, <1>4, <1>6, <1>7 DEF IInv, SInv

(* mx.at and mx.clear change, and nothing else, while mixer-out runs on. *)
LEMMA OutGoesOn ==
  ASSUME TypeOK, SInv, run.t = Out, ~op[Out], ~Contains(q, <<"tsk", Out>>), mx' \in MixerType,
         mx.at # "new", mx'.at # "new", mx'.trk_count = mx.trk_count, mx'.filled = mx.filled,
         mx'.len = mx.len, UNCHANGED <<q, run, op, mi, outpos>>, ClearOK'
  PROVE  IInv'
  <1>1. TypeOK'
    BY DEF TypeOK, MixerType
  <1>2. NewOK' /\ FreeOK' /\ AwakeOnce'
    BY DEF SInv, NewOK, FreeOK, AwakeOnce
  <1>3. Counted' /\ InStep' /\ FullSleeps' /\ Longest'
    <2>1. NotEnded' = NotEnded /\ Filled' = Filled /\ \A s \in Tracks : Awake(s)' <=> Awake(s)
      BY DEF NotEnded, Filled, Opened, Awake
    <2> QED BY <2>1, NoneIsNoTrack DEF SInv, Counted, InStep, FullSleeps, Longest
  <1> QED BY <1>1, <1>2, <1>3 DEF IInv, SInv

LEMMA ReadBlockStep == IInv /\ ReadBlock => IInv'
  <1> SUFFICES ASSUME IInv, ReadBlock PROVE IInv'
    OBVIOUS
  <1>1. /\ TypeOK /\ SInv /\ run.t = Out /\ mx \in MixerType /\ ~op[Out] /\ ~Contains(q, <<"tsk", Out>>)
        /\ mx.at = "mix" /\ mx' = [mx EXCEPT !.clear = TRUE, !.at = "play"] /\ Ready(mx)
        /\ UNCHANGED <<q, run, op, mi, outpos>>
    BY OutRuns DEF ReadBlock
  <1>2. /\ mx' \in MixerType /\ mx'.at = "play" /\ mx'.trk_count = mx.trk_count /\ mx'.filled = mx.filled
        /\ mx'.len = mx.len /\ mx'.clear
    BY <1>1 DEF MixerType
  <1>3. ClearOK'
    BY <1>1, <1>2 DEF ClearOK, Ready
  <1> QED BY <1>1, <1>2, <1>3, OutGoesOn

LEMMA PlayNextStep == IInv /\ PlayNext => IInv'
  <1> SUFFICES ASSUME IInv, PlayNext PROVE IInv'
    OBVIOUS
  <1>1. /\ TypeOK /\ SInv /\ run.t = Out /\ mx \in MixerType /\ ~op[Out] /\ ~Contains(q, <<"tsk", Out>>)
        /\ mx.at = "play" /\ mx' = [mx EXCEPT !.at = "mix"]
        /\ UNCHANGED <<q, run, op, mi, outpos>>
    BY OutRuns DEF PlayNext
  <1>2. /\ mx' \in MixerType /\ mx'.at = "mix" /\ mx'.trk_count = mx.trk_count /\ mx'.filled = mx.filled
        /\ mx'.len = mx.len /\ mx'.clear = mx.clear
    BY <1>1 DEF MixerType
  <1>3. ClearOK'
    BY <1>1, <1>2 DEF SInv, ClearOK, Ready
  <1> QED BY <1>1, <1>2, <1>3, OutGoesOn

(* Mixer-out fails. *)
LEMMA OutFails ==
  ASSUME TypeOK, SInv, run.t = Out, ~op[Out], mx.at # "new", run' = NoTrack,
         mx' = [mx EXCEPT !.at = "failed"], q' = Posted(q, <<"free", Out>>),
         UNCHANGED <<op, mi, outpos>>
  PROVE  IInv'
  <1> USE NoneIsNoTrack
  <1>1. /\ mx' \in MixerType /\ mx'.at = "failed" /\ mx'.trk_count = mx.trk_count /\ mx'.filled = mx.filled
        /\ mx'.len = mx.len /\ mx'.clear = mx.clear
    BY DEF TypeOK, MixerType
  <1>2. q \in Seq(Tasks) /\ IsInjective(q) /\ <<"free", Out>> \in Tasks
    BY QueueType DEF Tasks
  <1>3. /\ q' \in Seq(Tasks) /\ IsInjective(q')
        /\ \A x : Contains(q', x) <=> Contains(q, x) \/ x = <<"free", Out>>
    BY <1>2, Posting
  <1>4. TypeOK'
    BY <1>1, <1>3 DEF TypeOK, MixerType, Tasks
  <1>5. NewOK' /\ FreeOK'
    BY <1>1, <1>3 DEF SInv, NewOK, FreeOK
  <1>6. AwakeOnce'
    BY <1>3 DEF SInv, AwakeOnce, NoTrack
  <1>7. \A s \in Tracks : Awake(s)' => Awake(s)
    BY <1>3 DEF Awake, NoTrack
  <1>8. Counted' /\ InStep' /\ FullSleeps' /\ Longest'
    <2>1. NotEnded' = NotEnded /\ Filled' = Filled
      BY DEF NotEnded, Filled, Opened
    <2> QED BY <1>1, <1>7, <2>1 DEF SInv, Counted, InStep, FullSleeps, Longest
  <1>9. ClearOK'
    BY <1>1 DEF SInv, ClearOK, Ready
  <1> QED BY <1>4, <1>5, <1>6, <1>8, <1>9 DEF IInv, SInv

LEMMA ReadErrorStep == IInv /\ ReadError => IInv'
  <1> SUFFICES ASSUME IInv, ReadError PROVE IInv'
    OBVIOUS
  <1>1. /\ TypeOK /\ SInv /\ run.t = Out /\ ~op[Out] /\ mx.at # "new" /\ run' = NoTrack
        /\ mx' = [mx EXCEPT !.at = "failed"] /\ q' = Posted(q, <<"free", Out>>)
        /\ UNCHANGED <<op, mi, outpos>>
    BY OutRuns DEF ReadError
  <1> QED BY <1>1, OutFails

LEMMA PlayStopsStep == IInv /\ PlayStops => IInv'
  <1> SUFFICES ASSUME IInv, PlayStops PROVE IInv'
    OBVIOUS
  <1>1. /\ TypeOK /\ SInv /\ run.t = Out /\ ~op[Out] /\ mx \in MixerType /\ mx.at \in {"play", "done"}
        /\ run' = NoTrack /\ q' = Posted(q, <<"free", Out>>) /\ UNCHANGED <<op, mi, outpos>>
    BY OutRuns DEF PlayStops
  <1>2. CASE mx.at = "play"
    <2>1. mx' = [mx EXCEPT !.at = "failed"]
      BY <1>1, <1>2 DEF PlayStops, MixerType
    <2> QED BY <1>1, <1>2, <2>1, OutFails
  <1>3. CASE mx.at = "done"
    <2>1. mx' \in MixerType /\ mx'.at = "end"
      BY <1>1, <1>3 DEF PlayStops, MixerType
    <2>2. q \in Seq(Tasks) /\ IsInjective(q) /\ <<"free", Out>> \in Tasks
      BY <1>1, QueueType, NoneIsNoTrack DEF Tasks
    <2>3. q' \in Seq(Tasks) /\ IsInjective(q')
      BY <1>1, <2>2, Posting
    <2> QED BY <1>1, <2>1, <2>3 DEF IInv, TypeOK, MixerType, Tasks
  <1> QED BY <1>1, <1>2, <1>3

(* Mixer-out looks at a block before it is ready only at the end: then no input is
   left. *)
LEMMA ReadEarlyStep == IInv /\ ReadEarly => IInv'
  <1> SUFFICES ASSUME IInv, ReadEarly PROVE IInv'
    OBVIOUS
  <1>1. /\ TypeOK /\ SInv /\ run.t = Out /\ mx \in MixerType /\ ~op[Out] /\ ~Contains(q, <<"tsk", Out>>)
        /\ Awake(Out) /\ mx.at = "mix" /\ ~mx.err /\ ~mx.first /\ ~mx.clear
        /\ mx.len = 0 \/ ~Ready(mx)
    BY OutRuns DEF ReadEarly
  <1>2. Ready(mx) /\ mx.len = 0
    BY <1>1 DEF SInv, ClearOK
  <1>3. mx.trk_count = 0
    <2>1. ASSUME NEW t \in Filled PROVE FALSE
      <3>1. t \in Inputs /\ mi[t].filled /\ mi[t].at \in {"open", "failed"}
        BY DEF Filled, Opened
      <3>2. mi[t].off = Size /\ mi[t].off <= mx.len
        BY <1>1, <3>1 DEF SInv, InStep
      <3> QED BY <1>2, <3>2, MixerAssumption
    <2>2. Filled = {}
      BY <2>1
    <2> QED BY <1>1, <1>2, <2>2, FS_EmptySet DEF SInv, Counted, Ready
  <1>4. mx' = [mx EXCEPT !.at = "done"] /\ UNCHANGED <<q, run, op, mi, outpos>>
    BY <1>3 DEF ReadEarly
  <1>5. /\ mx' \in MixerType /\ mx'.at = "done" /\ mx'.trk_count = mx.trk_count /\ mx'.filled = mx.filled
        /\ mx'.len = mx.len /\ mx'.clear = mx.clear
    BY <1>1, <1>4 DEF MixerType
  <1>6. ClearOK'
    BY <1>1, <1>2, <1>3, <1>5 DEF ClearOK, Ready
  <1> QED BY <1>1, <1>4, <1>5, <1>6, OutGoesOn

LEMMA ReadClearedStep == IInv /\ ReadCleared => IInv'
  <1> SUFFICES ASSUME IInv, ReadCleared PROVE IInv'
    OBVIOUS
  <1> USE NoneIsNoTrack
  <1> DEFINE cleared == [mx EXCEPT !.clear = FALSE, !.len = 0, !.filled = 0]
             inputs == [t \in Inputs |-> IF t \in Opened THEN Restarted(mi[t]) ELSE mi[t]]
             woken == {t \in Opened : inputs[t].more}
             ends == mx.trk_count = 0
  <1>1. /\ TypeOK /\ SInv /\ run.t = Out /\ mx \in MixerType /\ ~op[Out] /\ ~Contains(q, <<"tsk", Out>>)
        /\ mx.at = "mix" /\ ~mx.err /\ ~mx.first /\ mx.clear
        /\ outpos' = outpos + mx.len /\ op' = op
    BY OutRuns DEF ReadCleared
  <1>2. Ready(mx)
    BY <1>1, PlayedIsReady
  <1>3. \A t \in Inputs : mi[t].at # "end" =>
            mi[t].at = "open" /\ mi[t].filled /\ mi[t].off = Size /\ mi[t].more /\ ~Awake(t)
    BY <1>1, <1>2, ReadyMeansFull
  <1>4. /\ mx.len \in 0 .. Size /\ Size \in Nat \ {0} /\ outpos \in Nat
    BY <1>1, MixerAssumption DEF TypeOK, MixerType
  <1>5. /\ ends => mx' = [cleared EXCEPT !.at = "done"] /\ mi' = inputs /\ q' = q /\ run' = run
        /\ ~ends => /\ mx' = cleared /\ run' = NoTrack /\ q' = AllWoken(q, woken)
                    /\ mi' = [t \in Inputs |-> IF t \in Opened THEN [inputs[t] EXCEPT !.more = FALSE] ELSE inputs[t]]
    BY DEF ReadCleared, Notify
  <1>6. /\ mx' \in MixerType /\ mx'.at = (IF ends THEN "done" ELSE "mix") /\ mx'.trk_count = mx.trk_count
        /\ mx'.filled = 0 /\ mx'.len = 0 /\ ~mx'.clear /\ mx'.first = mx.first
    <2> HIDE DEF inputs, woken
    <2>1. 0 \in 0 .. Size /\ 0 \in Nat
      BY <1>4
    <2>2. /\ cleared \in MixerType /\ cleared.at = "mix" /\ cleared.trk_count = mx.trk_count
          /\ cleared.filled = 0 /\ cleared.len = 0 /\ ~cleared.clear /\ cleared.first = mx.first
      BY <1>1, <2>1 DEF MixerType
    <2> HIDE DEF cleared
    <2> QED BY <1>5, <2>2 DEF MixerType
  <1>7. \A t \in Inputs : t \in Opened <=> mi[t].at = "open"
    BY <1>3 DEF Opened
  <1>8. \A t \in Inputs : Restarted(mi[t]) \in InputType /\ [Restarted(mi[t]) EXCEPT !.more = FALSE] \in InputType
    <2> SUFFICES ASSUME NEW i \in InputType
                 PROVE  Restarted(i) \in InputType /\ [Restarted(i) EXCEPT !.more = FALSE] \in InputType
      BY <1>1, InputTyped
    <2>1. 0 \in 0 .. Size
      BY <1>4
    <2>2. Restarted(i) \in InputType
      BY ONLY <2>1, i \in InputType DEF Restarted, InputType
    <2> QED BY ONLY <2>2 DEF InputType
  <1>9. /\ mi' \in [Inputs -> InputType]
        /\ \A t \in Inputs : mi[t].at = "open" =>
               mi'[t].at = "open" /\ mi'[t].off = 0 /\ ~mi'[t].filled /\ ~mi'[t].more /\ mi'[t].done = mi[t].done
        /\ \A t \in Inputs : mi[t].at = "end" => mi'[t] = mi[t]
    <2>1. CASE ends
      <3>1. \A t \in Inputs : mi[t].at = "end"
        <4>1. NotEnded = {}
          <5>1. 0 >= Cardinality(NotEnded)
            BY <1>1, <2>1 DEF SInv, Counted
          <5>2. Cardinality(NotEnded) = 0
            BY <1>1, <5>1, Counts
          <5> QED BY <1>1, <5>2, Counts, FS_EmptySet
        <4> QED BY <4>1 DEF NotEnded
      <3>2. mi' = mi
        BY <1>1, <1>5, <1>7, <2>1, <3>1, InputTyped
      <3> QED BY <1>1, <3>1, <3>2, InputTyped
    <2>2. CASE ~ends
      <3>1. mi' = [t \in Inputs |-> IF t \in Opened THEN [inputs[t] EXCEPT !.more = FALSE] ELSE inputs[t]]
        BY <1>5, <2>2
      <3>2. \A t \in Inputs : t \in Opened => mi'[t] = [Restarted(mi[t]) EXCEPT !.more = FALSE]
        BY <3>1
      <3>3. \A t \in Inputs : t \notin Opened => mi'[t] = mi[t]
        BY <3>1
      <3>4. mi \in [Inputs -> InputType]
        BY <1>1, InputTyped
      <3>5. mi' \in [Inputs -> InputType]
        <4>1. \A t \in Inputs : mi'[t] \in InputType
          BY <1>8, <3>2, <3>3, <3>4
        <4> HIDE DEF inputs
        <4> QED BY <3>1, <4>1
      <3>6. \A t \in Inputs : mi[t].at = "open" =>
               /\ [Restarted(mi[t]) EXCEPT !.more = FALSE].at = "open"
               /\ [Restarted(mi[t]) EXCEPT !.more = FALSE].off = 0
               /\ ~[Restarted(mi[t]) EXCEPT !.more = FALSE].filled
               /\ ~[Restarted(mi[t]) EXCEPT !.more = FALSE].more
               /\ [Restarted(mi[t]) EXCEPT !.more = FALSE].done = mi[t].done
        BY <3>4 DEF InputType, Restarted
      <3> QED BY <1>7, <3>2, <3>3, <3>5, <3>6
    <2> QED BY <2>1, <2>2
  <1>10. \A t \in Inputs : mi'[t].at = mi[t].at /\ mi'[t].done = mi[t].done
    BY <1>3, <1>9
  <1>11. /\ q' \in Seq(Tasks) /\ IsInjective(q')
         /\ \A x : Contains(q', x) => Contains(q, x) \/ \E t \in Inputs : mi[t].at = "open" /\ x = <<"tsk", t>>
    <2>1. q \in Seq(Tasks) /\ IsInjective(q)
      BY <1>1, QueueType
    <2>2. woken \in SUBSET Tracks /\ \A t \in woken : t \in Inputs /\ mi[t].at = "open"
      BY <1>7 DEF Opened
    <2> HIDE DEF woken
    <2>3. CASE ends
      BY <1>5, <2>1, <2>3
    <2>4. CASE ~ends
      <3>1. /\ AllWoken(q, woken) \in Seq(Tasks) /\ IsInjective(AllWoken(q, woken))
            /\ \A x : Contains(AllWoken(q, woken), x) <=> Contains(q, x) \/ \E t \in woken : x = <<"tsk", t>>
        BY <2>1, <2>2, InputsFinite, WokenTasks
      <3> QED BY <1>5, <2>2, <2>4, <3>1
    <2> QED BY <2>3, <2>4
  <1>12. run' = NoTrack \/ (ends /\ run' = run)
    BY <1>5
  <1> HIDE DEF cleared, inputs, woken
  <1>13. TypeOK'
    BY <1>1, <1>4, <1>6, <1>9, <1>11, <1>12 DEF TypeOK, MixerType, InputType, Tasks
  <1>14. NewOK' /\ FreeOK'
    BY <1>1, <1>6, <1>10, <1>11 DEF SInv, NewOK, FreeOK
  <1>15. AwakeOnce'
    <2>1. \A t \in Tracks : op[t] => ~Contains(q', <<"tsk", t>>)
      BY <1>1, <1>3, <1>11 DEF SInv, AwakeOnce, Awake
    <2>2. ~Contains(q', <<"tsk", Out>>)
      BY <1>1, <1>11
    <2>3. \A t \in Tracks : run'.t = t => t = Out
      BY <1>1, <1>12 DEF NoTrack
    <2> QED BY <1>1, <2>1, <2>2, <2>3 DEF AwakeOnce
  <1>16. Counted'
    <2>1. NotEnded' = NotEnded
      BY <1>10 DEF NotEnded
    <2>2. Filled' = {}
      BY <1>3, <1>9, <1>10 DEF Filled, Opened
    <2> QED BY <1>1, <1>6, <2>1, <2>2, FS_EmptySet DEF SInv, Counted
  <1>17. InStep'
    <2>1. \A t \in Inputs : mi[t].at = "open" => mi[t].done = outpos + mx.len
      <3> SUFFICES ASSUME NEW t \in Inputs, mi[t].at = "open" PROVE mi[t].done = outpos + mx.len
        OBVIOUS
      <3>1. mi[t].done = outpos + mi[t].off /\ mi[t].off <= mx.len /\ mi[t].off = Size
        BY <1>1, <1>3 DEF SInv, InStep
      <3> QED BY <1>4, <3>1
    <2>2. outpos' + 0 = outpos + mx.len
      BY <1>1, <1>4
    <2> QED BY <1>3, <1>4, <1>6, <1>9, <1>10, <2>1, <2>2 DEF InStep
  <1>18. FullSleeps'
    BY <1>4, <1>9, <1>10 DEF FullSleeps
  <1>19. ClearOK'
    <2>1. ~ends => ~Awake(Out)'
      BY <1>1, <1>11, <1>12 DEF Awake, NoTrack
    <2> QED BY <1>6, <2>1 DEF ClearOK
  <1>20. Longest'
    <2>1. outpos' + mx'.len = outpos + mx.len
      BY <1>1, <1>4, <1>6
    <2> QED BY <1>1, <1>10, <2>1 DEF SInv, Longest
  <1> QED BY <1>13, <1>14, <1>15, <1>16, <1>17, <1>18, <1>19, <1>20 DEF IInv, SInv

(* After the mixer is closed only the types matter. *)
LEMMA FreeOutStep == IInv /\ FreeOut => IInv'
  <1> SUFFICES ASSUME IInv, FreeOut PROVE IInv'
    OBVIOUS
  <1> USE NoneIsNoTrack
  <1> DEFINE rest == Deleted(Tail(q), <<"tsk", Out>>)
             waiting == {t \in Opened : mi[t].more}
  <1>1. /\ TypeOK /\ q # <<>> /\ UNCHANGED <<run, outpos>> /\ mx' = [mx EXCEPT !.at = "end"]
        /\ op \in [Tracks -> BOOLEAN] /\ op' = [op EXCEPT ![Out] = FALSE]
        /\ q' = AllWoken(rest, waiting)
        /\ mi' = [t \in Inputs |-> [mi[t] EXCEPT !.more = @ /\ t \notin waiting]]
    BY DEF FreeOut, IInv, TypeOK
  <1>2. Tail(q) \in Seq(Tasks) /\ IsInjective(Tail(q))
    BY <1>1, QueueType, TakenTask
  <1>3. rest \in Seq(Tasks) /\ IsInjective(rest)
    BY <1>2, DeletedTask
  <1>4. waiting \in SUBSET Tracks
    BY DEF Opened
  <1> HIDE DEF rest, waiting
  <1>5. q' \in Seq(Tasks) /\ IsInjective(q')
    BY <1>1, <1>3, <1>4, InputsFinite, WokenTasks
  <1>6. mi' \in [Inputs -> InputType]
    <2>1. ASSUME NEW t \in Inputs, NEW b \in BOOLEAN PROVE [mi[t] EXCEPT !.more = b] \in InputType
      BY <1>1, InputTyped DEF InputType
    <2>2. \A t \in Inputs : [mi[t] EXCEPT !.more = @ /\ t \notin waiting] \in InputType
      <3> TAKE t \in Inputs
      <3>1. (mi[t].more /\ t \notin waiting) \in BOOLEAN
        OBVIOUS
      <3> QED BY <2>1, <3>1
    <2> QED BY <1>1, <2>2
  <1>7. mx' \in MixerType /\ mx'.at = "end"
    BY <1>1 DEF TypeOK, MixerType
  <1>8. op' \in [Tracks -> BOOLEAN]
    BY <1>1
  <1> QED BY <1>1, <1>5, <1>6, <1>7, <1>8 DEF IInv, TypeOK, MixerType, InputType, Tasks

LEMMA StepIInv == IInv /\ [Next]_vars => IInv'
  <1> SUFFICES ASSUME IInv, [Next]_vars PROVE IInv'
    OBVIOUS
  <1>1. CASE UNCHANGED vars
    <2>1. TypeOK' <=> TypeOK
      BY <1>1 DEF vars, TypeOK
    <2>2. NotEnded' = NotEnded /\ Filled' = Filled /\ \A s \in Tracks : Awake(s)' <=> Awake(s)
      BY <1>1 DEF vars, NotEnded, Filled, Opened, Awake
    <2>3. (NewOK /\ FreeOK /\ AwakeOnce)' <=> (NewOK /\ FreeOK /\ AwakeOnce)
      BY <1>1 DEF vars, NewOK, FreeOK, AwakeOnce
    <2>4. SInv => (Counted /\ InStep /\ FullSleeps /\ ClearOK /\ Longest)'
      <3>1. \A s \in Inputs : Same(s)
        BY <1>1 DEF vars, Same
      <3> QED BY <1>1, <2>2, <3>1, QuietStep DEF vars
    <2> QED BY <1>1, <2>1, <2>3, <2>4 DEF IInv, SInv, vars
  <1>2. ASSUME NEW t \in Inputs, Get(t) \/ Open(t) \/ Reject(t) \/ Mix(t) \/ FreeInput(t)
        PROVE  IInv'
    BY <1>2, GetStep, OpenStep, RejectStep, MixStep, FreeInputStep
  <1>3. ASSUME NEW t \in Tracks, Complete(t) PROVE IInv'
    BY <1>3, CompleteStep
  <1>4. CASE Run \/ Yield
    BY <1>4, RunStep, YieldStep
  <1>5. CASE OpenOut \/ ReadFirst \/ ReadBlock \/ ReadCleared \/ ReadEarly \/ ReadError
    BY <1>5, OpenOutStep, ReadFirstStep, ReadBlockStep, ReadClearedStep, ReadEarlyStep, ReadErrorStep
  <1>6. CASE PlayWaits \/ PlayNext \/ PlayStops \/ FreeOut
    BY <1>6, PlayWaitsStep, PlayNextStep, PlayStopsStep, FreeOutStep
  <1>7. CASE Terminated
    BY <1>1, <1>7 DEF Terminated
  <1> QED BY <1>1, <1>2, <1>3, <1>4, <1>5, <1>6, <1>7 DEF Next, Step

(* The inductive invariant holds of the mixer whatever its inputs do. *)
THEOREM Invariance == Spec => []IInv
  <1>1. Init => IInv
    BY InitIInv
  <1>2. IInv /\ [Next]_vars => IInv'
    BY StepIInv
  <1> QED BY <1>1, <1>2, PTL DEF Spec

(* All variables keep their types: trk_count never falls below zero, and no task is
   queued twice. *)
THEOREM TypeCorrect == Spec => []TypeOK
  <1>1. IInv => TypeOK
    BY DEF IInv
  <1> QED BY <1>1, Invariance, PTL

(* Every input has given mixer-out what was passed on and its part of the block, and
   at the end all of the longest input has been passed on. *)
THEOREM MixedInStepHolds == Spec => []MixedInStep
  <1>1. IInv => MixedInStep
    <2> SUFFICES ASSUME IInv PROVE MixedInStep
      OBVIOUS
    <2>1. ASSUME NEW t \in Opened, MixerExists PROVE mi[t].done = outpos + mi[t].off
      BY <2>1 DEF IInv, SInv, InStep, Opened, MixerExists
    <2>2. ASSUME mx.at = "done" PROVE outpos = Max({mi[t].done : t \in Inputs} \cup {0})
      <3> DEFINE S == {mi[t].done : t \in Inputs} \cup {0}
      <3>1. /\ mx.len = 0 /\ outpos \in Nat /\ (\A t \in Inputs : mi[t].done <= outpos + mx.len)
            /\ outpos + mx.len # 0 => \E t \in Inputs : mi[t].done = outpos + mx.len
        BY <2>2 DEF IInv, SInv, ClearOK, Longest, TypeOK
      <3>2. \A t \in Inputs : mi[t].done \in Nat
        BY InputTyped DEF IInv, InputType
      <3>3. outpos \in S /\ \A x \in S : outpos >= x
        BY <3>1, <3>2
      <3>4. \A x \in S : x \in Nat
        BY <3>2
      <3> HIDE DEF S
      <3>5. Max(S) \in S /\ \A x \in S : Max(S) >= x
        BY <3>3 DEF Max
      <3>6. outpos = Max(S)
        BY <3>3, <3>4, <3>5
      <3> QED BY <3>6 DEF S
    <2> QED BY <2>1, <2>2 DEF MixedInStep
  <1> QED BY <1>1, Invariance, PTL

(* A block that is passed on holds the data of every input that is not at its end. *)
THEOREM BlockIsCompleteHolds == Spec => []BlockIsComplete
  <1>1. IInv => BlockIsComplete
    <2> SUFFICES ASSUME IInv, mx.at = "play", NEW t \in Inputs, mi[t].at = "open"
                 PROVE  mi[t].off = Size
      BY DEF BlockIsComplete
    <2>1. TypeOK /\ SInv
      BY DEF IInv
    <2>2. Ready(mx)
      BY <2>1, PlayedIsReady
    <2> QED BY <2>1, <2>2, ReadyMeansFull
  <1> QED BY <1>1, Invariance, PTL

-----------------------------------------------------------------------------
(* If no track fails early, and mixer-out has not failed, no ended input is
   counted. *)
Exact ==
    mx.at # "end" /\ ~mx.err /\ ~EarlyErrors => mx.trk_count = Cardinality(NotEnded)

LEMMA KeptExact ==
  ASSUME Exact, mx'.trk_count = mx.trk_count, mx.err => mx'.err, mx.at = "end" => mx'.at = "end",
         \A t \in Inputs : mi'[t].at # "end" <=> mi[t].at # "end"
  PROVE  Exact'
  <1>1. NotEnded' = NotEnded
    BY DEF NotEnded
  <1> QED BY <1>1 DEF Exact

LEMMA StepExact == IInv /\ Exact /\ [Next]_vars => Exact'
  <1> SUFFICES ASSUME IInv, Exact, [Next]_vars PROVE Exact'
    OBVIOUS
  <1> USE NoneIsNoTrack
  <1>0. TypeOK /\ mx \in MixerType /\ mi \in [Inputs -> InputType]
    BY InputTyped DEF IInv, TypeOK, MixerType
  <1>1. CASE UNCHANGED <<mi, mx>>
    BY <1>1, KeptExact
  <1>2. ASSUME NEW t \in Inputs, Get(t) PROVE Exact'
    <2>1. UNCHANGED mx
      BY <1>2 DEF Get
    <2>2. CASE mi' = mi
      BY <1>1, <2>1, <2>2
    <2>3. CASE EarlyErrors
      BY <2>3 DEF Exact
    <2>4. CASE ~EarlyErrors /\ mi' # mi
      <3>1. /\ mi[t].at \in {"new", "open"}
            /\ \/ \E n \in 0 .. mi[t].left, last \in BOOLEAN :
                       mi' = [mi EXCEPT ![t].have = n, ![t].left = @ - n, ![t].last = last]
               \/ mi[t].at = "open" /\ mi' = [mi EXCEPT ![t].at = IF @ = "new" THEN "end" ELSE "failed"]
        BY <1>2, <2>4 DEF Get
      <3>2. \A s \in Inputs : mi'[s].at # "end" <=> mi[s].at # "end"
        <4>1. ASSUME NEW n, NEW last, mi' = [mi EXCEPT ![t].have = n, ![t].left = @ - n, ![t].last = last]
              PROVE  \A s \in Inputs : mi'[s].at = mi[s].at
          BY <1>0, <4>1 DEF InputType
        <4>2. ASSUME mi[t].at = "open", mi' = [mi EXCEPT ![t].at = IF @ = "new" THEN "end" ELSE "failed"]
              PROVE  \A s \in Inputs : mi'[s].at # "end" <=> mi[s].at # "end"
          BY <1>0, <4>2 DEF InputType
        <4> QED BY <3>1, <4>1, <4>2
      <3> QED BY <2>1, <3>2, KeptExact
    <2> QED BY <2>2, <2>3, <2>4
  <1>3. ASSUME NEW t \in Inputs, Open(t) PROVE Exact'
    <2>1. UNCHANGED mx /\ mi[t].at = "new" /\ run.t = t
      BY <1>3 DEF Open, Running
    <2>2. CASE MixerExists /\ ~mx.err
      <3>1. mi' = [mi EXCEPT ![t].at = "open"]
        BY <1>3, <2>2 DEF Open
      <3>2. \A s \in Inputs : mi'[s].at # "end" <=> mi[s].at # "end"
        BY <1>0, <2>1, <3>1 DEF InputType
      <3> QED BY <2>1, <3>2, KeptExact
    <2>3. CASE ~(MixerExists /\ ~mx.err)
      <3>1. mx.at # "new"
        BY <2>1 DEF IInv, SInv, NewOK, NoTrack
      <3> QED BY <2>1, <2>3, <3>1 DEF Exact, MixerExists
    <2> QED BY <2>2, <2>3
  <1>4. ASSUME NEW t \in Inputs, Reject(t) PROVE Exact'
    <2>1. mi[t].at = "open" /\ mi' = [mi EXCEPT ![t].at = "failed"] /\ (mx' = mx \/ mx' = Failed(mx))
      BY <1>4 DEF Reject
    <2>2. \A s \in Inputs : mi'[s].at # "end" <=> mi[s].at # "end"
      BY <1>0, <2>1 DEF InputType
    <2>3. mx'.trk_count = mx.trk_count /\ mx'.at = mx.at /\ (mx.err => mx'.err)
      BY <1>0, <2>1 DEF Failed, MixerType
    <2> QED BY <2>2, <2>3, KeptExact
  <1>5. ASSUME NEW t \in Inputs, Mix(t) PROVE Exact'
    <2> DEFINE i == mi[t]
               n == Fitting(i)
               off == i.off + n
               full == off = Size \/ i.last
               written == Written(mx, off, full)
               wrote == [i EXCEPT !.off = off, !.have = @ - n, !.filled = @ \/ full, !.done = @ + n]
    <2>1. /\ mi[t].at = "open" /\ MixerExists /\ ~mx.err
          /\ \/ /\ mi' = [mi EXCEPT ![t] = [wrote EXCEPT !.at = "end", !.have = 0]]
                /\ mx' = Closed(written, wrote)
             \/ /\ mi' = [mi EXCEPT ![t] = [wrote EXCEPT !.more = TRUE]] \/ mi' = [mi EXCEPT ![t] = wrote]
                /\ mx' = written
      BY <1>5 DEF Mix
    <2>2. /\ written.trk_count = mx.trk_count /\ written.err = mx.err /\ written.at = mx.at
          /\ DOMAIN written = DOMAIN mx
      BY <1>0 DEF Written, MixerType
    <2>3. /\ wrote.at = "open" /\ [wrote EXCEPT !.more = TRUE].at = "open"
          /\ [wrote EXCEPT !.at = "end", !.have = 0].at = "end"
      BY <1>0, <2>1 DEF InputType
    <2>4. /\ Closed(written, wrote).trk_count = mx.trk_count - 1 /\ Closed(written, wrote).err = mx.err
          /\ Closed(written, wrote).at = mx.at
      BY <1>0, <2>2 DEF Closed, MixerType
    <2> HIDE DEF wrote, written
    <2>5. CASE mi' = [mi EXCEPT ![t] = [wrote EXCEPT !.at = "end", !.have = 0]] /\ mx' = Closed(written, wrote)
      <3>1. NotEnded' = NotEnded \ {t}
        BY <1>0, <2>1, <2>3, <2>5 DEF NotEnded
      <3>2. Cardinality(NotEnded \ {t}) = Cardinality(NotEnded) - 1
        BY <1>0, <2>1, OneLess
      <3> QED BY <2>4, <2>5, <3>1, <3>2 DEF Exact
    <2>6. CASE /\ mi' = [mi EXCEPT ![t] = [wrote EXCEPT !.more = TRUE]] \/ mi' = [mi EXCEPT ![t] = wrote]
               /\ mx' = written
      <3>1. \A s \in Inputs : mi'[s].at # "end" <=> mi[s].at # "end"
        BY <1>0, <2>1, <2>3, <2>6
      <3> QED BY <2>2, <2>6, <3>1, KeptExact
    <2> QED BY <2>1, <2>5, <2>6
  <1>6. ASSUME NEW t \in Inputs, FreeInput(t) PROVE Exact'
    <2>1. /\ mi' = [mi EXCEPT ![t].at = "end"]
          /\ IF mi[t].at = "failed" /\ MixerExists THEN mx' = Closed(mx, mi[t]) ELSE mx' = mx
          /\ run = NoTrack /\ q # <<>> /\ Head(q) = <<"free", t>>
      BY <1>6 DEF FreeInput
    <2>2. Contains(q, <<"free", t>>)
      BY <1>0, <2>1, QueueType, TakenTask
    <2>3. CASE mx.at = "end"
      BY <2>1, <2>3 DEF Exact, MixerExists
    <2>4. CASE mx.at # "end"
      <3>1. mi[t].at \in {"failed", "end"} /\ mx.at # "new"
        BY <2>2, <2>4 DEF IInv, SInv, FreeOK, NewOK
      <3>2. \A s \in Inputs : s # t => mi'[s] = mi[s]
        BY <2>1
      <3>3. mi'[t].at = "end"
        BY <1>0, <2>1 DEF InputType
      <3>4. CASE mi[t].at = "end"
        <4>1. \A s \in Inputs : mi'[s].at # "end" <=> mi[s].at # "end"
          BY <3>2, <3>3, <3>4
        <4> QED BY <2>1, <3>4, <4>1, KeptExact
      <3>5. CASE mi[t].at = "failed"
        <4>1. mx' = Closed(mx, mi[t])
          BY <2>1, <2>4, <3>1, <3>5 DEF MixerExists
        <4>2. mx'.trk_count = mx.trk_count - 1 /\ mx'.err = mx.err /\ mx'.at = mx.at
          BY <1>0, <4>1 DEF Closed, MixerType
        <4>3. NotEnded' = NotEnded \ {t}
          BY <3>2, <3>3 DEF NotEnded
        <4>4. Cardinality(NotEnded \ {t}) = Cardinality(NotEnded) - 1
          BY <1>0, <3>5, OneLess
        <4> QED BY <4>2, <4>3, <4>4 DEF Exact
      <3> QED BY <3>1, <3>4, <3>5
    <2> QED BY <2>3, <2>4
  <1>7. CASE OpenOut \/ ReadFirst \/ ReadBlock \/ ReadError \/ PlayNext \/ PlayStops
    <2>1. UNCHANGED mi /\ mx.at # "end"
      BY <1>7 DEF OpenOut, ReadFirst, ReadBlock, ReadError, PlayNext, PlayStops
    <2>2. mx'.trk_count = mx.trk_count /\ mx'.err = mx.err
      BY <1>0, <1>7 DEF OpenOut, ReadFirst, ReadBlock, ReadError, PlayNext, PlayStops, MixerType
    <2> QED BY <2>1, <2>2, KeptExact
  <1>8. CASE ReadCleared \/ ReadEarly
    <2>1. mx.at = "mix" /\ mx'.trk_count = mx.trk_count /\ mx'.err = mx.err
      <3>1. CASE ReadCleared
        <4> DEFINE cleared == [mx EXCEPT !.clear = FALSE, !.len = 0, !.filled = 0]
        <4>1. mx.at = "mix" /\ (mx' = cleared \/ mx' = [cleared EXCEPT !.at = "done"])
          BY <3>1 DEF ReadCleared
        <4> QED BY <1>0, <4>1 DEF MixerType
      <3>2. CASE ReadEarly
        BY <1>0, <3>2 DEF ReadEarly, MixerType
      <3> QED BY <1>8, <3>1, <3>2
    <2>2. \A s \in Inputs : mi'[s].at = mi[s].at
      <3> DEFINE inputs == [t \in Inputs |-> IF t \in Opened THEN Restarted(mi[t]) ELSE mi[t]]
                 notified(i) == [t \in Inputs |-> IF t \in Opened THEN [i[t] EXCEPT !.more = FALSE] ELSE i[t]]
      <3>1. mi' = mi \/ mi' = inputs \/ mi' = notified(mi) \/ mi' = notified(inputs)
        BY <1>8 DEF ReadCleared, ReadEarly, Notify
      <3>2. \A s \in Inputs : Restarted(mi[s]).at = mi[s].at /\ [mi[s] EXCEPT !.more = FALSE].at = mi[s].at
                               /\ [Restarted(mi[s]) EXCEPT !.more = FALSE].at = mi[s].at
        BY <1>0 DEF InputType, Restarted
      <3> QED BY <3>1, <3>2
    <2> QED BY <2>1, <2>2, KeptExact
  <1>9. CASE FreeOut
    <2>1. mx'.at = "end"
      BY <1>0, <1>9 DEF FreeOut, MixerType
    <2> QED BY <2>1 DEF Exact
  <1>10. CASE Run \/ Yield \/ PlayWaits \/ Terminated \/ UNCHANGED vars \/ \E t \in Tracks : Complete(t)
    BY <1>1, <1>10 DEF Run, Yield, PlayWaits, Terminated, Complete, vars
  <1> QED BY <1>2, <1>3, <1>4, <1>5, <1>6, <1>7, <1>8, <1>9, <1>10 DEF Next, Step

(* If no track fails before it reaches mixer-in, trk_count is the number of inputs
   that are to come or open, and filled the number of those whose part of the block is
   complete, as long as the mixer works. *)
THEOREM CountersAgreeHolds == Spec => []CountersAgree
  <1>1. Init => Exact
    <2> SUFFICES ASSUME Init PROVE Exact
      OBVIOUS
    <2>1. NotEnded = Inputs
      BY DEF Init, NotEnded
    <2> QED BY <2>1, InputsFinite DEF Init, Exact
  <1>2. IInv /\ Exact /\ [Next]_vars => Exact'
    BY StepExact
  <1>3. IInv /\ Exact => CountersAgree
    <2> SUFFICES ASSUME IInv, Exact, MixerExists, ~mx.err, ~EarlyErrors
                 PROVE  /\ mx.trk_count = Cardinality(NotEnded)
                        /\ mx.filled = Cardinality(Filled)
      BY DEF CountersAgree, NotEnded, Filled
    <2> QED BY DEF Exact, MixerExists, IInv, SInv, Counted
  <1> QED BY <1>1, <1>2, <1>3, Invariance, PTL DEF Spec
=============================================================================
