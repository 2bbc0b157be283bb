--------------------------- MODULE TrackLifeProofs ---------------------------
(***************************************************************************)
(* Safety of the life of tracks for any number of tracks, of playbacks, of *)
(* tracks on the other worker, and of pauses.                              *)
(***************************************************************************)
EXTENDS TrackLife, FiniteSetTheorems, SequenceTheorems, TLAPS

(* What posting, deleting and taking a task does to a queue. *)

(* fftask_post() of a task that is not queued adds it at the end. *)
LEMMA PostedTask ==
  ASSUME NEW T, NEW queue \in Seq(T), IsInjective(queue), NEW task \in T
  PROVE  /\ Posted(queue, task) \in Seq(T) /\ IsInjective(Posted(queue, task))
         /\ \A x : Contains(Posted(queue, task), x) <=> Contains(queue, x) \/ x = task
  <1>1. CASE Contains(queue, task)
    BY <1>1 DEF Posted
  <1>2. CASE ~Contains(queue, task)
    <2> DEFINE new == Append(queue, task)
    <2>1. new \in Seq(T) /\ Len(new) = Len(queue) + 1 /\ Len(queue) \in Nat
          /\ (\A i \in 1 .. Len(queue) : new[i] = queue[i]) /\ new[Len(queue) + 1] = task
      BY AppendProperties, LenProperties
    <2>2. DOMAIN new = 1 .. Len(new) /\ DOMAIN queue = 1 .. Len(queue)
      BY <2>1, LenProperties
    <2>3. IsInjective(new)
      BY <1>2, <2>1, <2>2 DEF IsInjective, Contains
    <2>4. ASSUME NEW x PROVE Contains(new, x) <=> Contains(queue, x) \/ x = task
      BY <2>1 DEF Contains
    <2> QED BY <1>2, <2>1, <2>3, <2>4 DEF Posted
  <1> QED BY <1>1, <1>2

(* A task is queued at one place, so deleting it leaves none. *)
LEMMA DeletedTask ==
  ASSUME NEW T, NEW queue \in Seq(T), IsInjective(queue), NEW task
  PROVE  /\ Deleted(queue, task) \in Seq(T) /\ IsInjective(Deleted(queue, task))
         /\ \A x : Contains(Deleted(queue, task), x) <=> Contains(queue, x) /\ x # task
  <1>1. CASE ~Contains(queue, task)
    BY <1>1 DEF Deleted, Contains
  <1>2. CASE Contains(queue, task)
    <2>0. DOMAIN queue = 1 .. Len(queue) /\ Len(queue) \in Nat
      BY LenProperties
    <2> DEFINE k == CHOOSE i \in DOMAIN queue : queue[i] = task
               new == RemoveAt(queue, k)
    <2>1. k \in 1 .. Len(queue) /\ queue[k] = task
      BY <1>2, <2>0 DEF Contains
    <2>2. \A i \in 1 .. Len(queue) : queue[i] \in T
      BY ElementOfSeq
    <2> DEFINE n == Len(queue)
               a == SubSeq(queue, 1, k - 1)
               b == SubSeq(queue, k + 1, n)
    <2> HIDE DEF k
    <2>3. a \in Seq(T) /\ Len(a) = k - 1 /\ \A i \in 1 .. k - 1 : a[i] = queue[i]
      <3>1. /\ a \in Seq(T) /\ Len(a) = IF 1 <= k - 1 THEN (k - 1) - 1 + 1 ELSE 0
            /\ \A i \in 1 .. (k - 1) - 1 + 1 : a[i] = queue[1 + i - 1]
        BY <2>0, <2>1, <2>2, SubSeqProperties
      <3> HIDE DEF a
      <3> QED BY <3>1, <2>0, <2>1
    <2>4. b \in Seq(T) /\ Len(b) = n - k /\ \A i \in 1 .. n - k : b[i] = queue[k + i]
      <3>1. /\ b \in Seq(T) /\ Len(b) = IF k + 1 <= n THEN n - (k + 1) + 1 ELSE 0
            /\ \A i \in 1 .. n - (k + 1) + 1 : b[i] = queue[(k + 1) + i - 1]
        BY <2>0, <2>1, <2>2, SubSeqProperties
      <3> HIDE DEF b, n
      <3>2. n \in Nat /\ k \in 1 .. n
        BY <2>0, <2>1 DEF n
      <3> QED BY <3>1, <3>2
    <2>5. /\ new \in Seq(T) /\ Len(new) = Len(queue) - 1
          /\ \A i \in 1 .. Len(queue) - 1 : new[i] = IF i < k THEN queue[i] ELSE queue[i + 1]
      <3>1. new = a \o b
        BY DEF RemoveAt
      <3> HIDE DEF a, b, new
      <3>2. /\ new \in Seq(T) /\ Len(new) = Len(a) + Len(b)
            /\ \A i \in 1 .. Len(a) + Len(b) : new[i] = IF i <= Len(a) THEN a[i] ELSE b[i - Len(a)]
        BY <3>1, <2>3, <2>4, ConcatProperties
      <3>3. n \in Nat /\ k \in 1 .. n
        BY <2>0, <2>1
      <3> HIDE DEF n
      <3>4. ASSUME NEW i \in 1 .. n - 1 PROVE new[i] = IF i < k THEN queue[i] ELSE queue[i + 1]
        <4>1. CASE i < k
          BY <4>1, <3>2, <3>3, <2>3, <2>4
        <4>2. CASE i >= k
          <5>1. i - Len(a) \in 1 .. n - k /\ k + (i - Len(a)) = i + 1
            BY <4>2, <3>3, <2>3
          <5>2. new[i] = b[i - Len(a)]
            BY <4>2, <3>2, <3>3, <2>3, <2>4
          <5>3. b[i - Len(a)] = queue[k + (i - Len(a))]
            BY <5>1, <2>4
          <5> QED BY <4>2, <5>1, <5>2, <5>3, <3>3
        <4> QED BY <4>1, <4>2, <3>3
      <3>5. Len(new) = n - 1
        BY <3>2, <3>3, <2>3, <2>4
      <3> QED BY <3>2, <3>4, <3>5 DEF n
    <2>6. DOMAIN new = 1 .. Len(queue) - 1
      BY <2>5, LenProperties
    <2> HIDE DEF new
    <2>7. IsInjective(new)
      <3> SUFFICES ASSUME NEW i \in 1 .. Len(queue) - 1, NEW j \in 1 .. Len(queue) - 1, new[i] = new[j]
                   PROVE  i = j
        BY <2>6 DEF IsInjective
      <3>1. \A x, y \in 1 .. Len(queue) : queue[x] = queue[y] => x = y
        BY <2>0 DEF IsInjective
      <3> QED BY <3>1, <2>0, <2>1, <2>5
    <2>8. ASSUME NEW x, Contains(new, x) PROVE Contains(queue, x) /\ x # task
      BY <2>0, <2>1, <2>5, <2>8 DEF IsInjective, Contains
    <2>9. ASSUME NEW x, Contains(queue, x), x # task PROVE Contains(new, x)
      <3>1. PICK i \in 1 .. Len(queue) : queue[i] = x
        BY <2>9 DEF Contains
      <3>2. i # k
        BY <2>1, <2>9, <3>1
      <3>3. CASE i < k
        BY <2>0, <2>1, <2>5, <3>1, <3>3 DEF Contains
      <3>4. CASE i > k
        <4>1. i - 1 \in 1 .. Len(queue) - 1 /\ new[i - 1] = x
          BY <2>0, <2>1, <2>5, <3>1, <3>4
        <4> QED BY <4>1, <2>5 DEF Contains
      <3> QED BY <2>0, <2>1, <3>1, <3>2, <3>3, <3>4
    <2>10. Deleted(queue, task) = new
      BY <1>2 DEF Deleted, new, k
    <2> QED BY <2>5, <2>7, <2>8, <2>9, <2>10
  <1> QED BY <1>1, <1>2

(* Taking the first task leaves the others. *)
LEMMA TakenTask ==
  ASSUME NEW T, NEW queue \in Seq(T), IsInjective(queue), queue # <<>>
  PROVE  /\ Tail(queue) \in Seq(T) /\ IsInjective(Tail(queue))
         /\ Head(queue) \in T /\ Contains(queue, Head(queue))
         /\ \A x : Contains(Tail(queue), x) <=> Contains(queue, x) /\ x # Head(queue)
  <1>1. Len(queue) \in Nat \ {0} /\ DOMAIN queue = 1 .. Len(queue)
    BY EmptySeq, LenProperties
  <1>2. Head(queue) \in T /\ Tail(queue) \in Seq(T) /\ Len(Tail(queue)) = Len(queue) - 1
        /\ \A i \in 1 .. Len(queue) - 1 : Tail(queue)[i] = queue[i + 1]
    BY HeadTailProperties
  <1>3. Head(queue) = queue[1]
    OBVIOUS
  <1>4. DOMAIN Tail(queue) = 1 .. Len(queue) - 1
    BY <1>2, LenProperties
  <1>5. IsInjective(Tail(queue))
    BY <1>1, <1>2, <1>4 DEF IsInjective
  <1>6. ASSUME NEW x, Contains(Tail(queue), x) PROVE Contains(queue, x) /\ x # Head(queue)
    BY <1>1, <1>2, <1>3, <1>6 DEF IsInjective, Contains
  <1>7. ASSUME NEW x, Contains(queue, x), x # Head(queue) PROVE Contains(Tail(queue), x)
    <2>1. PICK i \in 1 .. Len(queue) : queue[i] = x
      BY <1>7 DEF Contains
    <2>2. i - 1 \in 1 .. Len(queue) - 1 /\ Tail(queue)[i - 1] = x
      BY <1>1, <1>2, <1>3, <1>7, <2>1
    <2> QED BY <2>2, <1>2 DEF Contains
  <1> QED BY <1>1, <1>2, <1>3, <1>5, <1>6, <1>7 DEF Contains

(* SetToSeq() lists each element of a finite set once. *)
LEMMA ListedOnce ==
  ASSUME NEW S, IsFiniteSet(S)
  PROVE  /\ SetToSeq(S) \in Seq(S) /\ IsInjective(SetToSeq(S))
         /\ \A x : Contains(SetToSeq(S), x) <=> x \in S
  <1> DEFINE n == Cardinality(S)
  <1>1. n \in Nat /\ \E f \in [1 .. n -> S] : IsInjective(f) /\ \A x \in S : \E i \in 1 .. n : f[i] = x
    BY FS_CardinalityType DEF ExistsBijection, Bijection, Injection, Surjection
  <1>2. SetToSeq(S) \in [1 .. n -> S] /\ IsInjective(SetToSeq(S))
    BY <1>1 DEF SetToSeq
  <1>3. SetToSeq(S) \in Seq(S) /\ Len(SetToSeq(S)) = n
    BY <1>1, <1>2
  <1>4. SetToSeq(S) \in Injection(1 .. n, S)
    BY <1>2 DEF Injection
  <1>5. IsFiniteSet(1 .. n) /\ Cardinality(1 .. n) = n
    BY <1>1, FS_Interval
  <1>6. SetToSeq(S) \in Surjection(1 .. n, S)
    BY <1>4, <1>5, FS_Injection
  <1> QED BY <1>2, <1>3, <1>6 DEF Surjection, Contains

(* fftask_post() of several tasks adds those that are not queued. *)
LEMMA AllPostedTasks ==
  ASSUME NEW T, NEW queue \in Seq(T), IsInjective(queue), NEW tasks \in SUBSET T, IsFiniteSet(tasks)
  PROVE  /\ AllPosted(queue, tasks) \in Seq(T) /\ IsInjective(AllPosted(queue, tasks))
         /\ \A x : Contains(AllPosted(queue, tasks), x) <=> Contains(queue, x) \/ x \in tasks
  <1> DEFINE S == tasks \ Range(queue)
             new == SetToSeq(S)
             all == queue \o new
  <1>1. S \subseteq T
    OBVIOUS
  <1>2. IsFiniteSet(S)
    BY FS_Subset
  <1>3. new \in Seq(S) /\ IsInjective(new) /\ \A x : Contains(new, x) <=> x \in S
    BY <1>2, ListedOnce
  <1>4. new \in Seq(T)
    BY <1>1, <1>3, SeqMonotonic
  <1> HIDE DEF new
  <1>5. Len(queue) \in Nat /\ Len(new) \in Nat /\ DOMAIN queue = 1 .. Len(queue) /\ DOMAIN new = 1 .. Len(new)
    BY <1>4, LenProperties
  <1>6. all \in Seq(T) /\ Len(all) = Len(queue) + Len(new)
        /\ \A i \in 1 .. Len(queue) + Len(new) :
               all[i] = IF i <= Len(queue) THEN queue[i] ELSE new[i - Len(queue)]
    BY <1>4, ConcatProperties
  <1>7. DOMAIN all = 1 .. Len(queue) + Len(new)
    BY <1>6, LenProperties
  <1> HIDE DEF all
  <1>8. \A i \in 1 .. Len(queue), j \in 1 .. Len(new) : queue[i] # new[j]
    <2>1. \A j \in 1 .. Len(new) : new[j] \in S
      BY <1>3 DEF Contains
    <2>2. \A i \in 1 .. Len(queue) : queue[i] \in Range(queue)
      BY <1>5 DEF Range
    <2> QED BY <2>1, <2>2
  <1>9. IsInjective(all)
    <2> SUFFICES ASSUME NEW i \in 1 .. Len(queue) + Len(new), NEW j \in 1 .. Len(queue) + Len(new),
                        all[i] = all[j]
                 PROVE  i = j
      BY <1>7 DEF IsInjective
    <2>1. CASE i <= Len(queue) /\ j <= Len(queue)
      BY <2>1, <1>5, <1>6 DEF IsInjective
    <2>2. CASE i <= Len(queue) /\ j > Len(queue)
      BY <2>2, <1>5, <1>6, <1>8
    <2>3. CASE i > Len(queue) /\ j <= Len(queue)
      BY <2>3, <1>5, <1>6, <1>8
    <2>4. CASE i > Len(queue) /\ j > Len(queue)
      <3>1. i - Len(queue) \in 1 .. Len(new) /\ j - Len(queue) \in 1 .. Len(new)
            /\ new[i - Len(queue)] = new[j - Len(queue)]
        BY <2>4, <1>5, <1>6
      <3>2. i - Len(queue) = j - Len(queue)
        BY <3>1, <1>3, <1>5 DEF IsInjective
      <3> QED BY <3>2, <1>5
    <2> QED BY <2>1, <2>2, <2>3, <2>4, <1>5
  <1>10. ASSUME NEW x PROVE Contains(all, x) <=> Contains(queue, x) \/ Contains(new, x)
    <2>1. ASSUME Contains(all, x) PROVE Contains(queue, x) \/ Contains(new, x)
      <3>1. PICK i \in 1 .. Len(queue) + Len(new) : all[i] = x
        BY <2>1, <1>6 DEF Contains
      <3>2. CASE i <= Len(queue)
        BY <3>1, <3>2, <1>5, <1>6 DEF Contains
      <3>3. CASE i > Len(queue)
        <4>1. i - Len(queue) \in 1 .. Len(new) /\ new[i - Len(queue)] = x
          BY <3>1, <3>3, <1>5, <1>6
        <4> QED BY <4>1 DEF Contains
      <3> QED BY <3>1, <3>2, <3>3, <1>5
    <2>2. ASSUME Contains(queue, x) PROVE Contains(all, x)
      BY <2>2, <1>5, <1>6 DEF Contains
    <2>3. ASSUME Contains(new, x) PROVE Contains(all, x)
      <3>1. PICK j \in 1 .. Len(new) : new[j] = x
        BY <2>3 DEF Contains
      <3>2. Len(queue) + j \in 1 .. Len(queue) + Len(new) /\ all[Len(queue) + j] = x
        BY <3>1, <1>5, <1>6
      <3> QED BY <3>2, <1>6 DEF Contains
    <2> QED BY <2>1, <2>2, <2>3
  <1>11. ASSUME NEW x PROVE x \in Range(queue) <=> Contains(queue, x)
    BY <1>5 DEF Range, Contains
  <1>12. AllPosted(queue, tasks) = all
    BY DEF AllPosted, all, new
  <1> QED BY <1>3, <1>6, <1>9, <1>10, <1>11, <1>12

-----------------------------------------------------------------------------

(* The queue that a task of a track is posted to, and only to. *)
Home(task) == IF task[1] = "tsk_main" THEN "main" ELSE Worker(task[2])
Queued(kind, t) == Contains(q[Home(<<kind, t>>)], <<kind, t>>)

Kinds == {"tsk", "tsk_stop", "tsk_main"}

AtHome ==
    /\ \A th \in Threads, task \in Tasks : Contains(q[th], task) => th = Home(task)
    /\ \A t \in Tracks : Inside("worker", t) => t \in Parallel

(* Nothing refers to the track. *)
Alone(t) == (\A th \in Threads : ~Inside(th, t)) /\ (\A k \in Kinds : ~Queued(k, t)) /\ ~op[t]

(* A track that was not started, or is freed. *)
Unused(t) == st[t] \in {"none", "freed"} \/ (st[t] = "STOPPED" /\ ~asked[t])
UnusedAlone == \A t \in Tracks \ Parallel : Unused(t) => Alone(t)

(* While trk_process() is not inside an active track, something will call it. *)
Processed(t) == \E th \in Threads : run[th].at = "process" /\ run[th].t = t
Awake(t) == st[t] = "ACTIVE" /\ ~finished[t] /\ ~Processed(t) => op[t] \/ Queued("tsk", t)

Stopping(t) == \E th \in Threads : run[th].at = "onstop" /\ run[th].t = t

(* What follows a stop. *)
StopFollowed(t) ==
    /\ Queued("tsk_stop", t) => asked[t]
    /\ asked[t] => st[t] # "none" /\ (st[t] = "freed" \/ Queued("tsk_stop", t) \/ fstop[t])
    /\ st[t] = "STOPPED" /\ fstop[t] => finished[t] \/ Stopping(t)
    /\ st[t] = "none" => ~fstop[t]

(* What follows trk_fin(). *)
FinFollowed(t) ==
    /\ finished[t] => st[t] = "freed" \/ Queued("tsk_main", t)
    /\ st[t] = "ERR" => finished[t]

TrackInv(t) == Awake(t) /\ StopFollowed(t) /\ FinFollowed(t)

(* The last track that is freed ends the program. *)
ExitIsNotMissed == stop_sig /\ ~exited => Live # {}

IInv ==
    TypeOK /\ AtHome /\ UnusedAlone /\ (\A t \in Tracks : TrackInv(t)) /\ ExitIsNotMissed

-----------------------------------------------------------------------------
QueuesOK(queues) == queues \in [Threads -> Seq(Tasks)] /\ \A th \in Threads : IsInjective(queues[th])

RunType == [at : {"process", "onstop"}, t : Tracks, nested : BOOLEAN, len : Nat]

(* A thread is idle, or inside a function of a track. *)
LEMMA RunTyped ==
  ASSUME TypeOK
  PROVE  /\ run \in [Threads -> {Idle} \cup RunType]
         /\ \A th \in Threads : /\ run[th].at # "idle" => run[th] \in RunType /\ run[th].t \in Tracks
                                /\ run[th].at = "idle" <=> run[th] = Idle
  BY DEF TypeOK, RunType, Idle

LEMMA WorkerType == \A t \in Tracks : Worker(t) \in Threads
  BY DEF Worker, Threads

LEMMA PostToQueues ==
  ASSUME NEW queues, QueuesOK(queues), NEW th \in Threads, NEW task \in Tasks
  PROVE  /\ QueuesOK(PostTo(queues, th, task))
         /\ \A w \in Threads : \A x : Contains(PostTo(queues, th, task)[w], x) <=>
                Contains(queues[w], x) \/ (w = th /\ x = task)
  <1> DEFINE new == Posted(queues[th], task)
  <1>1. queues[th] \in Seq(Tasks) /\ IsInjective(queues[th])
    BY DEF QueuesOK
  <1>2. new \in Seq(Tasks) /\ IsInjective(new) /\ \A x : Contains(new, x) <=> Contains(queues[th], x) \/ x = task
    BY <1>1, PostedTask
  <1>3. PostTo(queues, th, task) = [queues EXCEPT ![th] = new]
    BY DEF PostTo
  <1> HIDE DEF new
  <1> QED BY <1>2, <1>3 DEF QueuesOK

(* Posting one task of a track. *)
LEMMA PostedKind ==
  ASSUME QueuesOK(q), NEW u \in Tracks, NEW k \in Kinds, NEW th \in Threads, q' = PostTo(q, th, <<k, u>>)
  PROVE  /\ QueuesOK(q')
         /\ \A w \in Threads : \A x : Contains(q'[w], x) <=> Contains(q[w], x) \/ (w = th /\ x = <<k, u>>)
  <1>1. <<k, u>> \in Tasks
    BY DEF Tasks, Kinds
  <1> DEFINE task == <<k, u>>
             new == PostTo(q, th, task)
  <1> HIDE DEF task
  <1>2. /\ QueuesOK(new)
        /\ \A w \in Threads : \A x : Contains(new[w], x) <=> Contains(q[w], x) \/ (w = th /\ x = task)
    BY <1>1, PostToQueues DEF task
  <1>3. q' = new
    BY DEF task
  <1> HIDE DEF new
  <1> QED BY <1>2, <1>3 DEF task

LEMMA TailQueues ==
  ASSUME NEW queues, QueuesOK(queues), NEW th \in Threads, queues[th] # <<>>
  PROVE  /\ QueuesOK([queues EXCEPT ![th] = Tail(@)])
         /\ Head(queues[th]) \in Tasks /\ Contains(queues[th], Head(queues[th]))
         /\ \A w \in Threads : \A x : Contains([queues EXCEPT ![th] = Tail(@)][w], x) <=>
                Contains(queues[w], x) /\ ~(w = th /\ x = Head(queues[th]))
  <1> DEFINE new == Tail(queues[th])
  <1>1. queues[th] \in Seq(Tasks) /\ IsInjective(queues[th])
    BY DEF QueuesOK
  <1>2. /\ new \in Seq(Tasks) /\ IsInjective(new) /\ Head(queues[th]) \in Tasks
        /\ Contains(queues[th], Head(queues[th]))
        /\ \A x : Contains(new, x) <=> Contains(queues[th], x) /\ x # Head(queues[th])
    BY <1>1, TakenTask
  <1> HIDE DEF new
  <1>3. QueuesOK([queues EXCEPT ![th] = new])
    BY <1>2 DEF QueuesOK
  <1>4. \A w \in Threads : \A x : Contains([queues EXCEPT ![th] = new][w], x) <=>
                Contains(queues[w], x) /\ ~(w = th /\ x = Head(queues[th]))
    BY <1>2 DEF QueuesOK
  <1> QED BY <1>2, <1>3, <1>4 DEF new

LEMMA WithoutQueues ==
  ASSUME NEW queues, QueuesOK(queues), NEW t \in Tracks
  PROVE  /\ QueuesOK(Without(queues, t))
         /\ \A w \in Threads : \A x : Contains(Without(queues, t)[w], x) <=>
                /\ Contains(queues[w], x)
                /\ ~(w = "main" /\ x = <<"tsk_main", t>>)
                /\ ~(w = Worker(t) /\ x \in {<<"tsk", t>>, <<"tsk_stop", t>>})
  <1>0. "main" \in Threads /\ Worker(t) \in Threads
    BY WorkerType DEF Threads
  <1> DEFINE m == Deleted(queues["main"], <<"tsk_main", t>>)
             rest == [queues EXCEPT !["main"] = m]
             a == Deleted(rest[Worker(t)], <<"tsk", t>>)
             b == Deleted(a, <<"tsk_stop", t>>)
  <1>1. queues["main"] \in Seq(Tasks) /\ IsInjective(queues["main"])
    BY <1>0 DEF QueuesOK
  <1>2. /\ m \in Seq(Tasks) /\ IsInjective(m)
        /\ \A x : Contains(m, x) <=> Contains(queues["main"], x) /\ x # <<"tsk_main", t>>
    BY <1>1, DeletedTask
  <1> HIDE DEF m
  <1>3. QueuesOK(rest)
    BY <1>0, <1>2 DEF QueuesOK
  <1>4. \A w \in Threads : \A x : Contains(rest[w], x) <=>
                Contains(queues[w], x) /\ ~(w = "main" /\ x = <<"tsk_main", t>>)
    BY <1>2 DEF QueuesOK
  <1>5. Without(queues, t) = [rest EXCEPT ![Worker(t)] = b]
    BY DEF Without, m
  <1> HIDE DEF rest
  <1>6. rest[Worker(t)] \in Seq(Tasks) /\ IsInjective(rest[Worker(t)])
    BY <1>0, <1>3 DEF QueuesOK
  <1>7. /\ a \in Seq(Tasks) /\ IsInjective(a)
        /\ \A x : Contains(a, x) <=> Contains(rest[Worker(t)], x) /\ x # <<"tsk", t>>
    BY <1>6, DeletedTask
  <1> HIDE DEF a
  <1>8. /\ b \in Seq(Tasks) /\ IsInjective(b)
        /\ \A x : Contains(b, x) <=> Contains(a, x) /\ x # <<"tsk_stop", t>>
    BY <1>7, DeletedTask
  <1> HIDE DEF b
  <1>9. QueuesOK([rest EXCEPT ![Worker(t)] = b])
    BY <1>3, <1>8 DEF QueuesOK
  <1>10. \A w \in Threads : \A x : Contains([rest EXCEPT ![Worker(t)] = b][w], x) <=>
                Contains(rest[w], x) /\ ~(w = Worker(t) /\ x \in {<<"tsk", t>>, <<"tsk_stop", t>>})
    BY <1>3, <1>7, <1>8 DEF QueuesOK
  <1> QED BY <1>4, <1>5, <1>9, <1>10

(* The tasks that FMED_TRACK_STOPALL_EXIT posts to a worker. *)
StopTasks(th) == {<<"tsk_stop", t>> : t \in {u \in Live : Worker(u) = th}}

LEMMA StopAllQueues ==
  ASSUME QueuesOK(q)
  PROVE  /\ QueuesOK([th \in Threads |-> AllPosted(q[th], StopTasks(th))])
         /\ \A w \in Threads : \A x : Contains([th \in Threads |-> AllPosted(q[th], StopTasks(th))][w], x) <=>
                Contains(q[w], x) \/ \E t \in Live : w = Worker(t) /\ x = <<"tsk_stop", t>>
  <1> SUFFICES ASSUME NEW th \in Threads
               PROVE  /\ AllPosted(q[th], StopTasks(th)) \in Seq(Tasks)
                      /\ IsInjective(AllPosted(q[th], StopTasks(th)))
                      /\ \A x : Contains(AllPosted(q[th], StopTasks(th)), x) <=>
                            Contains(q[th], x) \/ \E t \in Live : th = Worker(t) /\ x = <<"tsk_stop", t>>
    BY DEF QueuesOK
  <1> DEFINE L == {u \in Live : Worker(u) = th}
             f == [t \in L |-> <<"tsk_stop", t>>]
  <1>1. StopTasks(th) \in SUBSET Tasks
    BY DEF StopTasks, Tasks, Live
  <1>2. IsFiniteSet(StopTasks(th))
    <2>1. L \in SUBSET Tracks
      BY DEF Live
    <2>2. IsFiniteSet(L)
      BY <2>1, LifeAssumption, FS_Subset
    <2>3. f \in Surjection(L, StopTasks(th))
      BY DEF Surjection, StopTasks
    <2> QED BY <2>2, <2>3, FS_Surjection
  <1>3. \A x : x \in StopTasks(th) <=> \E t \in Live : th = Worker(t) /\ x = <<"tsk_stop", t>>
    BY DEF StopTasks
  <1>4. q[th] \in Seq(Tasks) /\ IsInjective(q[th])
    BY DEF QueuesOK
  <1> QED BY <1>1, <1>2, <1>3, <1>4, AllPostedTasks

-----------------------------------------------------------------------------
(* What a step leaves as it is of a track. *)
SameFlags(t) ==
    /\ st'[t] = st[t] /\ fstop'[t] = fstop[t] /\ op'[t] = op[t]
    /\ asked'[t] = asked[t] /\ finished'[t] = finished[t]
SameTasks(t) == \A k \in Kinds : Queued(k, t)' <=> Queued(k, t)
SameThreads(t) ==
    \A th \in Threads : /\ Inside(th, t)' <=> Inside(th, t)
                        /\ Inside(th, t) => run'[th].at = run[th].at
Untouched(t) == SameFlags(t) /\ SameTasks(t) /\ SameThreads(t)

LEMMA UntouchedTrack ==
  ASSUME NEW t \in Tracks, Untouched(t)
  PROVE  /\ TrackInv(t) => TrackInv(t)'
         /\ Unused(t)' <=> Unused(t)
         /\ Alone(t)' <=> Alone(t)
  <1> USE DEF Untouched, SameFlags
  <1>1. /\ Queued("tsk", t)' <=> Queued("tsk", t)
        /\ Queued("tsk_stop", t)' <=> Queued("tsk_stop", t)
        /\ Queued("tsk_main", t)' <=> Queued("tsk_main", t)
    BY DEF SameTasks, Kinds
  <1>2. (Processed(t)' <=> Processed(t)) /\ (Stopping(t)' <=> Stopping(t))
    BY DEF SameThreads, Inside, Processed, Stopping
  <1> HIDE DEF SameThreads
  <1>3. Alone(t)' <=> Alone(t)
    BY DEF Alone, SameThreads, SameTasks
  <1>4. Unused(t)' <=> Unused(t)
    BY DEF Unused
  <1>5. TrackInv(t) => TrackInv(t)'
    BY <1>1, <1>2 DEF TrackInv, Awake, StopFollowed, FinFollowed
  <1> QED BY <1>3, <1>4, <1>5

(* A step that touches one track. *)
LEMMA OneTrack ==
  ASSUME IInv, NEW u \in Tracks, \A t \in Tracks \ {u} : Untouched(t),
         TrackInv(u)', u \notin Parallel => (Unused(u) => Alone(u))'
  PROVE  UnusedAlone' /\ \A t \in Tracks : TrackInv(t)'
  BY UntouchedTrack DEF IInv, UnusedAlone

(* A step that touches none. *)
LEMMA NoTrack ==
  ASSUME IInv, \A t \in Tracks : Untouched(t)
  PROVE  UnusedAlone' /\ \A t \in Tracks : TrackInv(t)'
  BY UntouchedTrack DEF IInv, UnusedAlone

LEMMA TypeParts == IInv => /\ QueuesOK(q) /\ TypeOK
  BY DEF IInv, TypeOK, QueuesOK

(* A track that is queued or that a thread is inside of is no unused one. *)
LEMMA Used ==
  ASSUME IInv, NEW u \in Tracks \ Parallel,
         (\E th \in Threads : Inside(th, u)) \/ (\E k \in Kinds : Queued(k, u)) \/ op[u]
  PROVE  ~Unused(u)
  BY DEF IInv, UnusedAlone, Alone

LEMMA InitIInv == Init => IInv
  <1> SUFFICES ASSUME Init PROVE IInv
    OBVIOUS
  <1>1. \A th \in Threads : \A x : ~Contains(q[th], x)
    BY DEF Init, Contains
  <1>2. \A th \in Threads : run[th] = Idle
    BY DEF Init
  <1>3. TypeOK
    <2>1. <<>> \in Seq(Tasks) /\ IsInjective(<<>>)
      BY DEF IsInjective
    <2>2. q \in [Threads -> Seq(Tasks)] /\ \A th \in Threads : IsInjective(q[th])
      BY <2>1 DEF Init
    <2>3. run \in [Threads -> {Idle}]
      BY DEF Init
    <2>4. /\ st \in [Tracks -> {"none", "STOPPED", "ACTIVE", "PAUSED", "ERR", "freed"}]
          /\ fstop \in [Tracks -> BOOLEAN] /\ op \in [Tracks -> BOOLEAN]
          /\ asked \in [Tracks -> BOOLEAN] /\ finished \in [Tracks -> BOOLEAN]
      BY DEF Init
    <2>5. stop_sig \in BOOLEAN /\ exited \in BOOLEAN
      BY DEF Init
    <2>6. pauses \in 0 .. MaxPauses
      <3>1. pauses = 0 /\ MaxPauses \in Nat
        BY LifeAssumption DEF Init
      <3> QED BY <3>1
    <2> QED BY <2>2, <2>3, <2>4, <2>5, <2>6 DEF TypeOK
  <1>4. \A t \in Tracks, k \in Kinds : ~Queued(k, t)
    BY <1>1, WorkerType DEF Queued, Home, Threads
  <1>5. AtHome
    BY <1>1, <1>2 DEF AtHome, Inside, Idle, Threads
  <1>6. \A t \in Tracks : Alone(t)
    BY <1>2, <1>4 DEF Alone, Init, Inside, Idle
  <1>7. \A t \in Tracks : TrackInv(t)
    BY <1>4 DEF TrackInv, Awake, StopFollowed, FinFollowed, Init, Kinds
  <1> QED BY <1>3, <1>5, <1>6, <1>7 DEF IInv, UnusedAlone, ExitIsNotMissed, Init

LEMMA CreateStep == ASSUME NEW u \in Tracks PROVE IInv /\ Create(u) => IInv'
  <1> SUFFICES ASSUME IInv, Create(u) PROVE IInv'
    OBVIOUS
  <1>1. /\ st[u] = "none" /\ st' = [st EXCEPT ![u] = "STOPPED"] /\ TypeOK
        /\ UNCHANGED <<fstop, q, run, op, stop_sig, exited, asked, pauses, finished>>
    BY DEF Create, IInv, told
  <1>2. TypeOK'
    BY <1>1 DEF TypeOK
  <1>3. AtHome'
    BY <1>1 DEF IInv, AtHome, Inside
  <1>4. \A t \in Tracks \ {u} : Untouched(t)
    BY <1>1 DEF Untouched, SameFlags, SameTasks, SameThreads, Queued, Inside, TypeOK
  <1>5. st'[u] = "STOPPED"
    BY <1>1 DEF TypeOK
  <1>6. TrackInv(u)'
    BY <1>1, <1>5 DEF IInv, TrackInv, Awake, StopFollowed, FinFollowed, Queued, Kinds
  <1>7. u \notin Parallel => (Unused(u) => Alone(u))'
    BY <1>1 DEF IInv, UnusedAlone, Unused, Alone, Inside, Queued
  <1>8. ExitIsNotMissed'
    <2>1. Live' = Live
      BY <1>1, <1>5 DEF Live, TypeOK
    <2> QED BY <1>1, <2>1 DEF IInv, ExitIsNotMissed
  <1> QED BY <1>2, <1>3, <1>4, <1>6, <1>7, <1>8, OneTrack DEF IInv

LEMMA StartStep == ASSUME NEW u \in Tracks PROVE IInv /\ Start(u) => IInv'
  <1> SUFFICES ASSUME IInv, Start(u) PROVE IInv'
    OBVIOUS
  <1>1. /\ st[u] = "STOPPED" /\ ~asked[u] /\ TypeOK /\ QueuesOK(q) /\ run["main"] = Idle
        /\ UNCHANGED <<fstop, run, op, stop_sig, asked, pauses, finished>>
    BY TypeParts DEF Start, told, MainIsFree
  <1>2. CASE st' = [st EXCEPT ![u] = "ACTIVE"] /\ q' = Woken(q, u) /\ UNCHANGED exited
    <2>1. /\ QueuesOK(q')
          /\ \A w \in Threads : \A x : Contains(q'[w], x) <=> Contains(q[w], x) \/ (w = Worker(u) /\ x = <<"tsk", u>>)
      BY <1>1, <1>2, PostedKind, WorkerType DEF Woken, Kinds
    <2>2. TypeOK'
      BY <1>1, <1>2, <2>1 DEF TypeOK, QueuesOK
    <2>3. AtHome'
      BY <1>1, <2>1 DEF IInv, AtHome, Inside, Home
    <2>4. \A t \in Tracks \ {u} : Untouched(t)
      BY <1>1, <1>2, <2>1, WorkerType DEF Untouched, SameFlags, SameTasks, SameThreads, Queued, Inside, TypeOK, Home, Threads, Kinds
    <2>5. st'[u] = "ACTIVE" /\ Queued("tsk", u)'
      BY <1>1, <1>2, <2>1, WorkerType DEF TypeOK, Queued, Home
    <2>6. \A k \in {"tsk_stop", "tsk_main"} : Queued(k, u)' <=> Queued(k, u)
      BY <2>1, WorkerType DEF Queued, Home, Threads
    <2>7. TrackInv(u)'
      BY <1>1, <2>5, <2>6 DEF IInv, TrackInv, Awake, StopFollowed, FinFollowed
    <2>8. ExitIsNotMissed'
      BY <1>1, <2>5 DEF ExitIsNotMissed, Live
    <2> QED BY <2>2, <2>3, <2>4, <2>5, <2>7, <2>8, OneTrack DEF IInv, Unused
  <1>3. CASE st' = [st EXCEPT ![u] = "freed"] /\ exited' = (exited \/ (stop_sig /\ LastOne(u))) /\ UNCHANGED q
    <2>1. TypeOK'
      BY <1>1, <1>3 DEF TypeOK
    <2>2. AtHome'
      BY <1>1, <1>3 DEF IInv, AtHome, Inside
    <2>3. \A t \in Tracks \ {u} : Untouched(t)
      BY <1>1, <1>3 DEF Untouched, SameFlags, SameTasks, SameThreads, Queued, Inside, TypeOK
    <2>4. st'[u] = "freed"
      BY <1>1, <1>3 DEF TypeOK
    <2>5. TrackInv(u)'
      BY <1>1, <1>3, <2>4 DEF IInv, TrackInv, Awake, StopFollowed, FinFollowed, Queued
    <2>6. u \notin Parallel => (Unused(u) => Alone(u))'
      BY <1>1, <1>3 DEF IInv, UnusedAlone, Unused, Alone, Inside, Queued
    <2>7. ExitIsNotMissed'
      <3>1. Live' = Live
        BY <1>1, <1>3, <2>4 DEF Live, TypeOK
      <3> QED BY <1>1, <1>3, <3>1 DEF IInv, ExitIsNotMissed
    <2> QED BY <2>1, <2>2, <2>3, <2>5, <2>6, <2>7, OneTrack DEF IInv
  <1> QED BY <1>2, <1>3 DEF Start

LEMMA StopStep == ASSUME NEW u \in Tracks PROVE IInv /\ Stop(u) => IInv'
  <1> SUFFICES ASSUME IInv, Stop(u) PROVE IInv'
    OBVIOUS
  <1>1. /\ Exists(u) /\ TypeOK /\ QueuesOK(q) /\ asked' = [asked EXCEPT ![u] = TRUE]
        /\ q' = PostTo(q, Worker(u), <<"tsk_stop", u>>)
        /\ UNCHANGED <<st, fstop, run, op, stop_sig, exited, pauses, finished>>
    BY TypeParts DEF Stop
  <1>2. /\ QueuesOK(q')
        /\ \A w \in Threads : \A x : Contains(q'[w], x) <=> Contains(q[w], x) \/ (w = Worker(u) /\ x = <<"tsk_stop", u>>)
    BY <1>1, PostedKind, WorkerType DEF Kinds
  <1>3. TypeOK'
    BY <1>1, <1>2 DEF TypeOK, QueuesOK
  <1>4. AtHome'
    BY <1>1, <1>2 DEF IInv, AtHome, Inside, Home
  <1>5. \A t \in Tracks \ {u} : Untouched(t)
    BY <1>1, <1>2, WorkerType DEF Untouched, SameFlags, SameTasks, SameThreads, Queued, Inside, TypeOK, Home, Threads, Kinds
  <1>6. asked'[u] /\ Queued("tsk_stop", u)'
    BY <1>1, <1>2, WorkerType DEF TypeOK, Queued, Home
  <1>7. \A k \in {"tsk", "tsk_main"} : Queued(k, u)' <=> Queued(k, u)
    BY <1>2, WorkerType DEF Queued, Home, Threads
  <1>8. TrackInv(u)'
    <2>1. (Processed(u)' <=> Processed(u)) /\ (Stopping(u)' <=> Stopping(u))
      BY <1>1 DEF Processed, Stopping
    <2> QED BY <1>1, <1>6, <1>7, <2>1 DEF IInv, TrackInv, Awake, StopFollowed, FinFollowed, Exists
  <1>9. ~Unused(u)'
    BY <1>1, <1>6 DEF Unused, Exists
  <1>10. ExitIsNotMissed'
    BY <1>1 DEF IInv, ExitIsNotMissed, Live
  <1> QED BY <1>3, <1>4, <1>5, <1>8, <1>9, <1>10, OneTrack DEF IInv

LEMMA StopAllExitStep == IInv /\ StopAllExit => IInv'
  <1> SUFFICES ASSUME IInv, StopAllExit PROVE IInv'
    OBVIOUS
  <1>0. TypeOK /\ QueuesOK(q) /\ UNCHANGED <<st, fstop, run, op, pauses, finished>>
    BY TypeParts DEF StopAllExit
  <1>1. CASE Live = {} \/ stop_sig
    <2>1. exited' = TRUE /\ UNCHANGED <<stop_sig, q, asked>>
      BY <1>1 DEF StopAllExit
    <2>2. TypeOK' /\ AtHome'
      BY <1>0, <2>1 DEF IInv, TypeOK, AtHome, Inside
    <2>3. \A t \in Tracks : Untouched(t)
      BY <1>0, <2>1 DEF Untouched, SameFlags, SameTasks, SameThreads, Queued, Inside
    <2>4. ExitIsNotMissed'
      BY <2>1 DEF ExitIsNotMissed
    <2> QED BY <2>2, <2>3, <2>4, NoTrack DEF IInv
  <1>2. CASE ~(Live = {} \/ stop_sig)
    <2>1. /\ stop_sig' = TRUE /\ UNCHANGED exited
          /\ asked' = [t \in Tracks |-> asked[t] \/ t \in Live]
          /\ q' = [th \in Threads |-> AllPosted(q[th], StopTasks(th))]
      BY <1>2 DEF StopAllExit, StopTasks
    <2>2. /\ QueuesOK(q')
          /\ \A w \in Threads : \A x : Contains(q'[w], x) <=>
                Contains(q[w], x) \/ \E t \in Live : w = Worker(t) /\ x = <<"tsk_stop", t>>
      BY <1>0, <2>1, StopAllQueues
    <2>3. TypeOK'
      <3>1. asked' \in [Tracks -> BOOLEAN]
        <4>1. \A t \in Tracks : (asked[t] \/ t \in Live) \in BOOLEAN
          OBVIOUS
        <4> QED BY <2>1, <4>1
      <3> QED BY <1>0, <2>1, <2>2, <3>1 DEF TypeOK, QueuesOK
    <2>4. AtHome'
      BY <1>0, <2>2 DEF IInv, AtHome, Inside, Home
    <2>5. ASSUME NEW t \in Tracks \ Live PROVE Untouched(t)
      BY <1>0, <2>1, <2>2, WorkerType DEF Untouched, SameFlags, SameTasks, SameThreads, Queued, Inside, TypeOK, Home, Threads, Kinds
    <2>6. ASSUME NEW t \in Live PROVE TrackInv(t)' /\ ~Unused(t)'
      <3>0. t \in Tracks /\ st[t] \in {"ACTIVE", "PAUSED", "ERR"}
        BY DEF Live
      <3>1. asked'[t] /\ Queued("tsk_stop", t)'
        BY <2>1, <2>2, <3>0, WorkerType DEF Queued, Home
      <3>2. \A k \in {"tsk", "tsk_main"} : Queued(k, t)' <=> Queued(k, t)
        BY <2>2, <3>0, WorkerType DEF Queued, Home, Threads
      <3>3. (Processed(t)' <=> Processed(t)) /\ (Stopping(t)' <=> Stopping(t))
        BY <1>0 DEF Processed, Stopping
      <3>4. ~Unused(t)'
        BY <1>0, <3>0, <3>1 DEF Unused
      <3> QED BY <1>0, <3>0, <3>1, <3>2, <3>3, <3>4 DEF IInv, TrackInv, Awake, StopFollowed, FinFollowed
    <2>7. UnusedAlone' /\ \A t \in Tracks : TrackInv(t)'
      BY <2>5, <2>6, UntouchedTrack DEF IInv, UnusedAlone
    <2>8. ExitIsNotMissed'
      BY <1>0, <1>2 DEF ExitIsNotMissed, Live
    <2> QED BY <2>3, <2>4, <2>7, <2>8 DEF IInv
  <1> QED BY <1>1, <1>2

LEMMA PauseStep == ASSUME NEW u \in Tracks PROVE IInv /\ Pause(u) => IInv'
  <1> SUFFICES ASSUME IInv, Pause(u) PROVE IInv'
    OBVIOUS
  <1>1. /\ u \in Live /\ TypeOK /\ st' = [st EXCEPT ![u] = "PAUSED"]
        /\ UNCHANGED <<fstop, q, run, op, stop_sig, exited, asked, finished>>
    BY DEF Pause, IInv
  <1>2. pauses' \in 0 .. MaxPauses
    <2>1. pauses' = pauses + 1 /\ pauses < MaxPauses /\ pauses \in 0 .. MaxPauses /\ MaxPauses \in Nat
      BY <1>1, LifeAssumption DEF Pause, TypeOK
    <2> QED BY <2>1
  <1>3. TypeOK'
    BY <1>1, <1>2 DEF TypeOK
  <1>4. AtHome'
    BY <1>1 DEF IInv, AtHome, Inside
  <1>5. \A t \in Tracks \ {u} : Untouched(t)
    BY <1>1 DEF Untouched, SameFlags, SameTasks, SameThreads, Queued, Inside, TypeOK
  <1>6. st'[u] = "PAUSED"
    BY <1>1 DEF TypeOK
  <1>7. TrackInv(u)'
    BY <1>1, <1>6 DEF IInv, TrackInv, Awake, StopFollowed, FinFollowed, Queued, Live
  <1>8. ~Unused(u)'
    BY <1>6 DEF Unused
  <1>9. ExitIsNotMissed'
    <2>1. Live' = Live
      BY <1>1, <1>6 DEF Live, TypeOK
    <2> QED BY <1>1, <2>1 DEF IInv, ExitIsNotMissed
  <1> QED BY <1>3, <1>4, <1>5, <1>7, <1>8, <1>9, OneTrack DEF IInv

LEMMA CompleteStep == ASSUME NEW u \in Tracks PROVE IInv /\ Complete(u) => IInv'
  <1> SUFFICES ASSUME IInv, Complete(u) PROVE IInv'
    OBVIOUS
  <1>1. /\ op[u] /\ TypeOK /\ QueuesOK(q) /\ op' = [op EXCEPT ![u] = FALSE]
        /\ q' = PostTo(q, Worker(u), <<"tsk", u>>)
        /\ UNCHANGED <<st, fstop, run, stop_sig, exited, asked, pauses, finished>>
    BY TypeParts DEF Complete, Woken, told
  <1>2. /\ QueuesOK(q')
        /\ \A w \in Threads : \A x : Contains(q'[w], x) <=> Contains(q[w], x) \/ (w = Worker(u) /\ x = <<"tsk", u>>)
    BY <1>1, PostedKind, WorkerType DEF Kinds
  <1>3. TypeOK'
    BY <1>1, <1>2 DEF TypeOK, QueuesOK
  <1>4. AtHome'
    BY <1>1, <1>2 DEF IInv, AtHome, Inside, Home
  <1>5. \A t \in Tracks \ {u} : Untouched(t)
    BY <1>1, <1>2, WorkerType DEF Untouched, SameFlags, SameTasks, SameThreads, Queued, Inside, TypeOK, Home, Threads, Kinds
  <1>6. Queued("tsk", u)'
    BY <1>2, WorkerType DEF Queued, Home
  <1>7. \A k \in {"tsk_stop", "tsk_main"} : Queued(k, u)' <=> Queued(k, u)
    BY <1>2, WorkerType DEF Queued, Home, Threads
  <1>8. TrackInv(u)'
    <2>1. (Processed(u)' <=> Processed(u)) /\ (Stopping(u)' <=> Stopping(u))
      BY <1>1 DEF Processed, Stopping
    <2> QED BY <1>1, <1>6, <1>7, <2>1 DEF IInv, TrackInv, Awake, StopFollowed, FinFollowed
  <1>9. u \notin Parallel => ~Unused(u)'
    BY <1>1, Used DEF Unused
  <1>10. ExitIsNotMissed'
    BY <1>1 DEF IInv, ExitIsNotMissed, Live
  <1> QED BY <1>3, <1>4, <1>5, <1>8, <1>9, <1>10, OneTrack DEF IInv

-----------------------------------------------------------------------------
(* A step of a thread touches the track that it is or comes to be inside of. *)
LEMMA OthersUntouched ==
  ASSUME NEW th \in Threads, NEW u \in Tracks,
         \A w \in Threads : w # th => run'[w] = run[w],
         run[th].at = "idle" \/ run[th].t = u,
         run'[th].at = "idle" \/ run'[th].t = u,
         \A w \in Threads : \A x : x \notin Kinds \X {u} => (Contains(q'[w], x) <=> Contains(q[w], x)),
         \A t \in Tracks \ {u} : SameFlags(t)
  PROVE  \A t \in Tracks \ {u} : Untouched(t)
  <1> SUFFICES ASSUME NEW t \in Tracks, t # u PROVE Untouched(t)
    OBVIOUS
  <1>1. SameTasks(t)
    BY WorkerType DEF SameTasks, Queued, Home, Threads, Kinds
  <1>2. SameThreads(t)
    BY DEF SameThreads, Inside
  <1> QED BY <1>1, <1>2 DEF Untouched

LEMMA UnpauseStep == ASSUME NEW u \in Tracks PROVE IInv /\ Unpause(u) => IInv'
  <1> SUFFICES ASSUME IInv, Unpause(u) PROVE IInv'
    OBVIOUS
  <1>1. /\ TypeOK /\ QueuesOK(q) /\ u \in Live /\ run["main"] = Idle /\ st' = [st EXCEPT ![u] = "ACTIVE"]
        /\ run' = Enter("main", u, FALSE, q)
        /\ UNCHANGED <<fstop, q, op, stop_sig, exited, asked, pauses, finished>>
    BY TypeParts DEF Unpause, told, MainIsFree
  <1>2. "main" \in Threads /\ "worker" \in Threads
    BY DEF Threads
  <1> DEFINE in == [at |-> "process", t |-> u, nested |-> FALSE, len |-> Len(q[Worker(u)])]
  <1>3. in \in RunType
    <2>1. Len(q[Worker(u)]) \in Nat
      BY <1>1, WorkerType, LenProperties DEF QueuesOK
    <2> QED BY <2>1 DEF RunType
  <1>4. run' = [run EXCEPT !["main"] = in]
    BY <1>1 DEF Enter
  <1>5. in.at = "process" /\ in.t = u
    OBVIOUS
  <1> HIDE DEF in
  <1>6. /\ run' \in [Threads -> {Idle} \cup RunType] /\ run'["main"] = in
        /\ \A w \in Threads : w # "main" => run'[w] = run[w]
    BY <1>1, <1>2, <1>3, <1>4, RunTyped
  <1>7. TypeOK'
    BY <1>1, <1>6 DEF TypeOK, RunType
  <1>8. AtHome'
    BY <1>1, <1>2, <1>6 DEF IInv, AtHome, Inside
  <1>9. \A t \in Tracks \ {u} : Untouched(t)
    <2>1. \A t \in Tracks \ {u} : SameFlags(t)
      BY <1>1 DEF SameFlags, TypeOK
    <2>2. run["main"].at = "idle"
      BY <1>1 DEF Idle
    <2>4. run'["main"].t = u
      BY <1>5, <1>6
    <2>3. \A w \in Threads : \A x : x \notin Kinds \X {u} => (Contains(q'[w], x) <=> Contains(q[w], x))
      BY <1>1
    <2> QED BY ONLY <1>2, <1>6, <2>1, <2>2, <2>3, <2>4, OthersUntouched, u \in Tracks
  <1>10. st'[u] = "ACTIVE" /\ Processed(u)'
    BY <1>1, <1>2, <1>5, <1>6 DEF Processed, TypeOK
  <1>11. TrackInv(u)'
    BY <1>1, <1>10 DEF IInv, TrackInv, Awake, StopFollowed, FinFollowed, Queued, Live
  <1>12. ~Unused(u)'
    BY <1>10 DEF Unused
  <1>13. ExitIsNotMissed'
    <2>1. u \in Live'
      BY <1>10 DEF Live
    <2> QED BY <2>1 DEF ExitIsNotMissed
  <1> QED BY <1>7, <1>8, <1>9, <1>11, <1>12, <1>13, OneTrack DEF IInv

LEMMA RunTaskStep == ASSUME NEW th \in Threads PROVE IInv /\ RunTask(th) => IInv'
  <1> SUFFICES ASSUME IInv, RunTask(th) PROVE IInv'
    OBVIOUS
  <1>1. /\ TypeOK /\ QueuesOK(q) /\ run[th] = Idle /\ q[th] # <<>> /\ Head(q[th])[1] = "tsk"
        /\ q' = [q EXCEPT ![th] = Tail(@)] /\ run' = Enter(th, Head(q[th])[2], FALSE, q')
        /\ UNCHANGED <<st, fstop, op, stop_sig, exited, asked, pauses, finished>>
    BY TypeParts DEF RunTask, told
  <1>2. /\ QueuesOK(q') /\ Head(q[th]) \in Tasks /\ Contains(q[th], Head(q[th]))
        /\ \A w \in Threads : \A x : Contains(q'[w], x) <=> Contains(q[w], x) /\ ~(w = th /\ x = Head(q[th]))
    BY <1>1, TailQueues
  <1>3. PICK u \in Tracks : Head(q[th]) = <<"tsk", u>>
    BY <1>1, <1>2 DEF Tasks
  <1>4. PICK in \in RunType : run' = [run EXCEPT ![th] = in] /\ in.at = "process" /\ in.t = u
    <2> DEFINE n == Len(q'[Worker(u)])
               i == [at |-> "process", t |-> u, nested |-> FALSE, len |-> n]
    <2>1. n \in Nat
      BY <1>2, <1>3, WorkerType, LenProperties DEF QueuesOK
    <2>2. run' = [run EXCEPT ![th] = i]
      <3>1. Head(q[th])[2] = u
        BY <1>3
      <3> QED BY <1>1, <3>1 DEF Enter
    <2> HIDE DEF n
    <2>3. i \in RunType /\ i.at = "process" /\ i.t = u
      BY <2>1 DEF RunType
    <2> HIDE DEF i
    <2> QED BY <2>2, <2>3
  <1>5. /\ run' \in [Threads -> {Idle} \cup RunType] /\ run'[th] = in
        /\ \A w \in Threads : w # th => run'[w] = run[w]
    BY <1>1, <1>4, RunTyped
  <1>6. TypeOK'
    BY <1>1, <1>2, <1>5 DEF TypeOK, RunType, QueuesOK
  <1>7. th = Worker(u)
    BY <1>2, <1>3 DEF IInv, AtHome, Home
  <1>8. AtHome'
    <2>1. \A w \in Threads, task \in Tasks : Contains(q'[w], task) => w = Home(task)
      BY <1>2 DEF IInv, AtHome
    <2>2. \A t \in Tracks : Inside("worker", t)' => t \in Parallel
      BY <1>4, <1>5, <1>7 DEF IInv, AtHome, Inside, Threads, Worker
    <2> QED BY <2>1, <2>2 DEF AtHome
  <1>9. \A t \in Tracks \ {u} : Untouched(t)
    <2>1. \A t \in Tracks \ {u} : SameFlags(t)
      BY <1>1 DEF SameFlags
    <2>2. \A w \in Threads : \A x : x \notin Kinds \X {u} => (Contains(q'[w], x) <=> Contains(q[w], x))
      BY <1>2, <1>3 DEF Kinds
    <2>3. run[th].at = "idle"
      BY <1>1 DEF Idle
    <2>4. run'[th].t = u
      BY <1>4, <1>5
    <2> QED BY ONLY <1>5, <2>1, <2>2, <2>3, <2>4, OthersUntouched, u \in Tracks, th \in Threads
  <1>10. Processed(u)' /\ (Stopping(u)' <=> Stopping(u))
    <2>1. run[th].at = "idle"
      BY <1>1 DEF Idle
    <2>2. run'[th].at = "process" /\ run'[th].t = u
      BY <1>4, <1>5
    <2> QED BY <1>5, <2>1, <2>2 DEF Processed, Stopping
  <1>11. \A k \in {"tsk_stop", "tsk_main"} : Queued(k, u)' <=> Queued(k, u)
    BY <1>2, <1>3, WorkerType DEF Queued, Home, Threads
  <1>12. TrackInv(u)'
    BY <1>1, <1>3, <1>10, <1>11 DEF IInv, TrackInv, Awake, StopFollowed, FinFollowed
  <1>13. u \notin Parallel => ~Unused(u)'
    <2>1. Queued("tsk", u)
      BY <1>2, <1>3, <1>7 DEF Queued, Home
    <2> QED BY <1>1, <1>3, <2>1, Used DEF Unused, Kinds
  <1>14. ExitIsNotMissed'
    BY <1>1 DEF IInv, ExitIsNotMissed, Live
  <1> QED BY <1>3, <1>6, <1>8, <1>9, <1>12, <1>13, <1>14, OneTrack DEF IInv

LEMMA RunStopStep == ASSUME NEW th \in Threads PROVE IInv /\ RunStop(th) => IInv'
  <1> SUFFICES ASSUME IInv, RunStop(th) PROVE IInv'
    OBVIOUS
  <1>1. /\ TypeOK /\ QueuesOK(q) /\ run[th] = Idle /\ q[th] # <<>> /\ Head(q[th])[1] = "tsk_stop"
        /\ q' = [q EXCEPT ![th] = Tail(@)]
        /\ UNCHANGED <<op, stop_sig, exited, asked, pauses, finished>>
    BY TypeParts DEF RunStop, told
  <1>2. /\ QueuesOK(q') /\ Head(q[th]) \in Tasks /\ Contains(q[th], Head(q[th]))
        /\ \A w \in Threads : \A x : Contains(q'[w], x) <=> Contains(q[w], x) /\ ~(w = th /\ x = Head(q[th]))
    BY <1>1, TailQueues
  <1>3. PICK u \in Tracks : Head(q[th]) = <<"tsk_stop", u>>
    BY <1>1, <1>2 DEF Tasks
  <1>4. /\ fstop' = [fstop EXCEPT ![u] = TRUE]
        /\ st[u] = "PAUSED" => st' = [st EXCEPT ![u] = "ACTIVE"] /\ run' = Enter(th, u, TRUE, q')
        /\ st[u] # "PAUSED" => st' = st /\ run' = [Enter(th, u, TRUE, q') EXCEPT ![th].at = "onstop"]
    <2>1. Head(q[th])[2] = u
      BY <1>3
    <2> QED BY <2>1 DEF RunStop
  <1>5. PICK in \in RunType : /\ run' = [run EXCEPT ![th] = in] /\ in.t = u
                              /\ st[u] = "PAUSED" => in.at = "process"
                              /\ st[u] # "PAUSED" => in.at = "onstop"
    <2> DEFINE n == Len(q'[Worker(u)])
               i(at) == [at |-> at, t |-> u, nested |-> TRUE, len |-> n]
    <2>1. n \in Nat
      BY <1>2, <1>3, WorkerType, LenProperties DEF QueuesOK
    <2>2. Enter(th, u, TRUE, q') = [run EXCEPT ![th] = i("process")]
      BY DEF Enter
    <2> HIDE DEF n
    <2>3. i("process") \in RunType /\ i("onstop") \in RunType
      BY <2>1 DEF RunType
    <2>4. [[run EXCEPT ![th] = i("process")] EXCEPT ![th].at = "onstop"] = [run EXCEPT ![th] = i("onstop")]
      BY <1>1, RunTyped
    <2> QED BY <1>4, <2>2, <2>3, <2>4
  <1>6. /\ run' \in [Threads -> {Idle} \cup RunType] /\ run'[th] = in
        /\ \A w \in Threads : w # th => run'[w] = run[w]
    BY <1>1, <1>5, RunTyped
  <1>7. /\ st' \in [Tracks -> {"none", "STOPPED", "ACTIVE", "PAUSED", "ERR", "freed"}]
        /\ st'[u] = (IF st[u] = "PAUSED" THEN "ACTIVE" ELSE st[u])
        /\ \A t \in Tracks \ {u} : st'[t] = st[t]
    BY <1>1, <1>3, <1>4 DEF TypeOK
  <1>8. fstop' \in [Tracks -> BOOLEAN] /\ fstop'[u] /\ \A t \in Tracks \ {u} : fstop'[t] = fstop[t]
    BY <1>1, <1>3, <1>4 DEF TypeOK
  <1>9. TypeOK'
    BY <1>1, <1>2, <1>6, <1>7, <1>8 DEF TypeOK, RunType, QueuesOK
  <1>10. th = Worker(u)
    BY <1>2, <1>3 DEF IInv, AtHome, Home
  <1>11. AtHome'
    <2>1. \A w \in Threads, task \in Tasks : Contains(q'[w], task) => w = Home(task)
      BY <1>2 DEF IInv, AtHome
    <2>2. \A t \in Tracks : Inside("worker", t)' => t \in Parallel
      BY <1>5, <1>6, <1>10 DEF IInv, AtHome, Inside, Threads, Worker
    <2> QED BY <2>1, <2>2 DEF AtHome
  <1>12. \A t \in Tracks \ {u} : Untouched(t)
    <2>1. \A t \in Tracks \ {u} : SameFlags(t)
      BY <1>1, <1>7, <1>8 DEF SameFlags
    <2>2. \A w \in Threads : \A x : x \notin Kinds \X {u} => (Contains(q'[w], x) <=> Contains(q[w], x))
      BY <1>2, <1>3 DEF Kinds
    <2>3. run[th].at = "idle"
      BY <1>1 DEF Idle
    <2>4. run'[th].t = u
      BY <1>5, <1>6
    <2> QED BY ONLY <1>6, <2>1, <2>2, <2>3, <2>4, OthersUntouched, u \in Tracks, th \in Threads
  <1>13. /\ st[u] = "PAUSED" => Processed(u)'
         /\ st[u] # "PAUSED" => Stopping(u)' /\ (Processed(u)' <=> Processed(u))
    <2>1. run[th].at = "idle" /\ run'[th].t = u /\ run'[th].at = in.at
      BY <1>1, <1>5, <1>6 DEF Idle
    <2> QED BY <1>5, <1>6, <2>1 DEF Processed, Stopping
  <1>14. \A k \in {"tsk", "tsk_main"} : Queued(k, u)' <=> Queued(k, u)
    BY <1>2, <1>3, WorkerType DEF Queued, Home, Threads
  <1>15. Queued("tsk_stop", u) /\ ~Queued("tsk_stop", u)'
    BY <1>2, <1>3, <1>10 DEF Queued, Home
  <1>16. asked[u] /\ st[u] # "none"
    BY <1>3, <1>15 DEF IInv, TrackInv, StopFollowed
  <1>17. TrackInv(u)'
    <2>1. Awake(u) /\ FinFollowed(u)
      BY <1>3 DEF IInv, TrackInv
    <2>2. Awake(u)'
      BY <1>1, <1>7, <1>13, <1>14, <2>1 DEF Awake
    <2>3. StopFollowed(u)'
      BY <1>1, <1>7, <1>8, <1>13, <1>15, <1>16 DEF StopFollowed
    <2>4. FinFollowed(u)'
      BY <1>1, <1>7, <1>14, <2>1 DEF FinFollowed
    <2> QED BY <2>2, <2>3, <2>4 DEF TrackInv
  <1>18. u \notin Parallel => ~Unused(u)'
    BY <1>1, <1>3, <1>7, <1>15, Used DEF Unused, Kinds
  <1>19. ExitIsNotMissed'
    <2>1. Live' = Live
      BY <1>7 DEF Live
    <2> QED BY <1>1, <2>1 DEF IInv, ExitIsNotMissed
  <1> QED BY <1>3, <1>9, <1>11, <1>12, <1>17, <1>18, <1>19, OneTrack DEF IInv
(* A thread leaves the function of its track that it is inside of, and may post
   one task of that track. *)
LEMMA LeavingThread ==
  ASSUME IInv, NEW th \in Threads, NEW u \in Tracks, NEW k \in Kinds,
         run[th].at # "idle", run[th].t = u,
         run' = Left(th) \/ run' = [run EXCEPT ![th] = Idle],
         q' = q \/ q' = PostTo(q, Home(<<k, u>>), <<k, u>>),
         \A t \in Tracks \ {u} : SameFlags(t)
  PROVE  /\ run' \in [Threads -> {Idle} \cup RunType]
         /\ QueuesOK(q')
         /\ AtHome'
         /\ \A t \in Tracks \ {u} : Untouched(t)
         /\ \A j \in Kinds : /\ Queued(j, u) => Queued(j, u)'
                             /\ j # k => (Queued(j, u)' <=> Queued(j, u))
         /\ q' = PostTo(q, Home(<<k, u>>), <<k, u>>) => Queued(k, u)'
         /\ run[th].at = "onstop" /\ run' = [run EXCEPT ![th] = Idle] => (Processed(u)' <=> Processed(u))
         /\ u \notin Parallel => ~Unused(u)
  <1>1. TypeOK /\ QueuesOK(q)
    BY TypeParts
  <1>2. run[th] \in RunType
    BY <1>1, RunTyped
  <1>3. PICK r \in {Idle} \cup RunType : run' = [run EXCEPT ![th] = r] /\ (r = Idle \/ (r.at = "onstop" /\ r.t = u))
                                        /\ (run' = [run EXCEPT ![th] = Idle] => r = Idle)
    <2> DEFINE r == [run[th] EXCEPT !.at = "onstop"]
    <2>1. r \in RunType /\ r.at = "onstop" /\ r.t = u
      BY <1>2 DEF RunType
    <2>2. Left(th) = [run EXCEPT ![th] = r] \/ Left(th) = [run EXCEPT ![th] = Idle]
      BY DEF Left
    <2>3. [run EXCEPT ![th] = r] # [run EXCEPT ![th] = Idle]
      <3>1. [run EXCEPT ![th] = r][th] = r /\ [run EXCEPT ![th] = Idle][th] = Idle
        BY <1>1, RunTyped
      <3>2. r # Idle
        BY <2>1 DEF Idle
      <3> QED BY <3>1, <3>2
    <2> HIDE DEF r
    <2> QED BY <2>1, <2>2, <2>3
  <1>4. /\ run' \in [Threads -> {Idle} \cup RunType] /\ run'[th] = r
        /\ \A w \in Threads : w # th => run'[w] = run[w]
    BY <1>1, <1>3, RunTyped
  <1>5. Home(<<k, u>>) \in Threads /\ <<k, u>> \in Tasks
    BY WorkerType DEF Home, Threads, Tasks, Kinds
  <1>6. /\ QueuesOK(q')
        /\ \A w \in Threads : \A x : Contains(q[w], x) => Contains(q'[w], x)
        /\ \A w \in Threads : \A x : Contains(q'[w], x) => Contains(q[w], x) \/ (w = Home(<<k, u>>) /\ x = <<k, u>>)
        /\ q' = PostTo(q, Home(<<k, u>>), <<k, u>>) => Contains(q'[Home(<<k, u>>)], <<k, u>>)
    <2>1. CASE q' = q
      <3>1. QueuesOK(PostTo(q, Home(<<k, u>>), <<k, u>>)) /\
            \A w \in Threads : \A x : Contains(PostTo(q, Home(<<k, u>>), <<k, u>>)[w], x) <=> Contains(q[w], x) \/ (w = Home(<<k, u>>) /\ x = <<k, u>>)
        BY <1>1, <1>5, PostToQueues
      <3> QED BY <1>1, <1>5, <2>1, <3>1
    <2>2. CASE q' = PostTo(q, Home(<<k, u>>), <<k, u>>)
      BY <1>1, <1>5, <2>2, PostedKind
    <2> QED BY <2>1, <2>2
  <1>7. r.at = "idle" \/ r.t = u
    BY <1>3 DEF Idle
  <1>8. AtHome'
    <2>1. \A w \in Threads, task \in Tasks : Contains(q'[w], task) => w = Home(task)
      BY <1>6 DEF IInv, AtHome
    <2>2. ASSUME NEW t \in Tracks, Inside("worker", t)' PROVE t \in Parallel
      <3>1. Inside("worker", t)
        <4>1. CASE th = "worker"
          BY <1>4, <1>7, <2>2, <4>1 DEF Inside
        <4>2. CASE th # "worker"
          BY <1>4, <2>2, <4>2 DEF Inside, Threads
        <4> QED BY <4>1, <4>2
      <3> QED BY <3>1 DEF IInv, AtHome
    <2> QED BY <2>1, <2>2 DEF AtHome
  <1>9. \A t \in Tracks \ {u} : Untouched(t)
    <2>1. \A w \in Threads : \A x : x \notin Kinds \X {u} => (Contains(q'[w], x) <=> Contains(q[w], x))
      BY <1>6
    <2>2. run'[th].at = "idle" \/ run'[th].t = u
      BY <1>4, <1>7
    <2> QED BY <1>4, <2>1, <2>2, OthersUntouched
  <1>10. \A j \in Kinds : /\ Queued(j, u) => Queued(j, u)'
                          /\ j # k => (Queued(j, u)' <=> Queued(j, u))
    BY <1>6, WorkerType DEF Queued, Home, Threads
  <1>11. q' = PostTo(q, Home(<<k, u>>), <<k, u>>) => Queued(k, u)'
    BY <1>6 DEF Queued
  <1>12. ASSUME run[th].at = "onstop", run' = [run EXCEPT ![th] = Idle] PROVE Processed(u)' <=> Processed(u)
    <2>1. run'[th].at = "idle"
      BY <1>3, <1>4, <1>12 DEF Idle
    <2> QED BY <1>4, <1>12, <2>1 DEF Processed
  <1>13. u \notin Parallel => ~Unused(u)
    BY Used DEF Inside
  <1> QED BY <1>4, <1>6, <1>8, <1>9, <1>10, <1>11, <1>12, <1>13

LEMMA AfterStopStep == ASSUME NEW th \in Threads PROVE IInv /\ AfterStop(th) => IInv'
  <1> SUFFICES ASSUME IInv, AfterStop(th) PROVE IInv'
    OBVIOUS
  <1>1. TypeOK
    BY DEF IInv
  <1>2. PICK u \in Tracks : run[th].t = u
    BY <1>1, RunTyped DEF AfterStop
  <1>3. /\ run[th].at = "onstop" /\ run' = [run EXCEPT ![th] = Idle]
        /\ UNCHANGED <<st, fstop, op, stop_sig, exited, asked, pauses>>
    BY DEF AfterStop, told
  <1>4. \/ /\ st[u] # "ACTIVE"
           /\ q' = PostTo(q, Home(<<"tsk_main", u>>), <<"tsk_main", u>>)
           /\ finished' = [finished EXCEPT ![u] = TRUE]
        \/ st[u] = "ACTIVE" /\ UNCHANGED <<q, finished>>
    BY <1>2 DEF AfterStop, Finish, Home
  <1>5. \A t \in Tracks \ {u} : SameFlags(t)
    BY <1>1, <1>3, <1>4 DEF SameFlags, TypeOK
  <1>6. /\ run' \in [Threads -> {Idle} \cup RunType] /\ QueuesOK(q') /\ AtHome'
        /\ \A t \in Tracks \ {u} : Untouched(t)
        /\ \A j \in Kinds : /\ Queued(j, u) => Queued(j, u)'
                            /\ j # "tsk_main" => (Queued(j, u)' <=> Queued(j, u))
        /\ q' = PostTo(q, Home(<<"tsk_main", u>>), <<"tsk_main", u>>) => Queued("tsk_main", u)'
        /\ Processed(u)' <=> Processed(u)
        /\ u \notin Parallel => ~Unused(u)
    <2>1. "tsk_main" \in Kinds
      BY DEF Kinds
    <2>2. q' = q \/ q' = PostTo(q, Home(<<"tsk_main", u>>), <<"tsk_main", u>>)
      BY <1>4
    <2>3. run[th].at # "idle"
      BY <1>3
    <2> QED BY <1>2, <1>3, <1>5, <2>1, <2>2, <2>3, LeavingThread
  <1>7. /\ finished' \in [Tracks -> BOOLEAN] /\ (finished[u] => finished'[u])
        /\ st[u] # "ACTIVE" => finished'[u]
    BY <1>1, <1>4 DEF TypeOK
  <1>8. TypeOK'
    BY <1>1, <1>3, <1>6, <1>7 DEF TypeOK, RunType, QueuesOK
  <1>9. TrackInv(u)'
    <2>1. Awake(u) /\ StopFollowed(u) /\ FinFollowed(u)
      BY <1>2 DEF IInv, TrackInv
    <2>2. Queued("tsk", u) => Queued("tsk", u)'
      BY <1>6 DEF Kinds
    <2>3. Queued("tsk_stop", u)' <=> Queued("tsk_stop", u)
      BY <1>6 DEF Kinds
    <2>4. Queued("tsk_main", u) => Queued("tsk_main", u)'
      BY <1>6 DEF Kinds
    <2>5. Awake(u)'
      BY <1>3, <1>6, <1>7, <2>1, <2>2 DEF Awake
    <2>6. StopFollowed(u)'
      BY <1>3, <1>7, <2>1, <2>3 DEF StopFollowed
    <2>7. FinFollowed(u)'
      BY <1>3, <1>4, <1>6, <1>7, <2>1, <2>4 DEF FinFollowed
    <2> QED BY <2>5, <2>6, <2>7 DEF TrackInv
  <1>10. u \notin Parallel => ~Unused(u)'
    BY <1>3, <1>6 DEF Unused
  <1>11. ExitIsNotMissed'
    BY <1>3 DEF IInv, ExitIsNotMissed, Live
  <1> QED BY <1>6, <1>8, <1>9, <1>10, <1>11, OneTrack DEF IInv

LEMMA RunFreeStep == IInv /\ RunFree => IInv'
  <1> SUFFICES ASSUME IInv, RunFree PROVE IInv'
    OBVIOUS
  <1>0. "main" \in Threads /\ "worker" \in Threads /\ Threads = {"main", "worker"}
    BY DEF Threads
  <1>1. /\ TypeOK /\ QueuesOK(q) /\ run["main"] = Idle /\ q["main"] # <<>> /\ Head(q["main"])[1] = "tsk_main"
        /\ UNCHANGED <<fstop, run, stop_sig, asked, pauses, finished>>
    BY TypeParts DEF RunFree, told
  <1>2. Head(q["main"]) \in Tasks /\ Contains(q["main"], Head(q["main"]))
    BY <1>0, <1>1, TailQueues
  <1>3. PICK u \in Tracks : Head(q["main"]) = <<"tsk_main", u>>
    BY <1>1, <1>2 DEF Tasks
  <1>4. /\ q' = Without(q, u) /\ op' = [op EXCEPT ![u] = FALSE] /\ st' = [st EXCEPT ![u] = "freed"]
        /\ exited' = (exited \/ (stop_sig /\ LastOne(u)))
    <2>1. Head(q["main"])[2] = u
      BY <1>3
    <2> QED BY <2>1 DEF RunFree
  <1>5. /\ QueuesOK(q')
        /\ \A w \in Threads : \A x : Contains(q'[w], x) <=>
                /\ Contains(q[w], x)
                /\ ~(w = "main" /\ x = <<"tsk_main", u>>)
                /\ ~(w = Worker(u) /\ x \in {<<"tsk", u>>, <<"tsk_stop", u>>})
    BY <1>1, <1>4, WithoutQueues
  <1>6. /\ st' \in [Tracks -> {"none", "STOPPED", "ACTIVE", "PAUSED", "ERR", "freed"}] /\ op' \in [Tracks -> BOOLEAN]
        /\ st'[u] = "freed" /\ ~op'[u]
        /\ \A t \in Tracks \ {u} : st'[t] = st[t] /\ op'[t] = op[t]
    BY <1>1, <1>4 DEF TypeOK
  <1>7. exited' \in BOOLEAN
    <2>1. (exited \/ (stop_sig /\ LastOne(u))) \in BOOLEAN
      OBVIOUS
    <2> QED BY <1>4, <2>1
  <1>8. TypeOK'
    BY <1>1, <1>5, <1>6, <1>7 DEF TypeOK, QueuesOK
  <1>9. AtHome'
    <2>1. \A w \in Threads, task \in Tasks : Contains(q'[w], task) => w = Home(task)
      BY <1>5 DEF IInv, AtHome
    <2>2. \A t \in Tracks : Inside("worker", t)' => t \in Parallel
      BY <1>1 DEF IInv, AtHome, Inside
    <2> QED BY <2>1, <2>2 DEF AtHome
  <1>10. \A t \in Tracks \ {u} : Untouched(t)
    <2>1. \A t \in Tracks \ {u} : SameFlags(t)
      BY <1>1, <1>6 DEF SameFlags
    <2>2. \A w \in Threads : \A x : x \notin Kinds \X {u} => (Contains(q'[w], x) <=> Contains(q[w], x))
      BY <1>5 DEF Kinds
    <2>3. run["main"].at = "idle"
      BY <1>1 DEF Idle
    <2>4. /\ \A w \in Threads : w # "main" => run'[w] = run[w]
          /\ run'["main"].at = "idle"
      BY <1>1, <2>3
    <2> QED BY <1>0, <2>1, <2>2, <2>3, <2>4, OthersUntouched
  <1>11. \A k \in Kinds : ~Queued(k, u)'
    <2>1. ~Queued("tsk", u)' /\ ~Queued("tsk_stop", u)'
      BY <1>5, WorkerType DEF Queued, Home
    <2>2. ~Queued("tsk_main", u)'
      BY <1>0, <1>5 DEF Queued, Home
    <2> QED BY <2>1, <2>2 DEF Kinds
  <1>12. TrackInv(u)'
    <2>1. StopFollowed(u)' /\ Awake(u)' /\ FinFollowed(u)'
      BY <1>6, <1>11 DEF StopFollowed, Awake, FinFollowed, Kinds
    <2> QED BY <2>1 DEF TrackInv
  <1>13. u \notin Parallel => Alone(u)'
    <2> HAVE u \notin Parallel
    <2>1. ~Inside("worker", u)' /\ ~Inside("main", u)'
      BY <1>1 DEF IInv, AtHome, Inside, Idle
    <2> QED BY <1>0, <1>6, <1>11, <2>1 DEF Alone
  <1>14. ExitIsNotMissed'
    <2> SUFFICES ASSUME stop_sig', ~exited' PROVE Live' # {}
      BY DEF ExitIsNotMissed
    <2>1. ~LastOne(u)
      BY <1>1, <1>4
    <2>2. PICK t \in Live : t # u
      BY <2>1 DEF LastOne
    <2>3. t \in Live'
      BY <1>6, <2>2 DEF Live
    <2> QED BY <2>3
  <1> QED BY <1>3, <1>8, <1>9, <1>10, <1>12, <1>13, <1>14, OneTrack DEF IInv
(* A thread returns from trk_process() of an active, paused or failed track: the
   state s, the pending operation o and the mark f of trk_fin() are what it leaves
   behind, and k is the task that it may have posted. *)
LEMMA LeavingProcess ==
  ASSUME IInv, NEW th \in Threads, NEW u \in Tracks, run[th].at = "process", run[th].t = u,
         st[u] \in {"ACTIVE", "PAUSED", "ERR"},
         NEW k \in {"tsk", "tsk_main"}, NEW s \in {"ACTIVE", "PAUSED", "ERR"},
         NEW o \in BOOLEAN, NEW f \in BOOLEAN,
         run' = Left(th),
         q' = q \/ q' = PostTo(q, Home(<<k, u>>), <<k, u>>),
         st' = [st EXCEPT ![u] = s], op' = [op EXCEPT ![u] = o], finished' = [finished EXCEPT ![u] = f],
         finished[u] => f,
         f => finished[u] \/ (k = "tsk_main" /\ q' = PostTo(q, Home(<<k, u>>), <<k, u>>)),
         s = "ERR" => f,
         s = "ACTIVE" => f \/ o \/ (k = "tsk" /\ q' = PostTo(q, Home(<<k, u>>), <<k, u>>)),
         pauses' \in 0 .. MaxPauses,
         UNCHANGED <<fstop, stop_sig, exited, asked>>
  PROVE  IInv'
  <1>1. TypeOK
    BY DEF IInv
  <1>2. /\ st' \in [Tracks -> {"none", "STOPPED", "ACTIVE", "PAUSED", "ERR", "freed"}]
        /\ st'[u] = s /\ \A t \in Tracks \ {u} : st'[t] = st[t]
    BY <1>1 DEF TypeOK
  <1>3. op' \in [Tracks -> BOOLEAN] /\ op'[u] = o /\ \A t \in Tracks \ {u} : op'[t] = op[t]
    BY <1>1 DEF TypeOK
  <1>4. finished' \in [Tracks -> BOOLEAN] /\ finished'[u] = f /\ \A t \in Tracks \ {u} : finished'[t] = finished[t]
    BY <1>1 DEF TypeOK
  <1>5. \A t \in Tracks \ {u} : SameFlags(t)
    BY <1>2, <1>3, <1>4 DEF SameFlags
  <1>6. /\ run' \in [Threads -> {Idle} \cup RunType] /\ QueuesOK(q') /\ AtHome'
        /\ \A t \in Tracks \ {u} : Untouched(t)
        /\ \A j \in Kinds : /\ Queued(j, u) => Queued(j, u)'
                            /\ j # k => (Queued(j, u)' <=> Queued(j, u))
        /\ q' = PostTo(q, Home(<<k, u>>), <<k, u>>) => Queued(k, u)'
    <2>1. k \in Kinds /\ run[th].at # "idle"
      BY DEF Kinds
    <2> HIDE DEF IInv
    <2> QED BY <1>5, <2>1, LeavingThread
  <1>7. /\ Queued("tsk_main", u) => Queued("tsk_main", u)'
        /\ Queued("tsk_stop", u)' <=> Queued("tsk_stop", u)
    BY <1>6 DEF Kinds
  <1>8. TypeOK'
    BY <1>1, <1>2, <1>3, <1>4, <1>6 DEF TypeOK, RunType, QueuesOK
  <1>9. TrackInv(u)'
    <2>1. StopFollowed(u) /\ FinFollowed(u)
      BY DEF IInv, TrackInv
    <2>2. Awake(u)'
      BY <1>2, <1>3, <1>4, <1>6 DEF Awake
    <2>3. StopFollowed(u)'
      BY <1>2, <1>7, <2>1 DEF StopFollowed
    <2>4. FinFollowed(u)'
      BY <1>2, <1>4, <1>6, <1>7, <2>1 DEF FinFollowed
    <2> QED BY <2>2, <2>3, <2>4 DEF TrackInv
  <1>10. ~Unused(u)'
    BY <1>2 DEF Unused
  <1>11. ExitIsNotMissed'
    <2>1. Live' = Live
      BY <1>2 DEF Live
    <2> QED BY <2>1 DEF IInv, ExitIsNotMissed
  <1> QED BY <1>6, <1>8, <1>9, <1>10, <1>11, OneTrack DEF IInv

(* The track of a thread inside trk_process(), and what is left unchanged of it. *)
LEMMA ProcessTyped ==
  ASSUME IInv, NEW th \in Threads, run[th].at = "process"
  PROVE  /\ run[th].t \in Tracks
         /\ \A u \in Tracks : /\ st = [st EXCEPT ![u] = st[u]] /\ op = [op EXCEPT ![u] = op[u]]
                              /\ finished = [finished EXCEPT ![u] = finished[u]]
                              /\ op[u] \in BOOLEAN /\ finished[u] \in BOOLEAN
         /\ pauses \in 0 .. MaxPauses
  BY RunTyped DEF IInv, TypeOK

LEMMA LeaveStep == ASSUME NEW th \in Threads PROVE IInv /\ Leave(th) => IInv'
  <1> SUFFICES ASSUME IInv, Leave(th) PROVE IInv'
    OBVIOUS
  <1>1. run[th].at = "process" /\ run' = Left(th) /\ UNCHANGED <<st, fstop, op, stop_sig, exited, asked, pauses>>
    BY DEF Leave, told
  <1>2. PICK u \in Tracks : run[th].t = u
    BY <1>1, ProcessTyped
  <1>3. /\ st = [st EXCEPT ![u] = st[u]] /\ op = [op EXCEPT ![u] = op[u]]
        /\ finished = [finished EXCEPT ![u] = finished[u]]
        /\ op[u] \in BOOLEAN /\ finished[u] \in BOOLEAN /\ pauses \in 0 .. MaxPauses
    BY <1>1, ProcessTyped
  <1>4. CASE /\ st[u] \in {"ACTIVE", "ERR"}
             /\ q' = PostTo(q, Home(<<"tsk_main", u>>), <<"tsk_main", u>>)
             /\ finished' = [finished EXCEPT ![u] = TRUE]
    BY ONLY IInv, u \in Tracks, th \in Threads, <1>1, <1>2, <1>3, <1>4, LeavingProcess
  <1>5. CASE st[u] = "PAUSED" /\ UNCHANGED <<q, finished>>
    BY ONLY IInv, u \in Tracks, th \in Threads, <1>1, <1>2, <1>3, <1>5, LeavingProcess
  <1>6. CASE /\ st[u] = "ACTIVE" /\ q' = PostTo(q, Home(<<"tsk", u>>), <<"tsk", u>>)
             /\ UNCHANGED finished
    BY ONLY IInv, u \in Tracks, th \in Threads, <1>1, <1>2, <1>3, <1>6, LeavingProcess
  <1> QED BY <1>2, <1>4, <1>5, <1>6 DEF Leave, Finish, Woken, Home

LEMMA WaitsStep == ASSUME NEW th \in Threads PROVE IInv /\ Waits(th) => IInv'
  <1> SUFFICES ASSUME IInv, Waits(th) PROVE IInv'
    OBVIOUS
  <1>1. /\ run[th].at = "process" /\ run' = Left(th) /\ UNCHANGED <<fstop, q, stop_sig, exited, asked, finished>>
        /\ st[run[th].t] = "ACTIVE"
    BY DEF Waits, CallsFilter
  <1>2. PICK u \in Tracks : run[th].t = u
    BY <1>1, ProcessTyped
  <1>3. /\ st = [st EXCEPT ![u] = st[u]] /\ op = [op EXCEPT ![u] = op[u]]
        /\ finished = [finished EXCEPT ![u] = finished[u]]
        /\ op[u] \in BOOLEAN /\ finished[u] \in BOOLEAN /\ pauses \in 0 .. MaxPauses
    BY <1>1, ProcessTyped
  <1>4. CASE op' = [op EXCEPT ![u] = TRUE] /\ UNCHANGED <<st, pauses>>
    BY ONLY IInv, u \in Tracks, th \in Threads, <1>1, <1>2, <1>3, <1>4, LeavingProcess
  <1>5. CASE pauses < MaxPauses /\ pauses' = pauses + 1 /\ st' = [st EXCEPT ![u] = "PAUSED"] /\ UNCHANGED op
    <2>1. pauses' \in 0 .. MaxPauses
      BY <1>3, <1>5, LifeAssumption
    <2>2. st' = [st EXCEPT ![u] = "PAUSED"] /\ UNCHANGED op
      BY <1>5
    <2> QED BY ONLY IInv, u \in Tracks, th \in Threads, <1>1, <1>2, <1>3, <2>1, <2>2, LeavingProcess
  <1> QED BY <1>2, <1>4, <1>5 DEF Waits

LEMMA EndsStep == ASSUME NEW th \in Threads PROVE IInv /\ (Ends(th) \/ Fails(th)) => IInv'
  <1> SUFFICES ASSUME IInv, Ends(th) \/ Fails(th) PROVE IInv'
    OBVIOUS
  <1>1. /\ run[th].at = "process" /\ run' = Left(th) /\ UNCHANGED <<fstop, op, stop_sig, exited, asked, pauses>>
        /\ st[run[th].t] = "ACTIVE"
    BY DEF Ends, Fails, CallsFilter, told
  <1>2. PICK u \in Tracks : run[th].t = u
    BY <1>1, ProcessTyped
  <1>3. /\ st = [st EXCEPT ![u] = st[u]] /\ op = [op EXCEPT ![u] = op[u]]
        /\ op[u] \in BOOLEAN /\ pauses \in 0 .. MaxPauses
    BY <1>1, ProcessTyped
  <1>4. /\ q' = PostTo(q, Home(<<"tsk_main", u>>), <<"tsk_main", u>>)
        /\ finished' = [finished EXCEPT ![u] = TRUE]
    BY <1>2 DEF Ends, Fails, Finish, Home
  <1>5. CASE UNCHANGED st
    BY ONLY IInv, u \in Tracks, th \in Threads, <1>1, <1>2, <1>3, <1>4, <1>5, LeavingProcess
  <1>6. CASE st' = [st EXCEPT ![u] = "ERR"]
    BY ONLY IInv, u \in Tracks, th \in Threads, <1>1, <1>2, <1>3, <1>4, <1>6, LeavingProcess
  <1> QED BY <1>2, <1>5, <1>6 DEF Ends, Fails

LEMMA DeviceFailsStep == ASSUME NEW th \in Threads PROVE IInv /\ DeviceFails(th) => IInv'
  <1> SUFFICES ASSUME IInv, DeviceFails(th) PROVE IInv'
    OBVIOUS
  <1>1. /\ run[th].at = "process" /\ st[run[th].t] = "ACTIVE" /\ TypeOK
        /\ UNCHANGED <<st, q, run, op, stop_sig, exited, asked, pauses, finished>>
    BY DEF DeviceFails, CallsFilter, told, IInv
  <1>2. PICK u \in Tracks : run[th].t = u
    BY <1>1, ProcessTyped
  <1>3. fstop' \in [Tracks -> BOOLEAN] /\ fstop'[u] /\ \A t \in Tracks \ {u} : fstop'[t] = fstop[t]
    BY <1>1, <1>2 DEF DeviceFails, TypeOK
  <1>4. TypeOK'
    BY <1>1, <1>3 DEF TypeOK
  <1>5. AtHome'
    BY <1>1 DEF IInv, AtHome, Inside
  <1>6. \A t \in Tracks \ {u} : Untouched(t)
    BY <1>1, <1>3 DEF Untouched, SameFlags, SameTasks, SameThreads, Queued, Inside
  <1>7. TrackInv(u)'
    <2>1. (Processed(u)' <=> Processed(u)) /\ (Queued("tsk_stop", u)' <=> Queued("tsk_stop", u))
          /\ (Queued("tsk", u)' <=> Queued("tsk", u)) /\ (Queued("tsk_main", u)' <=> Queued("tsk_main", u))
      BY <1>1 DEF Processed, Queued
    <2> QED BY <1>1, <1>2, <1>3, <2>1 DEF IInv, TrackInv, Awake, StopFollowed, FinFollowed
  <1>8. ~Unused(u)'
    BY <1>1, <1>2 DEF Unused
  <1>9. ExitIsNotMissed'
    BY <1>1 DEF IInv, ExitIsNotMissed, Live
  <1> QED BY <1>2, <1>4, <1>5, <1>6, <1>7, <1>8, <1>9, OneTrack DEF IInv

LEMMA StepIInv == IInv /\ [Next]_vars => IInv'
  <1> SUFFICES ASSUME IInv, [Next]_vars PROVE IInv'
    OBVIOUS
  <1>1. CASE UNCHANGED vars
    <2>1. UNCHANGED <<st, fstop, q, run, op, stop_sig, exited, asked, pauses, finished>>
      BY <1>1 DEF vars, told
    <2>2. TypeOK'
      BY <2>1 DEF IInv, TypeOK
    <2>3. AtHome' /\ ExitIsNotMissed'
      BY <2>1 DEF IInv, AtHome, Inside, ExitIsNotMissed, Live
    <2>4. \A t \in Tracks : Untouched(t)
      BY <2>1 DEF Untouched, SameFlags, SameTasks, SameThreads, Queued, Inside
    <2> QED BY <2>2, <2>3, <2>4, NoTrack DEF IInv
  <1>2. CASE \E t \in Tracks : Create(t) \/ Start(t) \/ Stop(t) \/ Pause(t) \/ Unpause(t) \/ Complete(t)
    BY <1>2, CreateStep, StartStep, StopStep, PauseStep, UnpauseStep, CompleteStep
  <1>3. CASE \E th \in Threads : Step(th)
    BY <1>3, RunTaskStep, RunStopStep, AfterStopStep, LeaveStep, DeviceFailsStep, WaitsStep, EndsStep DEF Step
  <1> QED BY <1>1, <1>2, <1>3, StopAllExitStep, RunFreeStep DEF Next, Terminated

-----------------------------------------------------------------------------
(* The invariant holds in every reachable state. *)
THEOREM Invariance == Spec => []IInv
  BY InitIInv, StepIInv, PTL DEF Spec

(* Every variable has its type; no queue lists a task twice, for any number of
   tracks, as the callers of fftask_post() rely on. *)
THEOREM TypeCorrect == Spec => []TypeOK
  <1>1. IInv => TypeOK
    BY DEF IInv
  <1> QED BY <1>1, Invariance, PTL

(* An active track that no thread is inside of is waited for, or its task is in the
   queue of its own worker: trk_process() never leaves a track that nobody wakes,
   whichever worker it runs on. *)
THEOREM WakeIsNotLostHolds == Spec => []WakeIsNotLost
  <1>1. IInv => WakeIsNotLost
    <2> SUFFICES ASSUME IInv, NEW t \in Tracks, st[t] = "ACTIVE", ~finished[t], \A th \in Threads : ~Inside(th, t)
                 PROVE  op[t] \/ Contains(q[Worker(t)], <<"tsk", t>>)
      BY DEF WakeIsNotLost
    <2>1. ~Processed(t)
      BY DEF Processed, Inside
    <2> QED BY <2>1 DEF IInv, TrackInv, Awake, Queued, Home
  <1> QED BY <1>1, Invariance, PTL

(* trk_free() leaves nothing that refers to a track of the main thread, even while
   other tracks run on the other worker. *)
NothingLeftOfFreedOnMain ==
    \A t \in Tracks \ Parallel : st[t] = "freed" =>
        /\ \A th \in Threads : ~Inside(th, t) /\ \A i \in DOMAIN q[th] : q[th][i][2] # t
        /\ ~op[t]

LEMMA FreedIsLeft == IInv => NothingLeftOfFreedOnMain
  <1> SUFFICES ASSUME IInv, NEW t \in Tracks \ Parallel, st[t] = "freed", NEW th \in Threads
               PROVE  ~Inside(th, t) /\ (\A i \in DOMAIN q[th] : q[th][i][2] # t) /\ ~op[t]
    BY DEF NothingLeftOfFreedOnMain, Threads
  <1>1. Alone(t)
    BY DEF IInv, UnusedAlone, Unused
  <1>2. ASSUME NEW i \in DOMAIN q[th], q[th][i][2] = t PROVE FALSE
    <2>1. q[th] \in Seq(Tasks)
      BY TypeParts DEF QueuesOK
    <2>2. q[th][i] \in Tasks
      BY <2>1, ElementOfSeq
    <2>3. PICK k \in Kinds : q[th][i] = <<k, t>>
      BY <1>2, <2>2 DEF Tasks, Kinds
    <2>4. Contains(q[th], <<k, t>>)
      BY <2>3 DEF Contains
    <2>5. th = Home(<<k, t>>)
      BY <2>2, <2>3, <2>4 DEF IInv, AtHome
    <2> QED BY <1>1, <2>4, <2>5 DEF Alone, Queued
  <1> QED BY <1>1, <1>2 DEF Alone

THEOREM NothingLeftOnMainHolds == Spec => []NothingLeftOfFreedOnMain
  BY FreedIsLeft, Invariance, PTL

(* If no track was started with FMED_TRACK_XSTART, trk_free() leaves no task, no
   thread and no operation that refers to the track it frees. *)
THEOREM NothingLeftOfFreedHolds ==
  ASSUME Parallel = {}
  PROVE  Spec => []NothingLeftOfFreed
  <1>1. NothingLeftOfFreedOnMain => NothingLeftOfFreed
    BY DEF NothingLeftOfFreedOnMain, NothingLeftOfFreed
  <1> QED BY <1>1, NothingLeftOnMainHolds, PTL

(* A track that was told to stop and is neither freed nor paused is still going to
   be attended to: a thread is inside one of its functions, one of its tasks is
   queued, or an operation is going on that will post one.  This is the state part
   of StopEnds: what fairness then turns into the end of the track. *)
StopIsNotLost ==
    \A t \in Tracks : asked[t] /\ st[t] \notin {"freed", "PAUSED"} =>
        (\E th \in Threads : Inside(th, t)) \/ (\E k \in Kinds : Queued(k, t)) \/ op[t]

THEOREM StopIsNotLostHolds == Spec => []StopIsNotLost
  <1>1. IInv => StopIsNotLost
    <2> SUFFICES ASSUME IInv, NEW t \in Tracks, asked[t], st[t] \notin {"freed", "PAUSED"}
                 PROVE  (\E th \in Threads : Inside(th, t)) \/ (\E k \in Kinds : Queued(k, t)) \/ op[t]
      BY DEF StopIsNotLost
    <2>1. Awake(t) /\ StopFollowed(t) /\ FinFollowed(t)
      BY DEF IInv, TrackInv
    <2>2. st[t] \in {"STOPPED", "ACTIVE", "ERR"}
      BY <2>1 DEF IInv, TypeOK, StopFollowed
    <2>3. (Processed(t) \/ Stopping(t)) => \E th \in Threads : Inside(th, t)
      BY DEF Processed, Stopping, Inside
    <2>4. Queued("tsk_stop", t) \/ fstop[t]
      BY <2>1, <2>2 DEF StopFollowed
    <2> QED BY <2>1, <2>2, <2>3, <2>4 DEF Awake, StopFollowed, FinFollowed, Kinds
  <1> QED BY <1>1, Invariance, PTL

(* FMED_TRACK_STOPALL_EXIT ends the program no later than the last track is freed:
   as long as the program has not ended after that command, a track is left whose
   trk_free() can end it. *)
THEOREM ExitIsNotMissedHolds == Spec => []ExitIsNotMissed
  <1>1. IInv => ExitIsNotMissed
    BY DEF IInv
  <1> QED BY <1>1, Invariance, PTL
=============================================================================
