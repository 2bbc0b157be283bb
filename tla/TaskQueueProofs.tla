--------------------------- MODULE TaskQueueProofs ---------------------------
(***************************************************************************)
(* Safety of the task queue and its worker for any number of tasks and     *)
(* posting threads and any value of max_run.                               *)
(***************************************************************************)
EXTENDS TaskQueue, SequenceTheorems, TLAPS

(* What makes NoStrandedTask inductive: wherever the worker is, a non-empty
   queue has a signal under way, an event still to be handled (fftask_run()
   follows it), or a run of fftask_run() in progress. *)
Wakeful ==
    tasks # <<>> =>
        \/ kqsig
        \/ \E th \in Threads : sig[th]
        \/ evs # {}
        \/ loop \in {"pick", "unlink", "handler"}
        \/ gaveUp
        \/ loop = "exit"

(* The batch of events is empty while the worker is outside of it, and it is
   not while the worker is about to take the next one. *)
BatchOK ==
    /\ loop \in {"head", "wait", "exit"} => evs = {}
    /\ loop = "event" => evs # {}

(* The item read without the lock stays the first one until it is unlinked,
   and the loop of fftask_run() entered its body with n above zero. *)
HeadOK ==
    /\ loop = "unlink" => tasks # <<>> /\ it = tasks[1]
    /\ loop \in {"unlink", "handler"} => n # 0

(* There is an item from the moment it is read to the end of its handler. *)
HeldOK == loop \in {"unlink", "handler"} => it # NoTask

IInv == TypeOK /\ BatchOK /\ HeadOK /\ HeldOK /\ LinkedOnce /\ Wakeful

-----------------------------------------------------------------------------
(* fflist_rm() leaves a list of the same items in the same order. *)
LEMMA RemoveItemType ==
    ASSUME NEW S, NEW s \in Seq(S), NEW i \in 1 .. Len(s)
    PROVE  /\ RemoveItem(s, i) \in Seq(S)
           /\ Len(RemoveItem(s, i)) = Len(s) - 1
           /\ \A j \in 1 .. Len(s) - 1 :
                RemoveItem(s, i)[j] = IF j < i THEN s[j] ELSE s[j + 1]
  BY DEF RemoveItem

(* Taking the first item off the list is Tail. *)
LEMMA RemoveFirst ==
    ASSUME NEW S, NEW s \in Seq(S), s # <<>>
    PROVE  RemoveItem(s, 1) = Tail(s)
  <1>1. 1 \in 1 .. Len(s)
    BY EmptySeq
  <1>2. /\ RemoveItem(s, 1) \in Seq(S)
        /\ Len(RemoveItem(s, 1)) = Len(s) - 1
        /\ \A j \in 1 .. Len(s) - 1 : RemoveItem(s, 1)[j] = s[j + 1]
    BY <1>1, RemoveItemType
  <1>3. /\ Tail(s) \in Seq(S)
        /\ Len(Tail(s)) = Len(s) - 1
        /\ \A j \in 1 .. Len(s) - 1 : Tail(s)[j] = s[j + 1]
    BY HeadTailProperties
  <1> QED BY <1>2, <1>3, SeqEqual

(* Removing an item keeps the others distinct. *)
LEMMA RemoveKeepsDistinct ==
    ASSUME NEW S, NEW s \in Seq(S), NEW k \in 1 .. Len(s),
           \A i, j \in 1 .. Len(s) : s[i] = s[j] => i = j
    PROVE  LET r == RemoveItem(s, k)
           IN  \A i, j \in 1 .. Len(r) : r[i] = r[j] => i = j
  <1> DEFINE r == RemoveItem(s, k)
  <1> SUFFICES ASSUME NEW i \in 1 .. Len(r), NEW j \in 1 .. Len(r), r[i] = r[j]
               PROVE  i = j
    OBVIOUS
  <1>1. Len(s) \in Nat OBVIOUS
  <1>2. i \in 1 .. Len(s) - 1 /\ j \in 1 .. Len(s) - 1
    BY RemoveItemType
  <1>3. r[i] = (IF i < k THEN s[i] ELSE s[i + 1]) /\ r[j] = (IF j < k THEN s[j] ELSE s[j + 1])
    BY <1>2, RemoveItemType
  <1>4. CASE i < k /\ j < k
    <2>1. s[i] = s[j] BY <1>3, <1>4
    <2> QED BY <1>1, <1>2, <2>1
  <1>5. CASE i < k /\ ~(j < k)
    <2>1. s[i] = s[j + 1] BY <1>3, <1>5
    <2>2. i = j + 1 BY <1>1, <1>2, <2>1
    <2> QED BY <1>2, <1>5, <2>2
  <1>6. CASE ~(i < k) /\ j < k
    <2>1. s[i + 1] = s[j] BY <1>3, <1>6
    <2>2. i + 1 = j BY <1>1, <1>2, <2>1
    <2> QED BY <1>2, <1>6, <2>2
  <1>7. CASE ~(i < k) /\ ~(j < k)
    <2>1. s[i + 1] = s[j + 1] BY <1>3, <1>7
    <2>2. i + 1 = j + 1 BY <1>1, <1>2, <2>1
    <2> QED BY <1>2, <2>2
  <1> QED BY <1>4, <1>5, <1>6, <1>7

-----------------------------------------------------------------------------
(* The invariant holds when the worker starts. *)
LEMMA InitIInv == Init => IInv
  <1> SUFFICES ASSUME Init PROVE IInv
    OBVIOUS
  <1>1. /\ tasks = <<>> /\ Len(tasks) = 0 /\ tasks \in Seq(Tasks)
        /\ loop = "head" /\ evs = {} /\ n \in 0 .. MaxRun /\ posted \in 0 .. PostBudget
    BY RunAssumption, EmptySeq DEF Init
  <1>2. TypeOK BY <1>1 DEF Init, TypeOK, Threads
  <1> QED BY <1>1, <1>2 DEF IInv, BatchOK, HeadOK, HeldOK, LinkedOnce, Wakeful

(* Appending a task that is not in the list keeps its items distinct. *)
LEMMA AppendKeepsDistinct ==
    ASSUME NEW S, NEW s \in Seq(S), NEW t \in S,
           \A i \in 1 .. Len(s) : s[i] # t,
           \A i, j \in 1 .. Len(s) : s[i] = s[j] => i = j
    PROVE  \A i, j \in 1 .. Len(Append(s, t)) : Append(s, t)[i] = Append(s, t)[j] => i = j
  <1>1. Len(s) \in Nat OBVIOUS
  <1>2. /\ Len(Append(s, t)) = Len(s) + 1
        /\ \A i \in 1 .. Len(s) : Append(s, t)[i] = s[i]
        /\ Append(s, t)[Len(s) + 1] = t
    OBVIOUS
  <1>3. \A i \in 1 .. Len(s) + 1 : i \in 1 .. Len(s) \/ i = Len(s) + 1
    BY <1>1
  <1> QED BY <1>1, <1>2, <1>3

(* Each step of a thread or of the worker preserves the invariant. *)
LEMMA StepIInv == IInv /\ [Next]_vars => IInv'
  <1> SUFFICES ASSUME IInv, [Next]_vars PROVE IInv'
    OBVIOUS
  <1> USE RunAssumption, TaskAssumption, ThreadAssumption
  <1>0. /\ tasks \in Seq(Tasks) /\ Len(tasks) \in Nat /\ n \in 0 .. MaxRun
        /\ WThread \in Threads
    BY DEF IInv, TypeOK, Threads
  <1>1. ASSUME NEW th \in Threads, NEW t \in Tasks, Post(th, t) PROVE IInv'
    <2>1. CASE Active(t)
      <3>1. UNCHANGED <<tasks, sig, kqsig, stopped, loop, evs, n, it, gaveUp>>
        BY <1>1, <2>1 DEF Post, worker
      <3> QED BY <1>1, <3>1 DEF IInv, TypeOK, BatchOK, HeadOK, HeldOK, LinkedOnce, Wakeful, Post
    <2>2. CASE ~Active(t)
      <3>1. /\ tasks' = Append(tasks, t)
            /\ sig' = [sig EXCEPT ![th] = (tasks = <<>>)]
            /\ UNCHANGED <<kqsig, stopped, loop, evs, n, it, gaveUp>>
            /\ posted' \in 0 .. PostBudget
            /\ th = WThread => loop = "handler"
            /\ ~sig[th]
        BY <1>1, <2>2 DEF Post, worker, CanCall, IInv, TypeOK
      <3>2. TypeOK' BY <1>0, <3>1 DEF IInv, TypeOK
      <3>3. BatchOK' BY <3>1 DEF IInv, BatchOK
      <3>4. HeadOK' /\ HeldOK' BY <1>0, <3>1 DEF IInv, HeadOK, HeldOK
      <3>5. LinkedOnce' BY <1>0, <2>2, <3>1, AppendKeepsDistinct DEF IInv, LinkedOnce, Active
      <3>6. Wakeful'
        <4>1. CASE tasks = <<>>
          <5>1. sig'[th] BY <3>1, <4>1 DEF IInv, TypeOK
          <5> QED BY <5>1 DEF Wakeful
        <4>2. CASE tasks # <<>>
          <5>1. \A x \in Threads : sig[x] => sig'[x]
            BY <3>1, <4>2 DEF IInv, TypeOK
          <5> QED BY <3>1, <4>2, <5>1 DEF IInv, Wakeful
        <4> QED BY <4>1, <4>2
      <3> QED BY <3>2, <3>3, <3>4, <3>5, <3>6 DEF IInv
    <2> QED BY <2>1, <2>2
  <1>2. ASSUME NEW th \in Threads, Signal(th) PROVE IInv'
    <2>1. /\ UNCHANGED <<tasks, posted, stopped, loop, evs, n, it, gaveUp>>
          /\ kqsig' = TRUE /\ sig' = [sig EXCEPT ![th] = FALSE]
      BY <1>2 DEF Signal, queue, worker
    <2> QED BY <1>0, <2>1 DEF IInv, TypeOK, BatchOK, HeadOK, HeldOK, LinkedOnce, Wakeful
  <1>3. ASSUME NEW th \in Threads, Stop(th) PROVE IInv'
    <2>1. /\ UNCHANGED <<tasks, posted, kqsig, loop, evs, n, it, gaveUp>>
          /\ stopped' = TRUE /\ sig' = [sig EXCEPT ![th] = TRUE]
      BY <1>3 DEF Stop, queue, worker
    <2>2. \A x \in Threads : sig[x] => sig'[x] BY <2>1 DEF IInv, TypeOK
    <2>3. TypeOK' BY <2>1 DEF IInv, TypeOK
    <2> QED BY <2>1, <2>2, <2>3 DEF IInv, BatchOK, HeadOK, HeldOK, LinkedOnce, Wakeful
  <1>4. ASSUME NEW t \in Tasks, Delete(t) PROVE IInv'
    <2>1. PICK i \in 1 .. Len(tasks) : tasks' = RemoveItem(tasks, i)
      BY <1>4 DEF Delete
    <2>2. /\ UNCHANGED <<kqsig, sig, stopped, loop, evs, n, it, gaveUp, posted>>
          /\ loop = "handler"
      BY <1>4 DEF Delete, CanCall, worker
    <2>3. TypeOK' BY <1>0, <2>1, <2>2, RemoveItemType DEF IInv, TypeOK
    <2>4. LinkedOnce' BY <1>0, <2>1, RemoveKeepsDistinct DEF IInv, LinkedOnce
    <2> QED BY <2>2, <2>3, <2>4 DEF IInv, BatchOK, HeadOK, HeldOK, Wakeful
  <1>5. CASE LoopHead
    BY <1>5 DEF LoopHead, queue, IInv, TypeOK, BatchOK, HeadOK, HeldOK, LinkedOnce, Wakeful
  <1>6. CASE Wait
    <2>1. /\ UNCHANGED <<tasks, posted, kqsig, sig, stopped, n, it, gaveUp>>
          /\ loop' = "event" /\ evs' # {} /\ evs' \subseteq Events
      BY <1>6 DEF Wait, queue
    <2> QED BY <1>0, <2>1 DEF IInv, TypeOK, BatchOK, HeadOK, HeldOK, LinkedOnce, Wakeful
  <1>7. CASE Event
    <2>1. /\ UNCHANGED <<tasks, posted, sig, stopped, it, gaveUp>>
          /\ loop' = "pick" /\ evs' \subseteq Events /\ kqsig' \in BOOLEAN
          /\ n' = MaxRun
      BY <1>7 DEF Event, queue, IInv, TypeOK
    <2> QED BY <1>0, <2>1 DEF IInv, TypeOK, BatchOK, HeadOK, HeldOK, LinkedOnce, Wakeful
  <1>8. CASE Pick
    <2>1. UNCHANGED <<tasks, posted, kqsig, sig, stopped, evs, n>>
      BY <1>8 DEF Pick, queue
    <2>2. CASE n = 0 \/ tasks = <<>>
      <3>1. /\ loop' = AfterRun /\ gaveUp' = (tasks # <<>>) /\ it' = it
            /\ loop' \in {"head", "event"} /\ gaveUp' \in BOOLEAN
            /\ loop' = "event" => evs # {}
            /\ loop' = "head" => evs = {}
            /\ tasks # <<>> => gaveUp'
        BY <1>8, <2>2 DEF Pick, AfterRun
      <3> QED BY <1>0, <2>1, <3>1 DEF IInv, TypeOK, BatchOK, HeadOK, HeldOK, LinkedOnce, Wakeful
    <2>3. CASE ~(n = 0 \/ tasks = <<>>)
      <3>1. loop' = "unlink" /\ it' = Head(tasks) /\ gaveUp' = gaveUp
        BY <1>8, <2>3 DEF Pick
      <3>2. it' = tasks[1] /\ it' \in Tasks
        BY <1>0, <2>3, <3>1, HeadTailProperties
      <3> QED BY <1>0, <2>1, <2>3, <3>1, <3>2
            DEF IInv, TypeOK, BatchOK, HeadOK, HeldOK, LinkedOnce, Wakeful
    <2> QED BY <2>2, <2>3
  <1>9. CASE Unlink
    <2>1. PICK i \in 1 .. Len(tasks) : tasks' = RemoveItem(tasks, i)
      BY <1>9 DEF Unlink
    <2>2. /\ UNCHANGED <<kqsig, sig, stopped, evs, n, it, gaveUp, posted>>
          /\ loop = "unlink" /\ loop' = "handler"
      BY <1>9 DEF Unlink
    <2>3. TypeOK' BY <1>0, <2>1, <2>2, RemoveItemType DEF IInv, TypeOK
    <2>4. LinkedOnce' BY <1>0, <2>1, RemoveKeepsDistinct DEF IInv, LinkedOnce
    <2> QED BY <2>2, <2>3, <2>4 DEF IInv, BatchOK, HeadOK, HeldOK, Wakeful
  <1>10. CASE Return
    <2>1. /\ UNCHANGED <<tasks, posted, kqsig, sig, stopped, evs, it, gaveUp>>
          /\ loop = "handler" /\ loop' = "pick" /\ n' = n - 1
      BY <1>10 DEF Return, queue
    <2> QED BY <1>0, <2>1 DEF IInv, TypeOK, BatchOK, HeadOK, HeldOK, LinkedOnce, Wakeful
  <1>11. CASE UNCHANGED vars
    BY <1>11 DEF vars, IInv, TypeOK, BatchOK, HeadOK, HeldOK, LinkedOnce, Wakeful
  <1> QED BY <1>1, <1>2, <1>3, <1>4, <1>5, <1>6, <1>7, <1>8, <1>9, <1>10, <1>11
        DEF Next, WorkerStep, Terminated

(* The strengthened invariant of the worker's loop and its list, from which the
   theorems below follow. *)
THEOREM Invariance == SafeSpec => []IInv
  BY InitIInv, StepIInv, PTL DEF SafeSpec

(* The state of the queue and of the worker's thread stays in its types. *)
THEOREM TypeCorrect == SafeSpec => []TypeOK
  <1>1. IInv => TypeOK BY DEF IInv
  <1> QED BY Invariance, <1>1, PTL

(* A worker never goes to sleep on a task without a signal under way, unless
   fftask_run() stopped at max_run. *)
THEOREM NoTaskStranded == SafeSpec => []NoStrandedTask
  <1>1. IInv => NoStrandedTask
    BY DEF IInv, BatchOK, Wakeful, NoStrandedTask
  <1> QED BY Invariance, <1>1, PTL

(* A task is never linked twice. *)
THEOREM NeverLinkedTwice == SafeSpec => []LinkedOnce
  <1>1. IInv => LinkedOnce BY DEF IInv
  <1> QED BY Invariance, <1>1, PTL

(* What fftask_run() unlinks is the first item, although it was read before
   the lock was taken. *)
LEMMA HeadUnlinked ==
    ASSUME IInv, Unlink
    PROVE  it = Head(tasks) /\ tasks' = Tail(tasks)
  <1>1. tasks \in Seq(Tasks) /\ tasks # <<>> /\ it = tasks[1]
    BY DEF IInv, TypeOK, HeadOK, Unlink
  <1>2. Len(tasks) \in Nat \ {0} /\ it = Head(tasks)
    BY <1>1, EmptySeq
  <1>3. PICK i \in 1 .. Len(tasks) : tasks[i] = it /\ tasks' = RemoveItem(tasks, i)
    BY DEF Unlink
  <1>4. i = 1 BY <1>1, <1>2, <1>3 DEF IInv, LinkedOnce
  <1> QED BY <1>1, <1>2, <1>3, <1>4, RemoveFirst

(* Tasks run in the order they were posted. *)
THEOREM FirstInFirstOut == SafeSpec => RunsInOrder
  <1>1. IInv /\ [Next]_vars => [Unlink => it = Head(tasks) /\ tasks' = Tail(tasks)]_vars
    BY HeadUnlinked
  <1> QED BY Invariance, <1>1, PTL DEF SafeSpec, RunsInOrder

-----------------------------------------------------------------------------
(* No post is without a task: what bounds the queue in the model. *)
Bounded == Len(tasks) <= posted

(* A step adds a task only with a post. *)
LEMMA StepBounded == IInv /\ Bounded /\ [Next]_vars => Bounded'
  <1> SUFFICES ASSUME IInv, Bounded, [Next]_vars PROVE Bounded'
    OBVIOUS
  <1>0. tasks \in Seq(Tasks) /\ Len(tasks) \in Nat /\ posted \in Nat
    BY RunAssumption DEF IInv, TypeOK
  <1>1. ASSUME NEW th \in Threads, NEW t \in Tasks, Post(th, t) PROVE Bounded'
    <2>1. posted' = posted + 1 /\ (tasks' = tasks \/ tasks' = Append(tasks, t))
      BY <1>1 DEF Post
    <2> QED BY <1>0, <2>1 DEF Bounded
  <1>2. ASSUME NEW t \in Tasks, Delete(t) PROVE Bounded'
    <2>1. PICK i \in 1 .. Len(tasks) : tasks' = RemoveItem(tasks, i)
      BY <1>2 DEF Delete
    <2>2. posted' = posted BY <1>2 DEF Delete
    <2> QED BY <1>0, <2>1, <2>2, RemoveItemType DEF Bounded
  <1>3. CASE Unlink
    <2>1. PICK i \in 1 .. Len(tasks) : tasks' = RemoveItem(tasks, i)
      BY <1>3 DEF Unlink
    <2>2. posted' = posted BY <1>3 DEF Unlink
    <2> QED BY <1>0, <2>1, <2>2, RemoveItemType DEF Bounded
  <1>4. CASE UNCHANGED <<tasks, posted>>
    BY <1>4 DEF Bounded
  <1> QED BY <1>1, <1>2, <1>3, <1>4
        DEF Next, WorkerStep, Terminated, Signal, Stop, LoopHead, Wait, Event, Pick, Return, queue, vars

(* The queue never holds more tasks than were posted. *)
THEOREM Invariance2 == SafeSpec => [](IInv /\ Bounded)
  <1>1. Init => Bounded
    BY RunAssumption, EmptySeq DEF Init, Bounded
  <1> QED BY Invariance, <1>1, StepBounded, PTL DEF SafeSpec

(* The list starts as an empty queue whose reader has nothing. *)
LEMMA InitRefines == Init => Promise!Init
  BY DEF Init, Promise!Init

(* A step that neither changes the list nor enters or leaves a handler is
   nothing that the promise knows of. *)
LEMMA StutterRefines ==
    ASSUME UNCHANGED tasks, UNCHANGED it, (loop = "handler") <=> (loop' = "handler")
    PROVE  UNCHANGED Promise!vars
  BY DEF Promise!vars

(* Each step of the list is a step of a first-in-first-out queue, or nothing. *)
LEMMA StepRefines ==
    IInv /\ Bounded /\ IInv' /\ [Next]_vars => [Promise!Next]_(Promise!vars)
  <1> SUFFICES ASSUME IInv, Bounded, IInv', [Next]_vars
               PROVE  [Promise!Next]_(Promise!vars)
    OBVIOUS
  <1> DEFINE had == [r \in {WThread} |-> IF loop = "handler" THEN it ELSE NoTask]
             has == [r \in {WThread} |-> IF loop' = "handler" THEN it' ELSE NoTask]
  <1>0. /\ tasks \in Seq(Tasks) /\ Len(tasks) \in Nat /\ posted \in Nat /\ PostBudget \in Nat
        /\ WThread \in {WThread} /\ it \in Tasks \cup {NoTask}
    BY RunAssumption DEF IInv, TypeOK
  <1>1. ASSUME NEW th \in Threads, NEW t \in Tasks, Post(th, t)
        PROVE  [Promise!Next]_(Promise!vars)
    <2>1. UNCHANGED it /\ UNCHANGED loop BY <1>1 DEF Post, worker
    <2>2. CASE Active(t)
      <3>1. UNCHANGED tasks BY <1>1, <2>2 DEF Post
      <3> QED BY <2>1, <3>1, StutterRefines
    <2>3. CASE ~Active(t)
      <3>1. tasks' = Append(tasks, t) BY <1>1, <2>3 DEF Post
      <3>2. Len(tasks) < PostBudget BY <1>0, <1>1 DEF Post, Bounded
      <3>3. ~Promise!Queued(t) BY <2>3 DEF Active, Promise!Queued
      <3>4. has = had BY <2>1
      <3>5. Promise!Put(t) BY <3>1, <3>2, <3>3, <3>4 DEF Promise!Put
      <3> QED BY <3>5 DEF Promise!Next
    <2> QED BY <2>2, <2>3
  <1>2. ASSUME NEW t \in Tasks, Delete(t) PROVE [Promise!Next]_(Promise!vars)
    <2>1. PICK i \in 1 .. Len(tasks) : tasks[i] = t /\ tasks' = RemoveItem(tasks, i)
      BY <1>2 DEF Delete
    <2>2. loop = "handler" /\ UNCHANGED it /\ UNCHANGED loop
      BY <1>2 DEF Delete, CanCall, worker
    <2>3. it # NoTask
      BY <2>2 DEF IInv, HeldOK
    <2>4. had[WThread] # NoTask BY <2>2, <2>3
    <2>5. has = had BY <2>2
    <2>6. Promise!Delete(WThread, t)
      BY <2>1, <2>4, <2>5 DEF Promise!Delete, RemoveItem
    <2> QED BY <2>6 DEF Promise!Next
  <1>3. CASE Unlink
    <2>1. it = Head(tasks) /\ tasks' = Tail(tasks) BY <1>3, HeadUnlinked
    <2>2. tasks # <<>> /\ loop = "unlink" /\ loop' = "handler" /\ UNCHANGED it
      BY <1>3 DEF Unlink, IInv, HeadOK
    <2>3. has = [had EXCEPT ![WThread] = Head(tasks)] BY <2>1, <2>2
    <2>4. had[WThread] = NoTask BY <2>2
    <2>5. Promise!Take(WThread) BY <2>1, <2>2, <2>3, <2>4 DEF Promise!Take
    <2> QED BY <2>5 DEF Promise!Next
  <1>4. CASE Return
    <2>1. UNCHANGED tasks /\ loop = "handler" /\ loop' = "pick" BY <1>4 DEF Return, queue
    <2>2. it # NoTask BY <2>1 DEF IInv, HeldOK
    <2>3. had[WThread] # NoTask BY <2>1, <2>2
    <2>4. has = [had EXCEPT ![WThread] = NoTask] BY <2>1
    <2>5. Promise!Finish(WThread) BY <2>1, <2>3, <2>4 DEF Promise!Finish
    <2> QED BY <2>5 DEF Promise!Next
  <1>5. CASE Pick
    <2>1. UNCHANGED tasks /\ loop = "pick" BY <1>5 DEF Pick, queue
    <2>2. loop' # "handler" BY <1>5 DEF Pick, AfterRun
    <2> QED BY <2>1, <2>2 DEF Promise!vars
  <1>6. CASE LoopHead \/ Wait \/ Event
    <2>1. UNCHANGED tasks /\ UNCHANGED it /\ loop # "handler" /\ loop' # "handler"
      BY <1>6 DEF LoopHead, Wait, Event, queue
    <2> QED BY <2>1, StutterRefines
  <1>7. ASSUME NEW th \in Threads, Signal(th) \/ Stop(th) PROVE [Promise!Next]_(Promise!vars)
    <2>1. UNCHANGED tasks /\ UNCHANGED it /\ UNCHANGED loop
      BY <1>7 DEF Signal, Stop, queue, worker
    <2> QED BY <2>1, StutterRefines
  <1>8. CASE UNCHANGED vars
    <2>1. UNCHANGED tasks /\ UNCHANGED it /\ UNCHANGED loop BY <1>8 DEF vars
    <2> QED BY <2>1, StutterRefines
  <1> QED BY <1>1, <1>2, <1>3, <1>4, <1>5, <1>6, <1>7, <1>8
        DEF Next, WorkerStep, Terminated

(* The task queue with its lock, the unlocked look at its first item and the
   worker's loop implements a queue that is "First in, first out", of "one
   reader/deleter, multiple writers" (taskqueue.h): for any number of tasks and
   threads each post is run once, in its turn, or deleted. *)
THEOREM Refinement == SafeSpec => ImplementsFifo
  <1>1. IInv /\ Bounded /\ (IInv /\ Bounded)' /\ [Next]_vars => [Promise!Next]_(Promise!vars)
    BY StepRefines
  <1> QED BY Invariance2, InitRefines, <1>1, PTL DEF SafeSpec, ImplementsFifo, Promise!Spec
=============================================================================
