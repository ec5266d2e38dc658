--------------------------- MODULE ExecutorProofs ---------------------------
(***************************************************************************)
(* Proofs about Executor, for every number of tasks and every size of the  *)
(* queue.  A queue that holds no id twice cannot be full before all tasks  *)
(* are in it; that is what the overflow theorem rests on.                  *)
(***************************************************************************)
EXTENDS Executor, FiniteSetTheorems, SequenceTheorems, TLAPS

\* As long as nothing was pushed twice, the entries of the queue differ.
Distinct ==
  ~ repeated => \A i, j \in 1 .. Len(task_queue) : task_queue[i] = task_queue[j] => i = j

\* The inductive invariant.
IInv == TypeOK /\ NoLostWake /\ Distinct /\ OverflowOnlyByRepeats

-----------------------------------------------------------------------------
\* Pushing keeps what is queued and adds the id.
LEMMA RangeOfAppend ==
  ASSUME NEW S, NEW q \in Seq(S), NEW e \in S
  PROVE  Range(Append(q, e)) = Range(q) \cup {e}
<1>1. /\ Append(q, e) \in Seq(S) /\ Len(Append(q, e)) = Len(q) + 1 /\ Len(q) \in Nat
      /\ \A i \in 1 .. Len(q) : Append(q, e)[i] = q[i]
      /\ Append(q, e)[Len(q) + 1] = e
  BY AppendProperties, LenProperties
<1>2. DOMAIN q = 1 .. Len(q) /\ DOMAIN Append(q, e) = 1 .. Len(q) + 1
  BY <1>1, LenProperties
<1> QED BY <1>1, <1>2 DEF Range

\* Popping removes no other id than the one popped.
LEMMA RangeOfTail ==
  ASSUME NEW S, NEW q \in Seq(S), q # <<>>
  PROVE  Range(q) \subseteq Range(Tail(q)) \cup {Head(q)}
<1>1. /\ Tail(q) \in Seq(S) /\ Len(Tail(q)) = Len(q) - 1 /\ Len(q) \in Nat \ {0}
      /\ \A i \in 1 .. Len(Tail(q)) : Tail(q)[i] = q[i + 1]
  BY HeadTailProperties, EmptySeq
<1>2. DOMAIN q = 1 .. Len(q) /\ DOMAIN Tail(q) = 1 .. Len(q) - 1
  BY <1>1, LenProperties
<1>3. ASSUME NEW i \in DOMAIN q PROVE q[i] \in Range(Tail(q)) \cup {Head(q)}
  <2>1. CASE i = 1 BY <2>1, <1>2
  <2>2. CASE i # 1
    <3>1. i - 1 \in DOMAIN Tail(q) /\ Tail(q)[i - 1] = q[i]
      BY <1>1, <1>2, <2>2
    <3> QED BY <3>1 DEF Range
  <2> QED BY <2>1, <2>2
<1> QED BY <1>3 DEF Range

\* Tasks that are all different and not queued find room in a queue with an
\* entry for each.
LEMMA RoomForNew ==
  ASSUME NEW q \in Seq(TaskIds), NEW id \in TaskIds, id \notin Range(q),
         \A i, j \in 1 .. Len(q) : q[i] = q[j] => i = j
  PROVE  Len(q) < NumTasks
<1> DEFINE f == Append(q, id)
<1>1. /\ f \in Seq(TaskIds) /\ Len(f) = Len(q) + 1 /\ Len(q) \in Nat
      /\ \A i \in 1 .. Len(q) : f[i] = q[i]
      /\ f[Len(q) + 1] = id
  BY AppendProperties, LenProperties
<1>2. \A i \in 1 .. Len(q) : q[i] # id
  BY LenProperties DEF Range
<1>3. f \in [1 .. Len(q) + 1 -> TaskIds]
  BY <1>1, LenProperties, Zenon
<1> HIDE DEF f
<1>4. \A i, j \in 1 .. Len(q) + 1 : f[i] = f[j] => i = j
  BY <1>1, <1>2
<1>5. f \in Injection(1 .. Len(q) + 1, TaskIds)
  BY <1>3, <1>4 DEF Injection, IsInjective
<1>6. IsFiniteSet(TaskIds) /\ Cardinality(TaskIds) = NumTasks
  BY ExecutorAssumption, FS_Interval DEF TaskIds
<1>7. Cardinality(1 .. Len(q) + 1) = Len(q) + 1
  BY <1>1, FS_Interval
<1> QED BY <1>1, <1>5, <1>6, <1>7, FS_Injection, ExecutorAssumption

-----------------------------------------------------------------------------
(***************************************************************************)
(* One lemma per action.                                                   *)
(***************************************************************************)

\* ArrayQueue::push, by whoever: the queue keeps its bound, the id is queued
\* or the kernel panics, and it panics only for lack of distinct ids.
LEMMA PushPreserves ==
  ASSUME IInv, NEW id \in TaskIds, Push(id), state # "panicked",
         NEW t, t \subseteq tasks \cup {id}
  PROVE  /\ task_queue' \in Seq(TaskIds) /\ Len(task_queue') <= QueueSize
         /\ state' \in {state, "panicked"}
         /\ woken' \subseteq TaskIds /\ repeated' \in BOOLEAN
         /\ state' # "panicked" => woken' \cap t \subseteq Range(task_queue')
         /\ Distinct' /\ OverflowOnlyByRepeats'
<1> USE DEF IInv, TypeOK
<1>1. Len(task_queue) \in Nat /\ QueueSize \in Nat /\ NumTasks \in Nat
  BY LenProperties, ExecutorAssumption
<1>2. woken' \subseteq TaskIds /\ repeated' \in BOOLEAN
  BY DEF Push
<1>3. CASE Len(task_queue) < QueueSize
  <2>1. task_queue' = Append(task_queue, id) /\ state' = state
    BY <1>3 DEF Push
  <2>2. /\ task_queue' \in Seq(TaskIds) /\ Len(task_queue') = Len(task_queue) + 1
        /\ \A i \in 1 .. Len(task_queue) : task_queue'[i] = task_queue[i]
        /\ task_queue'[Len(task_queue) + 1] = id
    BY <2>1, AppendProperties
  <2>3. Range(task_queue') = Range(task_queue) \cup {id}
    BY <2>1, RangeOfAppend
  <2>4. woken' \cap t \subseteq Range(task_queue')
    BY <2>3 DEF Push, NoLostWake
  <2>5. Distinct'
    <3>1. SUFFICES ASSUME ~ repeated'
                   PROVE  \A i, j \in 1 .. Len(task_queue') :
                            task_queue'[i] = task_queue'[j] => i = j
      BY DEF Distinct
    <3>2. ~ repeated /\ id \notin Range(task_queue)
      BY <3>1, Zenon DEF Push
    <3>3. \A i \in 1 .. Len(task_queue) : task_queue[i] # id
      BY <3>2, LenProperties DEF Range
    <3> QED BY <1>1, <2>2, <3>2, <3>3 DEF Distinct
  <2>6. OverflowOnlyByRepeats' BY <2>1 DEF OverflowOnlyByRepeats
  <2> QED BY <1>1, <1>2, <1>3, <2>1, <2>2, <2>4, <2>5, <2>6
<1>4. CASE ~ (Len(task_queue) < QueueSize)
  <2>1. task_queue' = task_queue /\ state' = "panicked"
    BY <1>4 DEF Push
  <2>2. Distinct' BY <2>1 DEF Distinct, Push
  <2>3. OverflowOnlyByRepeats'
    <3>1. SUFFICES ASSUME NumTasks <= QueueSize, ~ repeated' PROVE FALSE
      BY <1>2 DEF OverflowOnlyByRepeats
    <3>2. ~ repeated /\ id \notin Range(task_queue)
      BY <3>1, Zenon DEF Push
    <3>3. Len(task_queue) < NumTasks
      BY <3>2, RoomForNew DEF Distinct
    <3> QED BY <1>1, <1>4, <3>1, <3>3
  <2> QED BY <1>2, <2>1, <2>2, <2>3
<1> QED BY <1>3, <1>4

\* Executor::spawn.
LEMMA SpawnPreserves ==
  ASSUME IInv, Spawn
  PROVE  IInv'
<1>1. next_id \in TaskIds /\ next_id' \in 0 .. NumTasks
  BY ExecutorAssumption DEF IInv, TypeOK, Spawn, TaskIds
<1>2. Push(next_id) /\ state # "panicked" /\ tasks' = tasks \cup {next_id}
      /\ UNCHANGED <<waker_cache, wakers, polling>>
  BY DEF Spawn
<1>3. /\ task_queue' \in Seq(TaskIds) /\ Len(task_queue') <= QueueSize
      /\ state' \in {state, "panicked"}
      /\ woken' \subseteq TaskIds /\ repeated' \in BOOLEAN
      /\ state' # "panicked" => woken' \cap tasks' \subseteq Range(task_queue')
      /\ Distinct' /\ OverflowOnlyByRepeats'
  BY <1>1, <1>2, PushPreserves
<1> QED BY <1>1, <1>2, <1>3 DEF IInv, TypeOK, NoLostWake

\* A waker, called by the future itself or by an interrupt handler.
LEMMA WakePreserves ==
  ASSUME IInv, NEW id \in TaskIds, Push(id), state # "panicked",
         wakers' \subseteq TaskIds, UNCHANGED <<next_id, tasks, waker_cache, polling>>
  PROVE  IInv'
<1>1. /\ task_queue' \in Seq(TaskIds) /\ Len(task_queue') <= QueueSize
      /\ state' \in {state, "panicked"}
      /\ woken' \subseteq TaskIds /\ repeated' \in BOOLEAN
      /\ state' # "panicked" => woken' \cap tasks \subseteq Range(task_queue')
      /\ Distinct' /\ OverflowOnlyByRepeats'
  BY PushPreserves
<1> QED BY <1>1 DEF IInv, TypeOK, NoLostWake

\* run_ready_tasks up to the call of poll: the id leaves the queue, and if its
\* task exists it is no longer woken.
LEMMA StartPollPreserves ==
  ASSUME IInv, StartPoll
  PROVE  IInv'
<1> USE DEF IInv, TypeOK
<1>1. PICK id \in TaskIds :
        /\ Pop(id)
        /\ IF id \in tasks
           THEN /\ waker_cache' = waker_cache \cup {id}
                /\ polling' = id
                /\ woken' = woken \ {id}
           ELSE UNCHANGED <<waker_cache, polling, woken>>
  BY DEF StartPoll
<1>2. /\ task_queue # <<>> /\ id = Head(task_queue) /\ task_queue' = Tail(task_queue)
      /\ state = "running" /\ UNCHANGED <<next_id, tasks, wakers, state, repeated>>
  BY <1>1 DEF StartPoll, Pop
<1>3. /\ task_queue' \in Seq(TaskIds) /\ Len(task_queue') = Len(task_queue) - 1
      /\ Len(task_queue) \in Nat \ {0}
      /\ \A i \in 1 .. Len(task_queue') : task_queue'[i] = task_queue[i + 1]
  BY <1>2, HeadTailProperties, EmptySeq
<1>4. TypeOK' BY <1>1, <1>2, <1>3, ExecutorAssumption
<1>5. NoLostWake'
  <2>1. Range(task_queue) \subseteq Range(task_queue') \cup {id}
    BY <1>2, RangeOfTail
  <2>2. woken' \cap tasks \subseteq (woken \cap tasks) \ {id}
    BY <1>1
  <2> QED BY <1>2, <2>1, <2>2 DEF NoLostWake
<1>6. Distinct' BY <1>2, <1>3 DEF Distinct
<1>7. OverflowOnlyByRepeats' BY <1>2 DEF OverflowOnlyByRepeats
<1> QED BY <1>4, <1>5, <1>6, <1>7

\* What a step that leaves the queue alone may do: it starts no task and wakes
\* none.
LEMMA SameQueuePreserves ==
  ASSUME IInv, UNCHANGED <<next_id, task_queue, woken, repeated>>,
         tasks' \subseteq tasks, waker_cache' \subseteq tasks', wakers' \subseteq TaskIds,
         polling' \in TaskIds \cup {NoTask},
         (state # "panicked" /\ state' \in {"set-up", "running"}) \/ state' = state
  PROVE  IInv'
BY DEF IInv, TypeOK, NoLostWake, Distinct, OverflowOnlyByRepeats

-----------------------------------------------------------------------------
\* An executor without tasks.
LEMMA InitIInv == Init => IInv
<1> SUFFICES ASSUME Init PROVE IInv OBVIOUS
<1>1. task_queue \in Seq(TaskIds) /\ Len(task_queue) = 0
  BY EmptySeq DEF Init
<1>2. repeated \in BOOLEAN BY Zenon DEF Init
<1>3. TypeOK BY <1>1, <1>2, ExecutorAssumption DEF Init, TypeOK
<1> QED BY <1>1, <1>3 DEF Init, IInv, NoLostWake, Distinct, OverflowOnlyByRepeats

\* Every step of the loop, of a future and of an interrupt handler preserves it.
LEMMA NextIInv == IInv /\ [Next]_vars => IInv'
<1> SUFFICES ASSUME IInv, [Next]_vars PROVE IInv' OBVIOUS
<1> USE DEF IInv, TypeOK
<1>1. CASE Spawn BY <1>1, SpawnPreserves
<1>2. CASE Run BY <1>2, SameQueuePreserves DEF Run
<1>3. CASE StartPoll BY <1>3, StartPollPreserves
<1>4. CASE GiveWaker BY <1>4, SameQueuePreserves DEF GiveWaker
<1>5. CASE WakeSelf BY <1>5, WakePreserves DEF WakeSelf
<1>6. CASE Pending BY <1>6, SameQueuePreserves DEF Pending
<1>7. CASE Ready BY <1>7, SameQueuePreserves DEF Ready
<1>8. ASSUME NEW id \in TaskIds, NEW consumed \in BOOLEAN, InterruptWakes(id, consumed)
      PROVE  IInv'
  BY <1>8, WakePreserves DEF InterruptWakes
<1>9. CASE UNCHANGED vars BY <1>9, SameQueuePreserves DEF vars
<1> QED BY <1>1, <1>2, <1>3, <1>4, <1>5, <1>6, <1>7, <1>8, <1>9 DEF Next

\* The inductive invariant holds whatever futures and interrupts do.
THEOREM ExecutorInvariance == Spec => []IInv
BY InitIInv, NextIInv, PTL DEF Spec

\* The queue never holds more than it was made for, and no cached waker
\* outlives its task.
THEOREM ExecutorTypeCorrect == Spec => []TypeOK
<1>1. IInv => TypeOK BY DEF IInv
<1> QED BY <1>1, ExecutorInvariance, PTL

\* No wake-up is lost, for any number of tasks and wherever in the loop the
\* interrupts come.
THEOREM WakesKept == Spec => []NoLostWake
<1>1. IInv => NoLostWake BY DEF IInv
<1> QED BY <1>1, ExecutorInvariance, PTL

\* With an entry for every task, push fails only for an id that is queued
\* already or whose task has ended.
THEOREM OverflowNeedsRepeats == Spec => []OverflowOnlyByRepeats
<1>1. IInv => OverflowOnlyByRepeats BY DEF IInv
<1> QED BY <1>1, ExecutorInvariance, PTL
=============================================================================
