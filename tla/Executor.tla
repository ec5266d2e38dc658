------------------------------ MODULE Executor ------------------------------
(***************************************************************************)
(* The executor of asynchronous tasks (kernel/src/internal/task/): a map   *)
(* of tasks and a bounded queue of the ids to poll.  Interrupt handlers    *)
(* run wakers between any two steps of the loop, also while a task is      *)
(* being polled.  run borrows the executor for ever, so all tasks are      *)
(* spawned before it starts.                                               *)
(***************************************************************************)
EXTENDS Naturals, Sequences, Functions

CONSTANTS
  NumTasks,   \* bound: tasks that are created
  QueueSize   \* 100 in the code

ASSUME ExecutorAssumption == NumTasks \in Nat /\ QueueSize \in Nat \ {0}

VARIABLES
  next_id,      \* TaskId::new's counter
  tasks,        \* ids in the map of tasks
  task_queue,
  waker_cache,  \* ids with a cached waker
  wakers,       \* ids whose waker an interrupt source holds
  polling,      \* the task being polled, or NoTask
  state,        \* "set-up", "running" or "panicked"
  woken,        \* history: ids spawned or woken since their last poll began
  repeated      \* history: an id was pushed while queued, or after its end

vars == <<next_id, tasks, task_queue, waker_cache, wakers, polling, state, woken, repeated>>

TaskIds == 0 .. NumTasks - 1
NoTask == NumTasks

Init ==
  /\ next_id = 0
  /\ tasks = {} /\ waker_cache = {} /\ wakers = {}
  /\ task_queue = <<>>
  /\ polling = NoTask
  /\ state = "set-up"
  /\ woken = {} /\ repeated = FALSE

\* Mutant: the queue is one entry shorter.
PushShort(id) ==
  /\ woken' = woken \cup {id}
  /\ repeated' = (repeated \/ id \in Range(task_queue) \cup ((0 .. next_id - 1) \ tasks))
  /\ IF Len(task_queue) + 1 < QueueSize
     THEN task_queue' = Append(task_queue, id) /\ UNCHANGED state
     ELSE state' = "panicked" /\ UNCHANGED task_queue

\* ArrayQueue::push and the expect on its result.
Push(id) ==
  /\ woken' = woken \cup {id}
  /\ repeated' = (repeated \/ id \in Range(task_queue) \cup ((0 .. next_id - 1) \ tasks))
  /\ IF Len(task_queue) < QueueSize
     THEN task_queue' = Append(task_queue, id) /\ UNCHANGED state
     ELSE state' = "panicked" /\ UNCHANGED task_queue

\* Task::new and Executor::spawn.  Ids are fresh, so the map never holds one.
Spawn ==
  /\ state = "set-up"
  /\ next_id < NumTasks
  /\ next_id' = next_id + 1
  /\ tasks' = tasks \cup {next_id}
  /\ Push(next_id)
  /\ UNCHANGED <<waker_cache, wakers, polling>>

Run ==
  /\ state = "set-up"
  /\ state' = "running"
  /\ UNCHANGED <<next_id, tasks, task_queue, waker_cache, wakers, polling, woken, repeated>>

\* Mutant: the newest entry is taken first.
TakeNext(id) ==
  /\ task_queue # <<>>
  /\ id = task_queue[Len(task_queue)]
  /\ task_queue' = SubSeq(task_queue, 1, Len(task_queue) - 1)

Pop(id) ==
  /\ task_queue # <<>>
  /\ id = Head(task_queue)
  /\ task_queue' = Tail(task_queue)

\* run_ready_tasks up to the call of poll, or to the next turn of the loop
\* when the task no longer exists.
StartPoll ==
  /\ state = "running" /\ polling = NoTask
  /\ \E id \in TaskIds :
       /\ Pop(id)
       /\ IF id \in tasks
          THEN /\ waker_cache' = waker_cache \cup {id}
               /\ polling' = id
               /\ woken' = woken \ {id}
          ELSE UNCHANGED <<waker_cache, polling, woken>>
  /\ UNCHANGED <<next_id, tasks, wakers, state, repeated>>

\* What the future of a task may do while it is polled: give its waker to an
\* interrupt source, wake itself, and in the end answer Pending or Ready.
GiveWaker ==
  /\ state = "running" /\ polling # NoTask
  /\ wakers' = wakers \cup {polling}
  /\ UNCHANGED <<next_id, tasks, task_queue, waker_cache, polling, state, woken, repeated>>

WakeSelf ==
  /\ state = "running" /\ polling # NoTask
  /\ Push(polling)
  /\ UNCHANGED <<next_id, tasks, waker_cache, wakers, polling>>

\* Mutant: a task that is pending is taken off the queue.
PendingDequeues ==
  /\ state = "running" /\ polling # NoTask
  /\ polling' = NoTask
  /\ task_queue' = SelectSeq(task_queue, LAMBDA id : id # polling)
  /\ UNCHANGED <<next_id, tasks, waker_cache, wakers, state, woken, repeated>>

Pending ==
  /\ state = "running" /\ polling # NoTask
  /\ polling' = NoTask
  /\ UNCHANGED <<next_id, tasks, task_queue, waker_cache, wakers, state, woken, repeated>>

\* Mutant: the waker of a finished task stays cached.
ReadyKeepsWaker ==
  /\ state = "running" /\ polling # NoTask
  /\ tasks' = tasks \ {polling}
  /\ polling' = NoTask
  /\ UNCHANGED <<next_id, task_queue, waker_cache, wakers, state, woken, repeated>>

Ready ==
  /\ state = "running" /\ polling # NoTask
  /\ tasks' = tasks \ {polling}
  /\ waker_cache' = waker_cache \ {polling}
  /\ polling' = NoTask
  /\ UNCHANGED <<next_id, task_queue, wakers, state, woken, repeated>>

\* An interrupt handler calls wake, which consumes the waker, or wake_by_ref.
InterruptWakes(id, consumed) ==
  /\ state = "running"
  /\ id \in wakers
  /\ wakers' = IF consumed THEN wakers \ {id} ELSE wakers
  /\ Push(id)
  /\ UNCHANGED <<next_id, tasks, waker_cache, polling>>

Next ==
  \/ Spawn
  \/ Run
  \/ StartPoll
  \/ GiveWaker
  \/ WakeSelf
  \/ Pending
  \/ Ready
  \/ \E id \in TaskIds, consumed \in BOOLEAN : InterruptWakes(id, consumed)

\* The loop of run goes on, and a future that is polled answers.  Nothing
\* makes a future wake up or an interrupt arrive.
Spec ==
  /\ Init /\ [][Next]_vars
  /\ WF_vars(StartPoll)
  /\ WF_vars(Pending \/ Ready)

\* Types: there are never more entries than the queue was made for.
TypeOK ==
  /\ next_id \in 0 .. NumTasks
  /\ tasks \subseteq TaskIds /\ wakers \subseteq TaskIds
  /\ waker_cache \subseteq tasks
  /\ task_queue \in Seq(TaskIds) /\ Len(task_queue) <= QueueSize
  /\ polling \in TaskIds \cup {NoTask}
  /\ state \in {"set-up", "running", "panicked"}
  /\ woken \subseteq TaskIds /\ repeated \in BOOLEAN

\* A wake-up is never lost: a task woken since its last poll began is queued,
\* also when the wake-up comes in the middle of that poll (run_ready_tasks
\* takes the id off the queue before it polls, not after).
NoLostWake ==
  state # "panicked" => woken \cap tasks \subseteq Range(task_queue)

\* With no more tasks than entries, the queue overflows (and the kernel
\* panics) only after a wake-up of a task already queued or already finished.
OverflowOnlyByRepeats ==
  state = "panicked" /\ NumTasks <= QueueSize => repeated

\* Every task spawned or woken before run or during it is polled, however
\* often other tasks wake themselves.
WokenIsPolled ==
  \A id \in TaskIds :
    (state = "running" /\ id \in woken \cap tasks) ~> (polling = id \/ state = "panicked")
=============================================================================
