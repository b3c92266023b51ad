------------------------- MODULE SequencedWorkerPool -------------------------
(***************************************************************************)
(* base::SequencedWorkerPool (base/threading/sequenced_worker_pool.cc): a  *)
(* pool that creates its threads lazily, runs the tasks of one sequence    *)
(* token one at a time and in order, and on Shutdown waits for the tasks   *)
(* that block shutdown.                                                    *)
(*                                                                         *)
(* One lock guards the state, and a step is at most one critical section   *)
(* or one call made outside it: condition variables are signaled after the *)
(* lock is released, and a time stamp is taken before it is acquired.  A   *)
(* worker holds the lock across several steps where the code does so.      *)
(* Signaling a condition variable wakes any one of the threads waiting on  *)
(* it; a woken thread has still to take the lock.                          *)
(***************************************************************************)
EXTENDS Integers, FiniteSets

CONSTANTS MaxThreads,  \* max_threads_
          Posters,     \* threads outside the pool that post tasks
          Tokens,      \* sequence tokens; 0 is "none"
          FreshTokens, \* the tokens GetSequenceToken can still hand out
          Delays,      \* delays of posted tasks
          MaxTasks,    \* bound on the number of accepted tasks
          MaxTime,     \* bound on the clock
          MaxFlushes,  \* bound on the calls of FlushForTesting
          MaxNewBlocking,  \* bound on the argument of Shutdown
          LatePosters, \* who posts while Shutdown(n) still lets tasks in: a running "task",
                       \* the "destructor" of a task deleted unrun, "foreign" threads
          NoOne,       \* the holder of a free lock
          NoTask

ASSUME PoolAssumption ==
  /\ MaxThreads \in Nat \ {0}
  /\ Tokens \subseteq Nat /\ FreshTokens \subseteq Nat \ {0} /\ Tokens \intersect FreshTokens = {}
  /\ Delays \subseteq Nat /\ MaxFlushes \in Nat
  /\ MaxTasks \in Nat /\ MaxTime \in Nat /\ MaxNewBlocking \in Nat
  /\ LatePosters \subseteq {"task", "destructor", "foreign"}
  /\ IsFiniteSet(Posters) /\ Posters \intersect Nat = {}

\* Threads are numbered in the order of their creation.
Workers == 1..MaxThreads
Actors == Workers \union Posters

Behavior == {"CONTINUE_ON_SHUTDOWN", "SKIP_ON_SHUTDOWN", "BLOCK_SHUTDOWN"}

\* SequencedTask.  For the properties it also carries its delay and "after": the
\* tasks with smaller numbers were in the pool when its PostTask was called.
Task == [seq : Nat, token : Nat, behavior : Behavior, time : Nat, delay : Nat, after : Nat]

VARIABLES
  lock,         \* the worker that holds lock_ between two steps
  pending_tasks,
  next_sequence_task_number,
  threads, thread_being_created, waiting_thread_count,
  blocking_shutdown_thread_count, blocking_shutdown_pending_task_count,
  current_sequences,
  shutdown_called, max_blocking_tasks_after_shutdown,
  cleanup_state, cleanup_idlers,
  pc,           \* where each worker is
  task,         \* the task a worker runs
  outside,      \* what a worker has still to do outside the lock
  wake_time,    \* when the TimedWait of a worker ends; -1 for Wait
  post,         \* the PostTask an actor is in
  caller,       \* where the thread that calls FlushForTesting and Shutdown is
  now,
  bound,        \* the fresh tokens handed out so far
  flushes,      \* the number of calls of FlushForTesting
  flushing      \* history: the tasks in the pool when it was last called

poolVars == <<pending_tasks, next_sequence_task_number, threads, thread_being_created,
              waiting_thread_count, blocking_shutdown_thread_count,
              blocking_shutdown_pending_task_count, current_sequences>>
stateVars == <<shutdown_called, max_blocking_tasks_after_shutdown, cleanup_state, cleanup_idlers>>
workerVars == <<pc, task, outside, wake_time>>
callVars == <<bound, flushes, flushing>>
vars == <<lock, poolVars, stateVars, workerVars, post, caller, now, callVars>>

\* "none", "starting": not created, and not yet in ThreadLoop.  "top", "get": at
\* HandleCleanup and at GetWork.  "signal", "clear", "run": with a task.  "delete",
\* "clear", "exitDelete": deleting tasks outside the lock.  "waiting", "woken": in
\* has_work_cv_.Wait.  "exit", "exit2", "exited": leaving ThreadLoop.  "starter",
\* "idler", "finisher": at the head of one of the loops of HandleCleanup, and
\* "cvStarter", "cvIdler", "cvFinisher" waiting there on cleanup_cv_.
PC == {"none", "starting", "top", "get", "signal", "clear", "run", "delete", "exitDelete",
       "waiting", "woken", "exit", "exit2", "exited",
       "starter", "idler", "finisher", "cvStarter", "cvIdler", "cvFinisher"}
CleanupState == {"REQUESTED", "STARTING", "RUNNING", "FINISHING", "DONE"}
Caller == {"idle", "cvFlush", "flush", "cvShutdown", "shutdown", "returned"}

\* A PostTask that has read the clock, or is about to signal has_work_cv_ or to
\* create a thread.
Post == [stage : {"lock", "signal", "create"}, token : Nat, behavior : Behavior, time : Nat,
         delay : Nat, after : Nat, origin : {"task", "destructor", "foreign"}]

ASSUME NoTaskAssumption == NoTask \notin Task /\ NoTask \notin Post

TypeOK ==
  /\ lock \in Workers \union {NoOne}
  /\ pending_tasks \subseteq Task
  /\ next_sequence_task_number \in 0..MaxTasks
  /\ threads \subseteq Workers
  /\ thread_being_created \in BOOLEAN
  /\ waiting_thread_count \in 0..MaxThreads
  /\ blocking_shutdown_thread_count \in 0..MaxThreads
  /\ blocking_shutdown_pending_task_count \in 0..MaxTasks
  /\ current_sequences \subseteq Nat
  /\ shutdown_called \in BOOLEAN
  /\ max_blocking_tasks_after_shutdown \in 0..MaxNewBlocking
  /\ cleanup_state \in CleanupState
  /\ cleanup_idlers \in 0..MaxThreads
  /\ pc \in [Workers -> PC]
  /\ task \in [Workers -> Task \union {NoTask}]
  /\ outside \in [Workers -> SUBSET {"delete", "create"}]
  /\ wake_time \in [Workers -> Int]
  /\ post \in [Actors -> Post \union {NoTask}]
  /\ caller \in Caller
  /\ now \in 0..MaxTime
  /\ bound \subseteq FreshTokens
  /\ flushes \in 0..MaxFlushes
  /\ flushing \subseteq Nat

Init ==
  /\ lock = NoOne
  /\ pending_tasks = {} /\ next_sequence_task_number = 0
  /\ threads = {} /\ thread_being_created = FALSE /\ waiting_thread_count = 0
  /\ blocking_shutdown_thread_count = 0 /\ blocking_shutdown_pending_task_count = 0
  /\ current_sequences = {}
  /\ shutdown_called = FALSE /\ max_blocking_tasks_after_shutdown = 0
  /\ cleanup_state = "DONE" /\ cleanup_idlers = 0
  /\ pc = [w \in Workers |-> "none"]
  /\ task = [w \in Workers |-> NoTask]
  /\ outside = [w \in Workers |-> {}]
  /\ wake_time = [w \in Workers |-> -1]
  /\ post = [a \in Actors |-> NoTask]
  /\ caller = "idle"
  /\ now = 0
  /\ bound = {}
  /\ flushes = 0
  /\ flushing = {}

------------------------------------------------------------------------------
(* Locks and condition variables *)

\* Worker w holds the lock, or can take it now.
HasLock(w) == lock \in {NoOne, w}

\* has_work_cv_.Signal() in the states of the workers given by f.
SignalHasWork(f) ==
  IF \E w \in Workers : f[w] = "waiting"
  THEN {[f EXCEPT ![w] = "woken"] : w \in {v \in Workers : f[v] = "waiting"}}
  ELSE {f}

\* cleanup_cv_.Broadcast().
Awake == [x \in {"cvStarter", "cvIdler", "cvFinisher"} |->
            CASE x = "cvStarter" -> "starter" [] x = "cvIdler" -> "idler" [] x = "cvFinisher" -> "finisher"]
BroadcastLost(f) == f
Broadcast(f) == [w \in Workers |-> IF f[w] \in DOMAIN Awake THEN Awake[f[w]] ELSE f[w]]
WakeCaller == IF caller = "cvFlush" THEN "flush" ELSE caller

------------------------------------------------------------------------------
(* Helpers called inside the lock *)

TokenAlwaysRunnable(token) == TRUE

\* IsSequenceTokenRunnable.
IsSequenceTokenRunnable(token) == token = 0 \/ token \notin current_sequences

NewestFirst(t, u) == t.time < u.time \/ (t.time = u.time /\ t.seq > u.seq)

\* SequencedTaskLessThan.
Before(t, u) == t.time < u.time \/ (t.time = u.time /\ t.seq < u.seq)

CanShutdownEarly == ~thread_being_created /\ blocking_shutdown_thread_count = 0

\* CanShutdown.
CanShutdown == /\ ~thread_being_created
               /\ blocking_shutdown_thread_count = 0
               /\ blocking_shutdown_pending_task_count = 0

HelpsThoughShutdown(pend, running) ==
  /\ ~thread_being_created /\ cleanup_state = "DONE"
  /\ Cardinality(threads) < MaxThreads /\ waiting_thread_count = 0
  /\ \E t \in pend : t.token = 0 \/ t.token \notin running

\* PrepareToStartAdditionalThreadIfHelpful: is one more thread of use for the
\* tasks in pend while the tokens in running are taken?
NewThreadHelps(pend, running) ==
  /\ ~shutdown_called
  /\ ~thread_being_created
  /\ cleanup_state = "DONE"
  /\ Cardinality(threads) < MaxThreads
  /\ waiting_thread_count = 0
  /\ \E t \in pend : t.token = 0 \/ t.token \notin running

NewThread == Cardinality(threads) + 1

Blocks(behavior) == behavior = "BLOCK_SHUTDOWN"
OnlyBlocking(t) == Blocks(t.behavior)

\* A worker that runs t holds up Shutdown.
HoldsShutdown(t) == t.behavior # "CONTINUE_ON_SHUTDOWN"
One(b) == IF b THEN 1 ELSE 0

------------------------------------------------------------------------------
(* PostTask *)

Origin(a) ==
  CASE a \in Posters -> "foreign"
    [] a \in Workers /\ pc[a] = "run" -> "task"
    [] a \in Workers /\ pc[a] # "run" -> "destructor"

\* The environment: who posts while Shutdown(n) still lets blocking tasks in.  Once it
\* lets in no more, as after Shutdown(0), anybody may post and is refused.
MayPost(a) == shutdown_called /\ max_blocking_tasks_after_shutdown > 0 => Origin(a) \in LatePosters

\* An actor calls PostTask: a thread outside the pool, a running task, or the
\* destructor of a task that is deleted unrun.  The clock is read before the lock
\* is taken.  Only tasks that are skipped on shutdown may be delayed.
PostTask(a, token, behavior, delay) ==
  /\ post[a] = NoTask
  /\ a \in Workers => pc[a] = "run" \/ (pc[a] \in {"clear", "delete", "exitDelete"} /\ "delete" \in outside[a])
  /\ MayPost(a)
  /\ delay = 0 \/ behavior = "SKIP_ON_SHUTDOWN"
  /\ now + delay <= MaxTime
  /\ next_sequence_task_number + Cardinality({b \in Actors : post[b] # NoTask}) < MaxTasks
  /\ post' = [post EXCEPT ![a] =
       [stage |-> "lock", token |-> token, behavior |-> behavior, time |-> now + delay,
        delay |-> delay, after |-> next_sequence_task_number, origin |-> Origin(a)]]
  /\ UNCHANGED <<lock, poolVars, stateVars, workerVars, caller, now, callVars>>

NoLimit == FALSE

\* The number of tasks Shutdown still allows is used up.
LimitReached == max_blocking_tasks_after_shutdown = 0

\* After Shutdown was called only blocking tasks are accepted, a bounded number,
\* and none from a running task that does not block shutdown itself.
Refused(a) ==
  /\ shutdown_called
  /\ \/ ~Blocks(post[a].behavior)
     \/ post[a].origin = "task" /\ ~Blocks(task[a].behavior)
     \/ LimitReached

PostRefused(a) ==
  /\ post[a] # NoTask /\ post[a].stage = "lock" /\ lock = NoOne
  /\ Refused(a)
  /\ post' = [post EXCEPT ![a] = NoTask]
  /\ UNCHANGED <<lock, poolVars, stateVars, workerVars, caller, now, callVars>>

\* The task enters the pool, and a thread is created or has_work_cv_ signaled;
\* both happen after the lock is released.
PostAccepted(a) ==
  /\ post[a] # NoTask /\ post[a].stage = "lock" /\ lock = NoOne
  /\ ~Refused(a)
  /\ max_blocking_tasks_after_shutdown' = max_blocking_tasks_after_shutdown - One(shutdown_called)
  /\ pending_tasks' = pending_tasks \union
       {[seq |-> next_sequence_task_number, token |-> post[a].token, behavior |-> post[a].behavior,
         time |-> post[a].time, delay |-> post[a].delay, after |-> post[a].after]}
  /\ next_sequence_task_number' = next_sequence_task_number + 1
  /\ blocking_shutdown_pending_task_count' =
       blocking_shutdown_pending_task_count + One(Blocks(post[a].behavior))
  /\ \/ /\ NewThreadHelps(pending_tasks', current_sequences)
        /\ thread_being_created' = TRUE
        /\ post' = [post EXCEPT ![a].stage = "create"]
     \/ /\ ~NewThreadHelps(pending_tasks', current_sequences)
        /\ post' = [post EXCEPT ![a].stage = "signal"]
        /\ UNCHANGED thread_being_created
  /\ UNCHANGED <<lock, threads, waiting_thread_count, blocking_shutdown_thread_count, current_sequences,
                 shutdown_called, cleanup_state, cleanup_idlers, workerVars, caller, now, callVars>>

PostSignal(a) ==
  /\ post[a] # NoTask /\ post[a].stage = "signal"
  /\ pc' \in SignalHasWork(pc)
  /\ post' = [post EXCEPT ![a] = NoTask]
  /\ UNCHANGED <<lock, poolVars, stateVars, task, outside, wake_time, caller, now, callVars>>

\* FinishStartingAdditionalThread: the thread exists and will enter ThreadLoop.
Created(f) == [f EXCEPT ![NewThread] = "starting"]

PostCreate(a) ==
  /\ post[a] # NoTask /\ post[a].stage = "create"
  /\ pc' = Created(pc)
  /\ post' = [post EXCEPT ![a] = NoTask]
  /\ UNCHANGED <<lock, poolVars, stateVars, task, outside, wake_time, caller, now, callVars>>

------------------------------------------------------------------------------
(* ThreadLoop *)

\* The new thread enters ThreadLoop.
StartThread(w) ==
  /\ pc[w] = "starting" /\ HasLock(w)
  /\ lock' = w
  /\ thread_being_created' = FALSE
  /\ threads' = threads \union {w}
  /\ pc' = [pc EXCEPT ![w] = "top"]
  /\ UNCHANGED <<pending_tasks, next_sequence_task_number, waiting_thread_count,
                 blocking_shutdown_thread_count, blocking_shutdown_pending_task_count,
                 current_sequences, stateVars, task, outside, wake_time, post, caller, now, callVars>>

\* The tasks GetWork looks at, and the first of them it would run.
Runnable == {t \in pending_tasks : IsSequenceTokenRunnable(t.token)}
Skipped == {t \in Runnable : shutdown_called /\ ~Blocks(t.behavior)}
IsFirst(t) == t \in Runnable \ Skipped /\ \A u \in Runnable \ Skipped : u = t \/ Before(t, u)
SkippedBefore(t) == {u \in Skipped : Before(u, t)}

\* WillRunWorkerTask marks the task's token as in use.
TakeToken(w, t) == current_sequences' = current_sequences \union ({t.token} \ {0})

\* The work outside the lock: deleting tasks, creating a thread.
Todo(deletes, creates) == (IF deletes THEN {"delete"} ELSE {}) \union (IF creates THEN {"create"} ELSE {})

\* GetWork finds a task: WillRunWorkerTask, and the lock is released.
GetWorkFound(w) ==
  /\ pc[w] = "get" /\ HasLock(w)
  /\ \E t \in pending_tasks :
       /\ IsFirst(t) /\ t.time <= now
       /\ pending_tasks' = pending_tasks \ ({t} \union SkippedBefore(t))
       /\ task' = [task EXCEPT ![w] = t]
       /\ blocking_shutdown_pending_task_count' =
            blocking_shutdown_pending_task_count - One(Blocks(t.behavior))
       /\ blocking_shutdown_thread_count' =
            blocking_shutdown_thread_count + One(HoldsShutdown(t))
       /\ TakeToken(w, t)
       /\ LET helps == NewThreadHelps(pending_tasks', current_sequences') IN
            /\ thread_being_created' = (thread_being_created \/ helps)
            /\ outside' = [outside EXCEPT ![w] = Todo(SkippedBefore(t) # {}, helps)]
  /\ pc' = [pc EXCEPT ![w] = "signal"]
  /\ lock' = NoOne
  /\ UNCHANGED <<next_sequence_task_number, threads, waiting_thread_count, stateVars, wake_time,
                 post, caller, now, callVars>>

\* GET_WORK_WAIT: the first task is not due yet.
NotDue(t) == IsFirst(t) /\ t.time > now
NoWork == \A t \in pending_tasks : IsFirst(t) => t.time > now

\* The tasks GetWork removes when it finds none to run.
Discarded ==
  {u \in pending_tasks :
     \/ u \in Skipped /\ \A t \in pending_tasks : NotDue(t) => Before(u, t)
     \/ NotDue(u) /\ cleanup_state = "RUNNING"}

\* Cleaning up: a delayed task is deleted, outside the lock.
GetWorkCleans(w) ==
  /\ pc[w] = "get" /\ HasLock(w) /\ NoWork
  /\ cleanup_state = "RUNNING" /\ Discarded # {}
  /\ pending_tasks' = pending_tasks \ Discarded
  /\ outside' = [outside EXCEPT ![w] = {"delete"}]
  /\ pc' = [pc EXCEPT ![w] = "delete"]
  /\ lock' = NoOne
  /\ UNCHANGED <<next_sequence_task_number, threads, thread_being_created, waiting_thread_count,
                 blocking_shutdown_thread_count, blocking_shutdown_pending_task_count,
                 current_sequences, stateVars, task, wake_time, post, caller, now, callVars>>

\* Cleaning up: nothing is left.  The lock is kept.
GetWorkCleaned(w) ==
  /\ pc[w] = "get" /\ HasLock(w) /\ NoWork
  /\ cleanup_state = "RUNNING" /\ Discarded = {}
  /\ cleanup_state' = "FINISHING"
  /\ pc' = [Broadcast(pc) EXCEPT ![w] = "top"]
  /\ caller' = WakeCaller
  /\ lock' = w
  /\ UNCHANGED <<poolVars, shutdown_called, max_blocking_tasks_after_shutdown, cleanup_idlers,
                 task, outside, wake_time, post, now, callVars>>

WaitsForEver == -1

\* When the wait for work ends: at the time of the first task, if there is one.
WaitTime == IF \E t \in pending_tasks : NotDue(t)
            THEN (CHOOSE t \in pending_tasks : NotDue(t)).time ELSE -1

\* A worker leaves when the pool shuts down and no blocking task is pending.
MayExit == shutdown_called /\ blocking_shutdown_pending_task_count = 0

\* No task to run: leave, delete the skipped tasks and look again, or wait.
GetWorkNotFound(w) ==
  /\ pc[w] = "get" /\ HasLock(w) /\ NoWork
  /\ cleanup_state # "RUNNING"
  /\ lock' = NoOne
  /\ pending_tasks' = pending_tasks \ Discarded
  /\ outside' = [outside EXCEPT ![w] = Todo(Discarded # {}, FALSE)]
  /\ \/ MayExit /\ pc' = [pc EXCEPT ![w] = "exitDelete"] /\ UNCHANGED <<waiting_thread_count, wake_time>>
     \/ /\ ~MayExit /\ Discarded # {}
        /\ pc' = [pc EXCEPT ![w] = "delete"]
        /\ UNCHANGED <<waiting_thread_count, wake_time>>
     \/ /\ ~MayExit /\ Discarded = {}
        /\ waiting_thread_count' = waiting_thread_count + 1
        /\ pc' = [pc EXCEPT ![w] = "waiting"]
        /\ wake_time' = [wake_time EXCEPT ![w] = WaitTime]
  /\ UNCHANGED <<next_sequence_task_number, threads, thread_being_created,
                 blocking_shutdown_thread_count, blocking_shutdown_pending_task_count,
                 current_sequences, stateVars, task, post, caller, now, callVars>>

\* has_work_cv_.TimedWait ends without a signal, and a spurious wake-up.
TimedOut(w) ==
  /\ pc[w] = "waiting" /\ wake_time[w] >= 0 /\ wake_time[w] <= now
  /\ pc' = [pc EXCEPT ![w] = "woken"]
  /\ UNCHANGED <<lock, poolVars, stateVars, task, outside, wake_time, post, caller, now, callVars>>

Spurious(w) ==
  /\ \/ pc[w] = "waiting" /\ pc' = [pc EXCEPT ![w] = "woken"]
     \/ pc[w] \in DOMAIN Awake /\ pc' = [pc EXCEPT ![w] = Awake[pc[w]]]
  /\ UNCHANGED <<lock, poolVars, stateVars, task, outside, wake_time, post, caller, now, callVars>>

Resume(w) ==
  /\ pc[w] = "woken" /\ HasLock(w)
  /\ lock' = w
  /\ waiting_thread_count' = waiting_thread_count - 1
  /\ wake_time' = [wake_time EXCEPT ![w] = -1]
  /\ pc' = [pc EXCEPT ![w] = "top"]
  /\ UNCHANGED <<pending_tasks, next_sequence_task_number, threads, thread_being_created,
                 blocking_shutdown_thread_count, blocking_shutdown_pending_task_count,
                 current_sequences, stateVars, task, outside, post, caller, now, callVars>>

\* Outside the lock, before the task: signal, then delete the skipped tasks and
\* create the additional thread.
SignalOthers(w) ==
  /\ pc[w] = "signal"
  /\ pc' \in SignalHasWork([pc EXCEPT ![w] = IF outside[w] # {} THEN "clear" ELSE "run"])
  /\ UNCHANGED <<lock, poolVars, stateVars, task, outside, wake_time, post, caller, now, callVars>>

RunAfterClear(w) ==
  /\ pc[w] = "clear" /\ post[w] = NoTask
  /\ outside' = [outside EXCEPT ![w] = {}]
  /\ LET f == [pc EXCEPT ![w] = "run"] IN pc' = IF "create" \in outside[w] THEN Created(f) ELSE f
  /\ UNCHANGED <<lock, poolVars, stateVars, task, wake_time, post, caller, now, callVars>>

BindsSilently(token) == UNCHANGED current_sequences

\* SetRunningTaskInfoForCurrentThread marks the token as in use.
MarkToken(token) == current_sequences' = current_sequences \union {token}

\* GetSequencedTaskRunnerForCurrentThread, called by a running task without a
\* token, binds a fresh one to the task.
BindToken(w, token) ==
  /\ pc[w] = "run" /\ post[w] = NoTask /\ lock = NoOne
  /\ task[w].token = 0 /\ token \notin bound
  /\ task' = [task EXCEPT ![w].token = token]
  /\ bound' = bound \union {token}
  /\ MarkToken(token)
  /\ UNCHANGED <<lock, pending_tasks, next_sequence_task_number, threads, thread_being_created,
                 waiting_thread_count, blocking_shutdown_thread_count,
                 blocking_shutdown_pending_task_count, stateVars, pc, outside, wake_time, post,
                 caller, now, flushes, flushing>>

\* DidRunWorkerTask frees the task's token.
FreeToken(w) == current_sequences' = current_sequences \ {task[w].token}

\* The task returns: DidRunWorkerTask.
DidRun(w) ==
  /\ pc[w] = "run" /\ post[w] = NoTask /\ HasLock(w)
  /\ lock' = w
  /\ blocking_shutdown_thread_count' =
       blocking_shutdown_thread_count - One(HoldsShutdown(task[w]))
  /\ FreeToken(w)
  /\ task' = [task EXCEPT ![w] = NoTask]
  /\ pc' = [pc EXCEPT ![w] = "top"]
  /\ UNCHANGED <<pending_tasks, next_sequence_task_number, threads, thread_being_created,
                 waiting_thread_count, blocking_shutdown_pending_task_count,
                 stateVars, outside, wake_time, post, caller, now, callVars>>

\* The skipped tasks are deleted; the loop goes round with the lock.
Deleted(w) ==
  /\ pc[w] = "delete" /\ post[w] = NoTask /\ HasLock(w)
  /\ lock' = w
  /\ outside' = [outside EXCEPT ![w] = {}]
  /\ pc' = [pc EXCEPT ![w] = "top"]
  /\ UNCHANGED <<poolVars, stateVars, task, wake_time, post, caller, now, callVars>>

\* Leaving ThreadLoop: the deletions, then the next worker is woken, then Shutdown.
ExitDeleted(w) ==
  /\ pc[w] = "exitDelete" /\ post[w] = NoTask /\ HasLock(w)
  /\ outside' = [outside EXCEPT ![w] = {}]
  /\ pc' = [pc EXCEPT ![w] = "exit"]
  /\ UNCHANGED <<lock, poolVars, stateVars, task, wake_time, post, caller, now, callVars>>

WakesNobody(f) == {f}

\* The SignalHasWork of a worker that leaves.
WakeNext(f) == SignalHasWork(f)

ExitSignal(w) ==
  /\ pc[w] = "exit"
  /\ pc' \in WakeNext([pc EXCEPT ![w] = "exit2"])
  /\ UNCHANGED <<lock, poolVars, stateVars, task, outside, wake_time, post, caller, now, callVars>>

\* can_shutdown_cv_.Signal().
UnblockShutdown == IF caller = "cvShutdown" THEN "shutdown" ELSE caller

ExitUnblocksShutdown(w) ==
  /\ pc[w] = "exit2"
  /\ pc' = [pc EXCEPT ![w] = "exited"]
  /\ caller' = UnblockShutdown
  /\ UNCHANGED <<lock, poolVars, stateVars, task, outside, wake_time, post, now, callVars>>

------------------------------------------------------------------------------
(* HandleCleanup.  Each loop waits on cleanup_cv_ until its condition holds. *)

HandleCleanup(w) ==
  /\ pc[w] = "top" /\ HasLock(w)
  /\ lock' = w
  /\ \/ /\ cleanup_state \in {"DONE", "RUNNING"}
        /\ pc' = [pc EXCEPT ![w] = "get"]
        /\ UNCHANGED <<cleanup_state, cleanup_idlers, caller>>
     \/ /\ cleanup_state = "REQUESTED"
        /\ cleanup_state' = "STARTING"
        /\ pc' = [pc EXCEPT ![w] = "starter"]
        /\ UNCHANGED <<cleanup_idlers, caller>>
     \/ /\ cleanup_state = "STARTING"
        /\ cleanup_idlers' = cleanup_idlers + 1
        /\ pc' = [Broadcast(pc) EXCEPT ![w] = "idler"]
        /\ caller' = WakeCaller
        /\ UNCHANGED cleanup_state
     \/ /\ cleanup_state = "FINISHING"
        /\ pc' = [pc EXCEPT ![w] = "finisher"]
        /\ UNCHANGED <<cleanup_state, cleanup_idlers, caller>>
  /\ UNCHANGED <<poolVars, shutdown_called, max_blocking_tasks_after_shutdown, task, outside,
                 wake_time, post, now, callVars>>

CleansAtOnce == FALSE

\* The worker that cleans up waits until all the others are idle.
OthersBusy == thread_being_created \/ cleanup_idlers # Cardinality(threads) - 1

StarterLoop(w) ==
  /\ pc[w] = "starter" /\ HasLock(w)
  /\ \/ /\ OthersBusy
        /\ pc' \in SignalHasWork([pc EXCEPT ![w] = "cvStarter"])
        /\ lock' = NoOne
        /\ UNCHANGED cleanup_state
     \/ /\ ~OthersBusy
        /\ cleanup_state' = "RUNNING"
        /\ pc' = [pc EXCEPT ![w] = "get"]
        /\ lock' = w
  /\ UNCHANGED <<poolVars, shutdown_called, max_blocking_tasks_after_shutdown, cleanup_idlers,
                 task, outside, wake_time, post, caller, now, callVars>>

IdlerLoop(w) ==
  /\ pc[w] = "idler" /\ HasLock(w)
  /\ \/ /\ cleanup_state # "FINISHING"
        /\ pc' = [pc EXCEPT ![w] = "cvIdler"]
        /\ lock' = NoOne
        /\ UNCHANGED <<cleanup_idlers, caller>>
     \/ /\ cleanup_state = "FINISHING"
        /\ cleanup_idlers' = cleanup_idlers - 1
        /\ pc' = [Broadcast(pc) EXCEPT ![w] = "get"]
        /\ caller' = WakeCaller
        /\ lock' = w
  /\ UNCHANGED <<poolVars, shutdown_called, max_blocking_tasks_after_shutdown, cleanup_state,
                 task, outside, wake_time, post, now, callVars>>

\* cleanup_cv_.Signal(): one of the waiting workers, or FlushForTesting, wakes.
CleanupSignal(f) ==
  \/ \E v \in Workers : /\ f[v] \in DOMAIN Awake
                        /\ pc' = [f EXCEPT ![v] = Awake[f[v]]]
                        /\ UNCHANGED caller
  \/ caller = "cvFlush" /\ caller' = "flush" /\ pc' = f
  \/ /\ caller # "cvFlush" /\ \A v \in Workers : f[v] \notin DOMAIN Awake
     /\ pc' = f
     /\ UNCHANGED caller

FinisherLoop(w) ==
  /\ pc[w] = "finisher" /\ HasLock(w)
  /\ \/ /\ cleanup_idlers # 0
        /\ pc' = [Broadcast(pc) EXCEPT ![w] = "cvFinisher"]
        /\ caller' = WakeCaller
        /\ lock' = NoOne
        /\ UNCHANGED cleanup_state
     \/ /\ cleanup_idlers = 0 /\ cleanup_state = "FINISHING"
        /\ cleanup_state' = "DONE"
        /\ CleanupSignal([pc EXCEPT ![w] = "get"])
        /\ lock' = w
     \/ /\ cleanup_idlers = 0 /\ cleanup_state # "FINISHING"
        /\ pc' = [pc EXCEPT ![w] = "get"]
        /\ lock' = w
        /\ UNCHANGED <<cleanup_state, caller>>
  /\ UNCHANGED <<poolVars, shutdown_called, max_blocking_tasks_after_shutdown, cleanup_idlers,
                 task, outside, wake_time, post, now, callVars>>

------------------------------------------------------------------------------
(* FlushForTesting and Shutdown, which one thread outside the pool calls *)

InPool == {t.seq : t \in pending_tasks} \union {task[w].seq : w \in {v \in Workers : task[v] # NoTask}}

\* CleanupForTesting.  When there is nothing to do it returns at once.
FlushForTesting ==
  /\ caller = "idle" /\ lock = NoOne
  /\ cleanup_state = "DONE" /\ ~shutdown_called
  /\ flushes < MaxFlushes /\ flushes' = flushes + 1
  /\ flushing' = InPool
  /\ \/ /\ pending_tasks = {} /\ waiting_thread_count = Cardinality(threads)
        /\ caller' = "flush"
        /\ UNCHANGED <<cleanup_state, cleanup_idlers, pc>>
     \/ /\ ~(pending_tasks = {} /\ waiting_thread_count = Cardinality(threads))
        /\ cleanup_state' = "REQUESTED"
        /\ cleanup_idlers' = 0
        /\ pc' \in SignalHasWork(pc)
        /\ caller' = "cvFlush"
  /\ UNCHANGED <<lock, poolVars, shutdown_called, max_blocking_tasks_after_shutdown,
                 task, outside, wake_time, post, now, bound>>

FlushLoop ==
  /\ caller = "flush" /\ lock = NoOne
  /\ \/ cleanup_state = "DONE" /\ caller' = "idle" /\ flushing' = {}
     \/ cleanup_state # "DONE" /\ caller' = "cvFlush" /\ UNCHANGED flushing
  /\ UNCHANGED <<lock, poolVars, stateVars, workerVars, post, now, bound, flushes>>

\* The environment: Shutdown(n) that lets tasks in is not called while somebody else than
\* LatePosters is about to post, for the pool would take that call for a late one.
NoLatePost(n) ==
  n > 0 => \A a \in Actors : post[a] # NoTask /\ post[a].stage = "lock" => post[a].origin \in LatePosters

Shutdown(n) ==
  /\ caller = "idle" /\ lock = NoOne
  /\ cleanup_state = "DONE" /\ ~shutdown_called
  /\ shutdown_called' = TRUE
  /\ max_blocking_tasks_after_shutdown' = n
  /\ pc' \in SignalHasWork(pc)
  /\ caller' = IF CanShutdown THEN "returned" ELSE "shutdown"
  /\ UNCHANGED <<lock, poolVars, cleanup_state, cleanup_idlers, task, outside, wake_time, post, now, callVars>>

ShutdownLoop ==
  /\ caller = "shutdown" /\ lock = NoOne
  /\ caller' = IF CanShutdown THEN "returned" ELSE "cvShutdown"
  /\ UNCHANGED <<lock, poolVars, stateVars, workerVars, post, now, callVars>>

Tick ==
  /\ now < MaxTime
  /\ now' = now + 1
  /\ UNCHANGED <<lock, poolVars, stateVars, workerVars, post, caller, callVars>>

------------------------------------------------------------------------------

WorkerStep(w) ==
  \/ StartThread(w) \/ HandleCleanup(w) \/ StarterLoop(w) \/ IdlerLoop(w) \/ FinisherLoop(w)
  \/ GetWorkFound(w) \/ GetWorkCleans(w) \/ GetWorkCleaned(w) \/ GetWorkNotFound(w)
  \/ TimedOut(w) \/ Resume(w)
  \/ SignalOthers(w) \/ RunAfterClear(w) \/ DidRun(w) \/ Deleted(w)
  \/ ExitDeleted(w) \/ ExitSignal(w) \/ ExitUnblocksShutdown(w)

PostStep(a) == PostRefused(a) \/ PostAccepted(a) \/ PostSignal(a) \/ PostCreate(a)
CallerStep == FlushLoop \/ ShutdownLoop

Next ==
  \/ Tick
  \/ \E a \in Actors, token \in Tokens \union bound, behavior \in Behavior, delay \in Delays :
       PostTask(a, token, behavior, delay)
  \/ \E a \in Actors : PostStep(a)
  \/ \E w \in Workers : WorkerStep(w) \/ Spurious(w)
  \/ \E w \in Workers, token \in FreshTokens : BindToken(w, token)
  \/ FlushForTesting
  \/ \E n \in 0..MaxNewBlocking : NoLatePost(n) /\ Shutdown(n)
  \/ CallerStep

Spec == Init /\ [][Next]_vars

\* Threads that were started keep running and get the lock in the end, tasks
\* return and time passes.  No call need ever be made, nor a spurious wake-up.
Fairness ==
  /\ WF_vars(Tick)
  /\ SF_vars(CallerStep)
  /\ \A w \in Workers : SF_vars(WorkerStep(w))
  /\ \A a \in Actors : SF_vars(PostStep(a))

FairSpec == Spec /\ Fairness

------------------------------------------------------------------------------
(* Properties *)

Busy == {w \in Workers : task[w] # NoTask}
BlockingPending == {t \in pending_tasks : Blocks(t.behavior)}

\* Tasks with the same sequence token never run at the same time, and the set of
\* tokens in use is exactly what the workers run.
OneTaskPerToken ==
  /\ \A v, w \in Busy : task[v].token = task[w].token /\ v # w => task[v].token = 0
  /\ current_sequences = {task[w].token : w \in Busy} \ {0}

\* The unsigned counters agree with what they count, so none can wrap below zero
\* and CanShutdown means what it says.
CountersAgree ==
  /\ blocking_shutdown_pending_task_count = Cardinality(BlockingPending)
  /\ blocking_shutdown_thread_count =
       Cardinality({w \in Busy : task[w].behavior # "CONTINUE_ON_SHUTDOWN"})
  /\ waiting_thread_count = Cardinality({w \in Workers : pc[w] \in {"waiting", "woken"}})
  /\ thread_being_created <=>
       \/ \E w \in Workers : pc[w] = "starting" \/ "create" \in outside[w]
       \/ \E a \in Actors : post[a] # NoTask /\ post[a].stage = "create"

\* When Shutdown has returned nothing that blocks shutdown is pending, only tasks
\* that may outlive it run, and no thread is about to appear.
ShutdownIsFinal ==
  caller = "returned" =>
    /\ BlockingPending = {}
    /\ \A w \in Busy : task[w].behavior = "CONTINUE_ON_SHUTDOWN"
    /\ \A w \in Workers : pc[w] # "starting"

\* When FlushForTesting returns, every task that was in the pool when it was
\* called has been run or deleted.
FlushIsComplete == caller = "flush" /\ cleanup_state = "DONE" => flushing \intersect InPool = {}

Starts(t) == \E w \in Workers : task'[w] = t /\ task[w] # t

\* Tasks of one token start in the order of the PostTask calls that posted them,
\* if the first call was over when the second was made and its delay is no longer:
\* no such earlier task is left behind.
TokenOrder ==
  [][\A t2 \in pending_tasks : Starts(t2) =>
       \A t1 \in pending_tasks \intersect pending_tasks' :
         ~ (t1.token = t2.token /\ t2.token # 0 /\ t1.seq < t2.after /\ t1.delay <= t2.delay)]_vars

\* Once Shutdown was called no task starts that does not block shutdown, and the
\* creation of no further thread begins: it would be leaked.
NothingNewAfterShutdown ==
  [][shutdown_called =>
       /\ \A t \in pending_tasks : Starts(t) => Blocks(t.behavior)
       /\ ~thread_being_created => ~thread_being_created']_vars

\* Shutdown returns, and every worker leaves ThreadLoop, so that the destructor can
\* join its thread: Shutdown wakes one worker only, each wakes the next, and only a
\* worker that leaves wakes Shutdown.
ShutdownCompletes ==
  shutdown_called ~> (caller = "returned" /\ \A w \in Workers : pc[w] \in {"none", "exited"})

\* FlushForTesting returns.
FlushReturns == (caller \in {"cvFlush", "flush"}) ~> (caller = "idle")

\* Every accepted task leaves the pool: it is run or deleted.
PoolDrains == \A n \in 0..(MaxTasks - 1) : (n \in InPool) ~> (n \notin InPool)
==============================================================================
