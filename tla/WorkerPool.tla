----------------------------- MODULE WorkerPool -----------------------------
(***************************************************************************)
(* base::WorkerPool on POSIX: PosixDynamicThreadPool in a LazyInstance     *)
(* (base/threading/worker_pool_posix.cc).  Threads post tasks; the pool    *)
(* has as many workers as it takes to run them all at once, which leave    *)
(* after ten idle minutes.  At exit the pool is terminated.                *)
(*                                                                         *)
(* A step is what happens under lock_, with the signal that goes with it.  *)
(* Workers are non-joinable threads, which may not use the LazyInstance,   *)
(* so that tasks post no tasks.                                            *)
(***************************************************************************)
EXTENDS LazyInstance, FiniteSets, Sequences

CONSTANTS Workers,  \* the worker threads that may be created
          MaxTasks, \* bound on the tasks posted
          NoTask

ASSUME PoolAssumption == IsFiniteSet(Workers) /\ MaxTasks \in Nat /\ NoTask \notin 1..MaxTasks

VARIABLES
  num_idle_threads, pending_tasks, terminated,
  worker,    \* what each worker does
  running,   \* the task each worker runs
  posting,   \* the task each thread is posting
  exiting,   \* how far the destruction of the pool is
  \* bounds and history
  posted,    \* how many tasks the threads have begun to post
  started,   \* the tasks that were started
  failed     \* a worker could not be created

poolVars == <<num_idle_threads, pending_tasks, terminated>>
vars == <<lazyVars, poolVars, worker, running, posting, exiting, posted, started, failed>>

Tasks == 1..MaxTasks

TypeOK ==
  /\ LazyTypeOK
  /\ num_idle_threads \in 0..Cardinality(Workers)
  /\ pending_tasks \in Seq(Tasks)
  /\ terminated \in BOOLEAN
  /\ worker \in [Workers -> {"none", "starting", "waiting", "woken", "running"}]
  /\ running \in [Workers -> Tasks \union {NoTask}]
  /\ posting \in [Threads -> Tasks \union {NoTask}]
  /\ exiting \in {"no", "broadcast", "done"}
  /\ posted \in 0..MaxTasks /\ started \subseteq Tasks /\ failed \in BOOLEAN

Init ==
  /\ LazyInit
  /\ num_idle_threads = 0 /\ pending_tasks = <<>> /\ terminated = FALSE
  /\ worker = [w \in Workers |-> "none"]
  /\ running = [w \in Workers |-> NoTask]
  /\ posting = [t \in Threads |-> NoTask]
  /\ exiting = "no"
  /\ posted = 0 /\ started = {} /\ failed = FALSE

Becomes(w, what) == worker' = [worker EXCEPT ![w] = what]

------------------------------------------------------------------------------
(* Posting *)

\* WorkerPool::PostTask up to AddTask: the thread gets the pool.
PostTask(t) ==
  /\ \/ /\ exiting = "no" /\ posting[t] = NoTask /\ posted < MaxTasks
        /\ posted' = posted + 1
        /\ posting' = [posting EXCEPT ![t] = posted + 1]
        /\ Pointer(t)
     \/ /\ LazyStep(t)
        /\ UNCHANGED <<posted, posting>>
  /\ UNCHANGED <<poolVars, worker, running, exiting, started, failed>>

\* The mutant of EnoughWorkers: any idle worker will do.
AnyWorker(tasks) == num_idle_threads > 0

EnoughWorkers(tasks) == num_idle_threads >= Len(tasks)

\* Signal wakes one of the workers that wait, if there are any.
Signal ==
  IF \E w \in Workers : worker[w] = "waiting"
    THEN \E w \in Workers : worker[w] = "waiting" /\ Becomes(w, "woken")
    ELSE UNCHANGED worker

\* CreateNonJoinable, whose result nobody looks at.
CreateNonJoinable ==
  \/ /\ \E w \in Workers : worker[w] = "none" /\ Becomes(w, "starting")
     /\ UNCHANGED failed
  \/ failed' = TRUE /\ UNCHANGED worker

AddTask(t) ==
  /\ Uses(t)
  /\ pending_tasks' = Append(pending_tasks, posting[t])
  /\ posting' = [posting EXCEPT ![t] = NoTask]
  /\ IF EnoughWorkers(pending_tasks') THEN Signal /\ UNCHANGED failed ELSE CreateNonJoinable
  /\ UNCHANGED <<num_idle_threads, terminated, running, exiting, posted, started>>

------------------------------------------------------------------------------
(* The workers *)

TakeTask(w) ==
  /\ Becomes(w, "running")
  /\ running' = [running EXCEPT ![w] = Head(pending_tasks)]
  /\ started' = started \union {Head(pending_tasks)}
  /\ pending_tasks' = Tail(pending_tasks)

\* The mutant of Leaves: a worker waits even if the pool is terminated.
NeverLeaves == FALSE

Leaves == terminated

\* The mutant of OneMoreIdle: a worker that waits is not counted.
NotCounted == num_idle_threads

OneMoreIdle == num_idle_threads + 1

\* WaitForTask of a new worker, or of one whose task has ended, up to TimedWait.
WaitForTask(w) ==
  /\ \/ /\ Leaves
        /\ Becomes(w, "none")
        /\ running' = [running EXCEPT ![w] = NoTask]
        /\ UNCHANGED <<num_idle_threads, pending_tasks, started>>
     \/ /\ ~Leaves /\ pending_tasks = <<>>
        /\ Becomes(w, "waiting")
        /\ running' = [running EXCEPT ![w] = NoTask]
        /\ num_idle_threads' = OneMoreIdle
        /\ UNCHANGED <<pending_tasks, started>>
     \/ /\ ~Leaves /\ pending_tasks # <<>>
        /\ TakeTask(w)
        /\ UNCHANGED num_idle_threads
  /\ UNCHANGED <<lazyVars, terminated, posting, exiting, posted, failed>>

ThreadMain(w) == worker[w] = "starting" /\ WaitForTask(w)

\* The task ends, if it ever does.
TaskEnds(w) == worker[w] = "running" /\ WaitForTask(w)

\* TimedWait ends after ten minutes, or for no reason.
TimesOut(w) ==
  /\ worker[w] = "waiting"
  /\ Becomes(w, "woken")
  /\ UNCHANGED <<lazyVars, poolVars, running, posting, exiting, posted, started, failed>>

\* The worker has lock_ again: the rest of WaitForTask, which does not look at
\* terminated_.
Wakes(w) ==
  /\ worker[w] = "woken"
  /\ num_idle_threads' = num_idle_threads - 1
  /\ \/ pending_tasks # <<>> /\ TakeTask(w)
     \/ /\ pending_tasks = <<>>
        /\ Becomes(w, "none")
        /\ UNCHANGED <<pending_tasks, running, started>>
  /\ UNCHANGED <<lazyVars, terminated, posting, exiting, posted, failed>>

------------------------------------------------------------------------------
(* The end *)

\* AtExitManager destroys the WorkerPoolImpl, whose destructor calls Terminate.
Terminate ==
  /\ exiting = "no" /\ MayExit
  /\ terminated' = TRUE
  /\ exiting' = "broadcast"
  /\ UNCHANGED <<lazyVars, num_idle_threads, pending_tasks, worker, running, posting, posted, started, failed>>

\* The rest of Terminate, without lock_, and of OnExit.
Broadcast ==
  /\ exiting = "broadcast" /\ OnExit
  /\ exiting' = "done"
  /\ worker' = [w \in Workers |-> IF worker[w] = "waiting" THEN "woken" ELSE worker[w]]
  /\ UNCHANGED <<poolVars, running, posting, posted, started, failed>>

------------------------------------------------------------------------------

Next ==
  \/ \E t \in Threads : PostTask(t) \/ AddTask(t)
  \/ \E w \in Workers : ThreadMain(w) \/ TaskEnds(w) \/ TimesOut(w) \/ Wakes(w)
  \/ Terminate \/ Broadcast

Spec == Init /\ [][Next]_vars

\* Threads that post a task get on with it, new and woken workers run.  No task need
\* ever end, and no process exit.
Fairness ==
  /\ \A t \in Threads : WF_vars(posting[t] # NoTask /\ PostTask(t)) /\ WF_vars(AddTask(t))
  /\ \A w \in Workers : WF_vars(ThreadMain(w)) /\ WF_vars(Wakes(w))

FairSpec == Spec /\ Fairness

------------------------------------------------------------------------------
(* Properties *)

Doing(what) == {w \in Workers : worker[w] \in what}

\* Every pending task has a worker on its way to it, one for each, whatever the running
\* tasks do: a signal that finds nobody waiting, a worker that times out as it is needed
\* and a task that another worker snatches leave none behind.  And nobody sleeps through
\* the end: once Terminate is through no worker waits or will.
NobodySleeps ==
  /\ ~terminated /\ ~failed => Len(pending_tasks) <= Cardinality(Doing({"starting", "woken"}))
  /\ exiting = "done" => Doing({"waiting"}) = {}

\* A task that a thread begins to post is started, even if no other task ever ends,
\* unless the process exits before or no worker can be created.
TasksStart ==
  \A n \in Tasks : (posted >= n) ~> (n \in started \/ terminated \/ failed)
==============================================================================
