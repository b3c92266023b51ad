-------------------- MODULE SequencedWorkerPoolTaskProofs --------------------
(***************************************************************************)
(* The tasks of SequencedWorkerPool: how a step moves them, and the        *)
(* theorems about the pool that follow.  Six actions touch the tasks, and  *)
(* each part of the invariant is proved over what those six do.            *)
(***************************************************************************)
EXTENDS SequencedWorkerPoolProofs

------------------------------------------------------------------------------
(* What the actions do to the tasks *)

\* What PostAccepted puts into the pool.
NewTask(a) ==
  [seq |-> next_sequence_task_number, token |-> post[a].token, behavior |-> post[a].behavior,
   time |-> post[a].time, delay |-> post[a].delay, after |-> post[a].after]

TasksKept ==
  UNCHANGED <<pending_tasks, next_sequence_task_number, task, blocking_shutdown_thread_count,
              blocking_shutdown_pending_task_count, current_sequences, bound>>

TaskFields(t) == /\ t.seq \in Nat /\ t.token \in Nat /\ t.behavior \in Behavior
                 /\ t.time \in Nat /\ t.delay \in Nat /\ t.after \in Nat
PostFields(p) == /\ p.stage \in {"lock", "signal", "create"} /\ p.token \in Nat /\ p.behavior \in Behavior
                 /\ p.time \in Nat /\ p.delay \in Nat /\ p.after \in Nat
                 /\ p.origin \in {"task", "destructor", "foreign"}

LEMMA TaskHasFields == \A t \in Task : TaskFields(t)
BY DEF Task, TaskFields

LEMMA PostHasFields == \A p \in Post : PostFields(p)
BY DEF Post, PostFields

LEMMA Bounds ==
  ASSUME TypeOK
  PROVE  /\ next_sequence_task_number \in Nat /\ now \in Nat
         /\ MaxTasks \in Nat /\ MaxTime \in Nat /\ MaxThreads \in Nat /\ MaxNewBlocking \in Nat
         /\ blocking_shutdown_thread_count \in Nat /\ blocking_shutdown_pending_task_count \in Nat
         /\ \A t \in pending_tasks : t \in Task /\ t # NoTask /\ TaskFields(t)
         /\ \A w \in Workers : task[w] # NoTask => task[w] \in Task /\ TaskFields(task[w])
         /\ \A a \in Actors : post[a] # NoTask => post[a] \in Post /\ PostFields(post[a])
<1>1. /\ MaxTasks \in Nat /\ MaxTime \in Nat /\ MaxThreads \in Nat /\ MaxNewBlocking \in Nat
  BY PoolAssumption
<1>2. /\ next_sequence_task_number \in Nat /\ now \in Nat
      /\ blocking_shutdown_thread_count \in Nat /\ blocking_shutdown_pending_task_count \in Nat
  BY <1>1 DEF TypeOK
<1>3. \A t \in pending_tasks : t \in Task /\ t # NoTask /\ TaskFields(t)
  BY TaskHasFields, NoTaskAssumption DEF TypeOK
<1>4. \A w \in Workers : task[w] # NoTask => task[w] \in Task /\ TaskFields(task[w])
  BY TaskHasFields DEF TypeOK
<1>5. \A a \in Actors : post[a] # NoTask => post[a] \in Post /\ PostFields(post[a])
  BY PostHasFields DEF TypeOK
<1> QED
  BY <1>1, <1>2, <1>3, <1>4, <1>5

\* PostTask: the call has read the clock and waits for the lock.
LEMMA CallFacts ==
  ASSUME TypeOK, NEW a \in Actors, NEW token \in Tokens \union bound, NEW behavior \in Behavior, NEW delay \in Delays,
         PostTask(a, token, behavior, delay)
  PROVE  /\ post[a] = NoTask /\ post'[a] \in Post /\ post'[a] # NoTask /\ post'[a].stage = "lock"
         /\ post'[a].token = token /\ post'[a].behavior = behavior /\ post'[a].delay = delay
         /\ post'[a].time = now + delay /\ post'[a].after = next_sequence_task_number
         /\ post'[a].origin = Origin(a) /\ MayPost(a)
         /\ \A b \in Actors \ {a} : post'[b] = post[b]
         /\ delay = 0 \/ behavior = "SKIP_ON_SHUTDOWN"
         /\ post' \in [Actors -> Post \union {NoTask}]
<1> DEFINE p == [stage |-> "lock", token |-> token, behavior |-> behavior, time |-> now + delay,
                 delay |-> delay, after |-> next_sequence_task_number, origin |-> Origin(a)]
<1>1. token \in Nat /\ delay \in Nat /\ now + delay \in Nat /\ next_sequence_task_number \in Nat
  BY Bounds, PoolAssumption DEF TypeOK
<1>2. Origin(a) \in {"task", "destructor", "foreign"}
  BY DEF Origin, Actors
<1>3. p \in Post
  BY <1>1, <1>2 DEF Post
<1>4. post' = [post EXCEPT ![a] = p] /\ post[a] = NoTask /\ MayPost(a)
      /\ (delay = 0 \/ behavior = "SKIP_ON_SHUTDOWN")
  BY DEF PostTask
<1>5. post'[a] = p /\ post' \in [Actors -> Post \union {NoTask}] /\ \A b \in Actors \ {a} : post'[b] = post[b]
  BY <1>3, <1>4 DEF TypeOK
<1>6. p # NoTask
  BY <1>3, NoTaskAssumption
<1> QED
  BY <1>3, <1>4, <1>5, <1>6

\* PostAccepted: the call's task enters the pool.
LEMMA AcceptedFacts ==
  ASSUME TypeOK, NEW a \in Actors, PostAccepted(a)
  PROVE  /\ post[a] # NoTask /\ post[a].stage = "lock" /\ ~Refused(a)
         /\ NewTask(a) \in Task
         /\ NewTask(a).seq = next_sequence_task_number /\ NewTask(a).token = post[a].token
         /\ NewTask(a).behavior = post[a].behavior /\ NewTask(a).time = post[a].time
         /\ NewTask(a).delay = post[a].delay /\ NewTask(a).after = post[a].after
         /\ pending_tasks' = pending_tasks \union {NewTask(a)}
         /\ next_sequence_task_number' = next_sequence_task_number + 1
         /\ blocking_shutdown_pending_task_count' =
              blocking_shutdown_pending_task_count + One(Blocks(post[a].behavior))
         /\ UNCHANGED <<task, blocking_shutdown_thread_count, current_sequences, bound, now, pc, flushing, caller,
                        cleanup_state, shutdown_called>>
         /\ \E stage \in {"create", "signal"} :
              /\ post'[a] \in Post /\ post'[a] # NoTask
              /\ post'[a].stage = stage /\ post'[a].token = post[a].token /\ post'[a].behavior = post[a].behavior
              /\ post'[a].time = post[a].time /\ post'[a].delay = post[a].delay /\ post'[a].after = post[a].after
              /\ post'[a].origin = post[a].origin
              /\ stage = "create" => NewThreadHelps(pending_tasks', current_sequences)
         /\ \A b \in Actors \ {a} : post'[b] = post[b]
         /\ post' \in [Actors -> Post \union {NoTask}]
<1> USE DEF workerVars, callVars
<1>1. post[a] # NoTask /\ post[a].stage = "lock" /\ ~Refused(a)
  BY DEF PostAccepted
<1>2. post[a] \in Post /\ PostFields(post[a]) /\ next_sequence_task_number \in Nat
  BY <1>1, Bounds
<1>3. NewTask(a) \in Task
  BY <1>2 DEF NewTask, Task, PostFields
<1>4. /\ NewTask(a).seq = next_sequence_task_number /\ NewTask(a).token = post[a].token
      /\ NewTask(a).behavior = post[a].behavior /\ NewTask(a).time = post[a].time
      /\ NewTask(a).delay = post[a].delay /\ NewTask(a).after = post[a].after
  BY DEF NewTask
<1>5. /\ pending_tasks' = pending_tasks \union {NewTask(a)}
      /\ next_sequence_task_number' = next_sequence_task_number + 1
      /\ blocking_shutdown_pending_task_count' =
           blocking_shutdown_pending_task_count + One(Blocks(post[a].behavior))
      /\ UNCHANGED <<task, blocking_shutdown_thread_count, current_sequences, bound, now, pc, flushing, caller,
                     cleanup_state, shutdown_called>>
  BY DEF PostAccepted, NewTask
<1>6. PICK stage \in {"create", "signal"} : /\ post' = [post EXCEPT ![a].stage = stage]
                                            /\ stage = "create" => NewThreadHelps(pending_tasks', current_sequences)
  BY DEF PostAccepted
<1>7. post'[a] = [post[a] EXCEPT !.stage = stage] /\ \A b \in Actors \ {a} : post'[b] = post[b]
  BY <1>6 DEF TypeOK
<1> DEFINE p == [post[a] EXCEPT !.stage = stage]
<1>8. /\ p \in Post /\ p.stage = stage /\ p.token = post[a].token /\ p.behavior = post[a].behavior
      /\ p.time = post[a].time /\ p.delay = post[a].delay /\ p.after = post[a].after /\ p.origin = post[a].origin
  BY <1>2 DEF Post
<1>9. p # NoTask
  BY <1>8, NoTaskAssumption
<1>10. post' \in [Actors -> Post \union {NoTask}]
  BY <1>6, <1>8 DEF TypeOK
<1> HIDE DEF p
<1>11. post'[a] = p
  BY <1>7 DEF p
<1> QED
  BY <1>1, <1>3, <1>4, <1>5, <1>6, <1>7, <1>8, <1>9, <1>10, <1>11

\* GetWorkFound: worker w takes t, and the tasks that are skipped before it leave the pool.
LEMMA TakenFacts ==
  ASSUME TypeOK, Frames, NEW w \in Workers, GetWorkFound(w)
  PROVE  \E t \in pending_tasks :
           /\ IsFirst(t) /\ t.time <= now /\ task[w] = NoTask
           /\ pending_tasks' = pending_tasks \ ({t} \union SkippedBefore(t))
           /\ task'[w] = t /\ \A v \in Workers \ {w} : task'[v] = task[v]
           /\ task' \in [Workers -> Task \union {NoTask}]
           /\ blocking_shutdown_pending_task_count' = blocking_shutdown_pending_task_count - One(Blocks(t.behavior))
           /\ blocking_shutdown_thread_count' = blocking_shutdown_thread_count + One(HoldsShutdown(t))
           /\ current_sequences' = current_sequences \union ({t.token} \ {0})
           /\ UNCHANGED <<next_sequence_task_number, bound, now, post, flushing, caller, cleanup_state, shutdown_called>>
           /\ pc[w] = "get"
<1> USE DEF stateVars, callVars
<1>1. PICK t \in pending_tasks :
           /\ IsFirst(t) /\ t.time <= now
           /\ pending_tasks' = pending_tasks \ ({t} \union SkippedBefore(t))
           /\ task' = [task EXCEPT ![w] = t]
           /\ blocking_shutdown_pending_task_count' = blocking_shutdown_pending_task_count - One(Blocks(t.behavior))
           /\ blocking_shutdown_thread_count' = blocking_shutdown_thread_count + One(HoldsShutdown(t))
           /\ current_sequences' = current_sequences \union ({t.token} \ {0})
  BY DEF GetWorkFound, TakeToken
<1>2. UNCHANGED <<next_sequence_task_number, bound, now, post, flushing, caller, cleanup_state, shutdown_called>>
      /\ pc[w] = "get"
  BY DEF GetWorkFound
<1>3. task[w] = NoTask
  BY <1>2 DEF Frames, Frame
<1>4. t \in Task
  BY Bounds
<1>5. task'[w] = t /\ (\A v \in Workers \ {w} : task'[v] = task[v]) /\ task' \in [Workers -> Task \union {NoTask}]
  BY <1>1, <1>4 DEF TypeOK
<1> QED
  BY <1>1, <1>2, <1>3, <1>5

\* GetWorkCleans and GetWorkNotFound: tasks that nobody will run leave the pool.
LEMMA DroppedFacts ==
  ASSUME NEW w \in Workers, GetWorkCleans(w) \/ GetWorkNotFound(w)
  PROVE  /\ pending_tasks' = pending_tasks \ Discarded
         /\ UNCHANGED <<next_sequence_task_number, task, blocking_shutdown_thread_count,
                        blocking_shutdown_pending_task_count, current_sequences, bound, now, post, flushing, caller,
                        cleanup_state, shutdown_called>>
BY DEF GetWorkCleans, GetWorkNotFound, stateVars, callVars

\* DidRun: the task of w is over.
LEMMA FinishedFacts ==
  ASSUME TypeOK, Frames, NEW w \in Workers, DidRun(w)
  PROVE  /\ task[w] # NoTask /\ pc[w] = "run" /\ post[w] = NoTask
         /\ task'[w] = NoTask /\ \A v \in Workers \ {w} : task'[v] = task[v]
         /\ task' \in [Workers -> Task \union {NoTask}]
         /\ blocking_shutdown_thread_count' = blocking_shutdown_thread_count - One(HoldsShutdown(task[w]))
         /\ current_sequences' = current_sequences \ {task[w].token}
         /\ UNCHANGED <<pending_tasks, next_sequence_task_number, blocking_shutdown_pending_task_count, bound, now, post,
                        flushing, caller, cleanup_state, shutdown_called>>
<1>1. task' = [task EXCEPT ![w] = NoTask] /\ pc[w] = "run"
  BY DEF DidRun
<1>2. task'[w] = NoTask /\ (\A v \in Workers \ {w} : task'[v] = task[v]) /\ task' \in [Workers -> Task \union {NoTask}]
  BY <1>1 DEF TypeOK
<1>3. task[w] # NoTask
  BY <1>1 DEF Frames, Frame
<1>4. /\ blocking_shutdown_thread_count' = blocking_shutdown_thread_count - One(HoldsShutdown(task[w]))
      /\ current_sequences' = current_sequences \ {task[w].token} /\ post[w] = NoTask
      /\ UNCHANGED <<pending_tasks, next_sequence_task_number, blocking_shutdown_pending_task_count, bound, now, post,
                     flushing, caller, cleanup_state, shutdown_called>>
  BY DEF DidRun, FreeToken, stateVars, callVars
<1> QED
  BY <1>1, <1>2, <1>3, <1>4

\* BindToken: the task of w goes on under a token of its own.
LEMMA BoundFacts ==
  ASSUME TypeOK, Frames, NEW w \in Workers, NEW token \in FreshTokens, BindToken(w, token)
  PROVE  /\ task[w] # NoTask /\ task[w].token = 0 /\ token \notin bound /\ token \in Nat \ {0}
         /\ task'[w] \in Task /\ task'[w] # NoTask
         /\ task'[w].token = token /\ task'[w].seq = task[w].seq /\ task'[w].behavior = task[w].behavior
         /\ \A v \in Workers \ {w} : task'[v] = task[v]
         /\ task' \in [Workers -> Task \union {NoTask}]
         /\ bound' = bound \union {token} /\ current_sequences' = current_sequences \union {token}
         /\ UNCHANGED <<pending_tasks, next_sequence_task_number, blocking_shutdown_thread_count,
                        blocking_shutdown_pending_task_count, now, post, pc, flushing, caller, cleanup_state,
                        shutdown_called, threads, thread_being_created>>
<1>1. task' = [task EXCEPT ![w].token = token] /\ pc[w] = "run" /\ task[w].token = 0 /\ token \notin bound
  BY DEF BindToken
<1>2. token \in Nat \ {0}
  BY PoolAssumption
<1>3. task[w] # NoTask
  BY <1>1 DEF Frames, Frame
<1>4. task[w] \in Task
  BY <1>3, Bounds
<1> DEFINE t == [task[w] EXCEPT !.token = token]
<1>5. t \in Task /\ t.token = token /\ t.seq = task[w].seq /\ t.behavior = task[w].behavior
  BY <1>2, <1>4 DEF Task
<1>6. t # NoTask
  BY <1>5, NoTaskAssumption
<1>7. task' = [task EXCEPT ![w] = t]
  BY <1>1
<1> HIDE DEF t
<1>8. task'[w] = t /\ (\A v \in Workers \ {w} : task'[v] = task[v]) /\ task' \in [Workers -> Task \union {NoTask}]
  BY <1>5, <1>7 DEF TypeOK
<1>9. /\ bound' = bound \union {token} /\ current_sequences' = current_sequences \union {token}
      /\ UNCHANGED <<pending_tasks, next_sequence_task_number, blocking_shutdown_thread_count,
                     blocking_shutdown_pending_task_count, now, post, pc, flushing, caller, cleanup_state,
                     shutdown_called, threads, thread_being_created>>
  BY DEF BindToken, MarkToken, stateVars
<1> QED
  BY <1>1, <1>2, <1>3, <1>5, <1>6, <1>8, <1>9

\* No other action touches the tasks.
LEMMA TasksStep ==
  ASSUME [Next]_vars
  PROVE  \/ TasksKept
         \/ \E a \in Actors : PostAccepted(a)
         \/ \E w \in Workers : GetWorkFound(w) \/ GetWorkCleans(w) \/ GetWorkNotFound(w) \/ DidRun(w)
         \/ \E w \in Workers, token \in FreshTokens : BindToken(w, token)
<1> USE DEF TasksKept, vars, poolVars, stateVars, workerVars, callVars
<1>1. CASE UNCHANGED vars \/ Tick \/ CallerStep
  BY <1>1 DEF Tick, CallerStep, FlushLoop, ShutdownLoop
<1>2. CASE FlushForTesting \/ \E n \in 0..MaxNewBlocking : Shutdown(n)
  BY <1>2 DEF FlushForTesting, Shutdown
<1>3. CASE \E a \in Actors, token \in Tokens \union bound, behavior \in Behavior, delay \in Delays :
             PostTask(a, token, behavior, delay)
  BY <1>3 DEF PostTask
<1>4. CASE \E a \in Actors : PostRefused(a) \/ PostSignal(a) \/ PostCreate(a)
  BY <1>4 DEF PostRefused, PostSignal, PostCreate
<1>5. ASSUME NEW w \in Workers, StartThread(w) \/ HandleCleanup(w) \/ StarterLoop(w) \/ IdlerLoop(w) \/ FinisherLoop(w)
      PROVE  TasksKept
  BY <1>5 DEF StartThread, HandleCleanup, StarterLoop, IdlerLoop, FinisherLoop
<1>6. ASSUME NEW w \in Workers, GetWorkCleaned(w) \/ TimedOut(w) \/ Spurious(w) \/ Resume(w)
      PROVE  TasksKept
  BY <1>6 DEF GetWorkCleaned, TimedOut, Spurious, Resume
<1>7. ASSUME NEW w \in Workers, \/ SignalOthers(w) \/ RunAfterClear(w) \/ Deleted(w) \/ ExitDeleted(w)
                                \/ ExitSignal(w) \/ ExitUnblocksShutdown(w)
      PROVE  TasksKept
  BY <1>7 DEF SignalOthers, RunAfterClear, Deleted, ExitDeleted, ExitSignal, ExitUnblocksShutdown
<1> QED
  BY <1>1, <1>2, <1>3, <1>4, <1>5, <1>6, <1>7 DEF Next, PostStep, WorkerStep

------------------------------------------------------------------------------
(* Counting tasks *)

\* Only tasks that do not block shutdown leave the pool unrun: a task that is not due yet
\* was posted with a delay.
LEMMA LeftOut ==
  ASSUME TypeOK, Numbered
  PROVE  /\ \A t \in Skipped : ~Blocks(t.behavior) /\ t \in pending_tasks
         /\ \A t \in Discarded : ~Blocks(t.behavior) /\ t \in pending_tasks
         /\ \A t, u \in pending_tasks : u \in SkippedBefore(t) => ~Blocks(u.behavior) /\ u \in Skipped
<1>1. \A t \in Skipped : ~Blocks(t.behavior) /\ t \in pending_tasks
  BY DEF Skipped, Runnable
<1>2. ASSUME NEW t \in pending_tasks, NotDue(t) PROVE ~Blocks(t.behavior)
  <2>1. t.time > now /\ t.time <= now + t.delay /\ (t.delay = 0 \/ t.behavior = "SKIP_ON_SHUTDOWN")
    BY <1>2 DEF NotDue, Numbered, Dated
  <2>2. t.time \in Nat /\ t.delay \in Nat /\ now \in Nat
    BY Bounds DEF TaskFields
  <2>3. t.delay # 0
    BY <2>1, <2>2
  <2> QED
    BY <2>1, <2>3 DEF Blocks
<1>3. \A t \in Discarded : ~Blocks(t.behavior) /\ t \in pending_tasks
  BY <1>1, <1>2 DEF Discarded
<1> QED
  BY <1>1, <1>3 DEF SkippedBefore

LEMMA TaskCountsStep ==
  ASSUME TypeOK, Frames, TaskCounts, Numbered, [Next]_vars
  PROVE  TaskCounts'
<1>1. /\ IsFiniteSet(pending_tasks) /\ Cardinality(pending_tasks) \in Nat
      /\ IsFiniteSet(BlockingPending) /\ Cardinality(BlockingPending) \in Nat
  <2>1. IsFiniteSet(pending_tasks) /\ BlockingPending \in SUBSET pending_tasks
    BY DEF TaskCounts, BlockingPending
  <2> QED
    BY <2>1, FS_Subset, FS_CardinalityType
<1>2. IsFiniteSet(Holders) /\ Cardinality(Holders) \in Nat
  <2>1. Holders \in SUBSET Workers
    BY DEF Holders
  <2> QED
    BY <2>1, WorkersCount
<1>3. CASE TasksKept
  <2>1. UNCHANGED <<pending_tasks, next_sequence_task_number, BlockingPending, Holders,
                    blocking_shutdown_thread_count, blocking_shutdown_pending_task_count>>
    BY <1>3 DEF TasksKept, BlockingPending, Holders
  <2> QED
    BY <2>1 DEF TaskCounts
<1>4. ASSUME NEW a \in Actors, PostAccepted(a) PROVE TaskCounts'
  <2> DEFINE n == NewTask(a)
  <2>1. /\ n.seq = next_sequence_task_number /\ n.behavior = post[a].behavior
        /\ pending_tasks' = pending_tasks \union {n}
        /\ next_sequence_task_number' = next_sequence_task_number + 1
        /\ blocking_shutdown_pending_task_count' =
             blocking_shutdown_pending_task_count + One(Blocks(post[a].behavior))
        /\ UNCHANGED <<task, blocking_shutdown_thread_count>>
    BY <1>4, AcceptedFacts
  <2> HIDE DEF n
  <2>2. n \notin pending_tasks
    BY <2>1, Bounds DEF Numbered
  <2>3. IsFiniteSet(pending_tasks') /\ Cardinality(pending_tasks') = Cardinality(pending_tasks) + 1
    BY <1>1, <2>1, <2>2, FS_AddElement
  <2>4. Cardinality(pending_tasks') <= next_sequence_task_number'
    BY <1>1, <2>1, <2>3, Bounds DEF TaskCounts
  <2>5. blocking_shutdown_pending_task_count' = Cardinality(BlockingPending')
    <3>1. CASE Blocks(post[a].behavior)
      <4>1. BlockingPending' = BlockingPending \union {n} /\ n \notin BlockingPending
        BY <2>1, <2>2, <3>1 DEF BlockingPending
      <4>2. Cardinality(BlockingPending') = Cardinality(BlockingPending) + 1
        BY <1>1, <4>1, FS_AddElement
      <4> QED
        BY <2>1, <3>1, <4>2 DEF TaskCounts, One
    <3>2. CASE ~Blocks(post[a].behavior)
      <4>1. BlockingPending' = BlockingPending
        BY <2>1, <3>2 DEF BlockingPending
      <4> QED
        BY <1>1, <2>1, <3>2, <4>1 DEF TaskCounts, One
    <3> QED
      BY <3>1, <3>2
  <2>6. blocking_shutdown_thread_count' = Cardinality(Holders')
    BY <2>1 DEF Holders, TaskCounts
  <2> QED
    BY <2>3, <2>4, <2>5, <2>6 DEF TaskCounts
<1>5. ASSUME NEW w \in Workers, GetWorkFound(w) PROVE TaskCounts'
  <2>1. PICK t \in pending_tasks :
          /\ task[w] = NoTask /\ pending_tasks' = pending_tasks \ ({t} \union SkippedBefore(t))
          /\ task'[w] = t /\ \A v \in Workers \ {w} : task'[v] = task[v]
          /\ blocking_shutdown_pending_task_count' = blocking_shutdown_pending_task_count - One(Blocks(t.behavior))
          /\ blocking_shutdown_thread_count' = blocking_shutdown_thread_count + One(HoldsShutdown(t))
          /\ UNCHANGED next_sequence_task_number
    BY <1>5, TakenFacts
  <2>2. t # NoTask /\ pending_tasks' \in SUBSET pending_tasks
    BY <2>1, Bounds
  <2>3. IsFiniteSet(pending_tasks') /\ Cardinality(pending_tasks') <= Cardinality(pending_tasks)
    BY <1>1, <2>2, FS_Subset
  <2>4. Cardinality(pending_tasks') \in Nat
    BY <2>3, FS_CardinalityType
  <2>5. Cardinality(pending_tasks') <= next_sequence_task_number'
    BY <1>1, <2>1, <2>3, <2>4, Bounds DEF TaskCounts
  <2>6. BlockingPending' = BlockingPending \ {t}
    BY <2>1, LeftOut DEF BlockingPending
  <2>7. t \in BlockingPending <=> Blocks(t.behavior)
    BY DEF BlockingPending
  <2>8. Cardinality(BlockingPending') = Cardinality(BlockingPending) - One(Blocks(t.behavior))
    <3>1. Cardinality(BlockingPending') =
            IF t \in BlockingPending THEN Cardinality(BlockingPending) - 1 ELSE Cardinality(BlockingPending)
      BY <1>1, <2>6, FS_RemoveElement
    <3>2. CASE Blocks(t.behavior)
      BY <2>7, <3>1, <3>2 DEF One
    <3>3. CASE ~Blocks(t.behavior)
      BY <1>1, <2>7, <3>1, <3>3 DEF One
    <3> QED
      BY <3>2, <3>3
  <2>9. blocking_shutdown_pending_task_count' = Cardinality(BlockingPending')
    BY <2>1, <2>8 DEF TaskCounts
  <2>10. Cardinality(Holders') = Cardinality(Holders) + One(HoldsShutdown(t))
    <3>1. w \notin Holders
      BY <2>1 DEF Holders
    <3>2. CASE HoldsShutdown(t)
      <4>1. Holders' = Holders \union {w}
        BY <2>1, <2>2, <3>2 DEF Holders, HoldsShutdown
      <4> QED
        BY <1>2, <3>1, <3>2, <4>1, FS_AddElement DEF One
    <3>3. CASE ~HoldsShutdown(t)
      <4>1. Holders' = Holders
        BY <2>1, <2>2, <3>3 DEF Holders, HoldsShutdown
      <4> QED
        BY <1>2, <3>3, <4>1 DEF One
    <3> QED
      BY <3>2, <3>3
  <2>11. blocking_shutdown_thread_count' = Cardinality(Holders')
    BY <2>1, <2>10 DEF TaskCounts
  <2> QED
    BY <2>3, <2>5, <2>9, <2>11 DEF TaskCounts
<1>6. ASSUME NEW w \in Workers, GetWorkCleans(w) \/ GetWorkNotFound(w) PROVE TaskCounts'
  <2>1. /\ pending_tasks' = pending_tasks \ Discarded
        /\ UNCHANGED <<next_sequence_task_number, task, blocking_shutdown_thread_count,
                       blocking_shutdown_pending_task_count>>
    BY <1>6, DroppedFacts
  <2>2. pending_tasks' \in SUBSET pending_tasks
    BY <2>1
  <2>3. IsFiniteSet(pending_tasks') /\ Cardinality(pending_tasks') <= Cardinality(pending_tasks)
    BY <1>1, <2>2, FS_Subset
  <2>4. Cardinality(pending_tasks') \in Nat
    BY <2>3, FS_CardinalityType
  <2>5. Cardinality(pending_tasks') <= next_sequence_task_number'
    BY <1>1, <2>1, <2>3, <2>4, Bounds DEF TaskCounts
  <2>6. BlockingPending' = BlockingPending
    BY <2>1, LeftOut DEF BlockingPending
  <2>7. Holders' = Holders
    BY <2>1 DEF Holders
  <2> QED
    BY <2>1, <2>3, <2>5, <2>6, <2>7 DEF TaskCounts
<1>7. ASSUME NEW w \in Workers, DidRun(w) PROVE TaskCounts'
  <2>1. /\ task[w] # NoTask /\ task'[w] = NoTask /\ \A v \in Workers \ {w} : task'[v] = task[v]
        /\ blocking_shutdown_thread_count' = blocking_shutdown_thread_count - One(HoldsShutdown(task[w]))
        /\ UNCHANGED <<pending_tasks, next_sequence_task_number, blocking_shutdown_pending_task_count>>
    BY <1>7, FinishedFacts
  <2>2. BlockingPending' = BlockingPending
    BY <2>1 DEF BlockingPending
  <2>3. Holders' = Holders \ {w}
    BY <2>1 DEF Holders, HoldsShutdown
  <2>4. w \in Holders <=> HoldsShutdown(task[w])
    BY <2>1 DEF Holders
  <2>5. Cardinality(Holders') = Cardinality(Holders) - One(HoldsShutdown(task[w]))
    <3>1. Cardinality(Holders') = IF w \in Holders THEN Cardinality(Holders) - 1 ELSE Cardinality(Holders)
      BY <1>2, <2>3, FS_RemoveElement
    <3>2. CASE HoldsShutdown(task[w])
      BY <2>4, <3>1, <3>2 DEF One
    <3>3. CASE ~HoldsShutdown(task[w])
      BY <1>2, <2>4, <3>1, <3>3 DEF One
    <3> QED
      BY <3>2, <3>3
  <2> QED
    BY <2>1, <2>2, <2>5 DEF TaskCounts
<1>8. ASSUME NEW w \in Workers, NEW token \in FreshTokens, BindToken(w, token) PROVE TaskCounts'
  <2>1. /\ task[w] # NoTask /\ task'[w] # NoTask /\ task'[w].behavior = task[w].behavior
        /\ \A v \in Workers \ {w} : task'[v] = task[v]
        /\ UNCHANGED <<pending_tasks, next_sequence_task_number, blocking_shutdown_thread_count,
                       blocking_shutdown_pending_task_count>>
    BY <1>8, BoundFacts
  <2>2. BlockingPending' = BlockingPending
    BY <2>1 DEF BlockingPending
  <2>3. Holders' = Holders
    BY <2>1 DEF Holders, HoldsShutdown
  <2> QED
    BY <2>1, <2>2, <2>3 DEF TaskCounts
<1> QED
  BY <1>3, <1>4, <1>5, <1>6, <1>7, <1>8, TasksStep

------------------------------------------------------------------------------
(* The calls of PostTask *)

LockedPosts == {a \in Actors : post[a] # NoTask /\ post[a].stage = "lock"}

\* A call that ends.
LEMMA EndedFacts ==
  ASSUME TypeOK, NEW a \in Actors, PostRefused(a) \/ PostSignal(a) \/ PostCreate(a)
  PROVE  /\ post[a] # NoTask /\ post'[a] = NoTask /\ \A b \in Actors \ {a} : post'[b] = post[b]
         /\ post' \in [Actors -> Post \union {NoTask}]
         /\ UNCHANGED <<pending_tasks, next_sequence_task_number, task, now, bound, shutdown_called, caller, cleanup_state,
                        flushing>>
<1>1. post' = [post EXCEPT ![a] = NoTask] /\ post[a] # NoTask
      /\ UNCHANGED <<pending_tasks, next_sequence_task_number, task, now, bound, shutdown_called, caller, cleanup_state,
                     flushing>>
  BY DEF PostRefused, PostSignal, PostCreate, poolVars, stateVars, workerVars, callVars
<1> QED
  BY <1>1 DEF TypeOK

\* No other action touches the calls.
LEMMA PostsStep ==
  ASSUME [Next]_vars
  PROVE  \/ UNCHANGED post
         \/ \E a \in Actors, token \in Tokens \union bound, behavior \in Behavior, delay \in Delays :
              PostTask(a, token, behavior, delay)
         \/ \E a \in Actors : PostRefused(a) \/ PostAccepted(a) \/ PostSignal(a) \/ PostCreate(a)
<1> USE DEF vars, poolVars, stateVars, workerVars, callVars
<1>1. CASE UNCHANGED vars \/ Tick \/ CallerStep
  BY <1>1 DEF Tick, CallerStep, FlushLoop, ShutdownLoop
<1>2. CASE FlushForTesting \/ \E n \in 0..MaxNewBlocking : Shutdown(n)
  BY <1>2 DEF FlushForTesting, Shutdown
<1>3. CASE \E w \in Workers, token \in FreshTokens : BindToken(w, token)
  BY <1>3 DEF BindToken
<1>4. ASSUME NEW w \in Workers, StartThread(w) \/ HandleCleanup(w) \/ StarterLoop(w) \/ IdlerLoop(w) \/ FinisherLoop(w)
      PROVE  UNCHANGED post
  BY <1>4 DEF StartThread, HandleCleanup, StarterLoop, IdlerLoop, FinisherLoop
<1>5. ASSUME NEW w \in Workers, GetWorkFound(w) \/ GetWorkCleans(w) \/ GetWorkCleaned(w) \/ GetWorkNotFound(w)
      PROVE  UNCHANGED post
  BY <1>5 DEF GetWorkFound, GetWorkCleans, GetWorkCleaned, GetWorkNotFound
<1>6. ASSUME NEW w \in Workers, TimedOut(w) \/ Spurious(w) \/ Resume(w) \/ DidRun(w)
      PROVE  UNCHANGED post
  BY <1>6 DEF TimedOut, Spurious, Resume, DidRun
<1>7. ASSUME NEW w \in Workers, \/ SignalOthers(w) \/ RunAfterClear(w) \/ Deleted(w) \/ ExitDeleted(w)
                                \/ ExitSignal(w) \/ ExitUnblocksShutdown(w)
      PROVE  UNCHANGED post
  BY <1>7 DEF SignalOthers, RunAfterClear, Deleted, ExitDeleted, ExitSignal, ExitUnblocksShutdown
<1> QED
  BY <1>1, <1>2, <1>3, <1>4, <1>5, <1>6, <1>7 DEF Next, PostStep, WorkerStep

\* What a step that is not an acceptance leaves of the numbers.
LEMMA NumberStep ==
  ASSUME TypeOK, Frames, [Next]_vars
  PROVE  \/ UNCHANGED next_sequence_task_number
         \/ \E a \in Actors : PostAccepted(a)
<1>1. TasksKept => UNCHANGED next_sequence_task_number
  BY DEF TasksKept
<1>2. ASSUME NEW w \in Workers, GetWorkFound(w) \/ GetWorkCleans(w) \/ GetWorkNotFound(w) \/ DidRun(w)
      PROVE  UNCHANGED next_sequence_task_number
  BY <1>2, TakenFacts, DroppedFacts, FinishedFacts
<1>3. ASSUME NEW w \in Workers, NEW token \in FreshTokens, BindToken(w, token)
      PROVE  UNCHANGED next_sequence_task_number
  BY <1>3, BoundFacts
<1> QED
  BY <1>1, <1>2, <1>3, TasksStep

LEMMA PostingStep ==
  ASSUME TypeOK, Frames, Posting, [Next]_vars
  PROVE  Posting'
<1> DEFINE Calls == {a \in Actors : post[a] # NoTask}
           n == next_sequence_task_number
<1>1. IsFiniteSet(Actors)
  <2>1. IsFiniteSet(Workers) /\ IsFiniteSet(Posters)
    BY FS_Interval, PoolAssumption DEF Workers
  <2> QED
    BY <2>1, FS_Union DEF Actors
<1>2. Calls \in SUBSET Actors /\ LockedPosts \in SUBSET Calls
  BY DEF LockedPosts
<1>3. IsFiniteSet(Calls) /\ IsFiniteSet(LockedPosts) /\ Cardinality(LockedPosts) <= Cardinality(Calls)
  BY <1>1, <1>2, FS_Subset
<1>4. Cardinality(LockedPosts) \in Nat /\ Cardinality(Calls) \in Nat /\ n \in Nat /\ MaxTasks \in Nat
  BY <1>3, FS_CardinalityType, Bounds
<1>5. n + Cardinality(LockedPosts) <= MaxTasks
  BY DEF Posting, LockedPosts
<1>6. SUFFICES n' + Cardinality(LockedPosts') <= MaxTasks
  BY DEF Posting, LockedPosts
<1>7. CASE UNCHANGED post
  <2>1. UNCHANGED LockedPosts
    BY <1>7 DEF LockedPosts
  <2>2. UNCHANGED n
    <3>1. ASSUME NEW a \in Actors, PostAccepted(a) PROVE FALSE
      <4>1. post[a].stage = "lock" /\ post'[a].stage \in {"create", "signal"}
        BY <3>1, AcceptedFacts
      <4> QED
        BY <1>7, <4>1
    <3> QED
      BY <3>1, NumberStep
  <2> QED
    BY <1>5, <2>1, <2>2
<1>8. ASSUME NEW a \in Actors, NEW token \in Tokens \union bound, NEW behavior \in Behavior, NEW delay \in Delays,
             PostTask(a, token, behavior, delay)
      PROVE  n' + Cardinality(LockedPosts') <= MaxTasks
  <2>1. post[a] = NoTask /\ post'[a] # NoTask /\ post'[a].stage = "lock" /\ \A b \in Actors \ {a} : post'[b] = post[b]
    BY <1>8, CallFacts
  <2>2. LockedPosts' = LockedPosts \union {a} /\ a \notin LockedPosts
    BY <2>1 DEF LockedPosts
  <2>3. Cardinality(LockedPosts') = Cardinality(LockedPosts) + 1
    BY <1>3, <2>2, FS_AddElement
  <2>4. n + Cardinality(Calls) < MaxTasks /\ n' = n
    BY <1>8 DEF PostTask, poolVars
  <2> QED
    BY <1>3, <1>4, <2>3, <2>4
<1>9. ASSUME NEW a \in Actors, PostRefused(a) \/ PostSignal(a) \/ PostCreate(a)
      PROVE  n' + Cardinality(LockedPosts') <= MaxTasks
  <2>1. post'[a] = NoTask /\ n' = n /\ \A b \in Actors \ {a} : post'[b] = post[b]
    BY <1>9, EndedFacts
  <2>2. LockedPosts' \in SUBSET LockedPosts
    BY <2>1 DEF LockedPosts
  <2>3. Cardinality(LockedPosts') <= Cardinality(LockedPosts) /\ IsFiniteSet(LockedPosts')
    BY <1>3, <2>2, FS_Subset
  <2>4. Cardinality(LockedPosts') \in Nat
    BY <2>3, FS_CardinalityType
  <2> QED
    BY <1>4, <1>5, <2>1, <2>3, <2>4
<1>10. ASSUME NEW a \in Actors, PostAccepted(a)
      PROVE  n' + Cardinality(LockedPosts') <= MaxTasks
  <2>1. /\ post[a] # NoTask /\ post[a].stage = "lock" /\ n' = n + 1
        /\ post'[a].stage \in {"create", "signal"} /\ \A b \in Actors \ {a} : post'[b] = post[b]
    BY <1>10, AcceptedFacts
  <2>2. LockedPosts' = LockedPosts \ {a} /\ a \in LockedPosts
    BY <2>1 DEF LockedPosts
  <2>3. Cardinality(LockedPosts') = Cardinality(LockedPosts) - 1
    BY <1>3, <2>2, FS_RemoveElement
  <2> QED
    BY <1>4, <1>5, <2>1, <2>3
<1> QED
  BY <1>7, <1>8, <1>9, <1>10, PostsStep

------------------------------------------------------------------------------
(* The numbers and times of the tasks *)

\* Time passes and tokens are handed out.
LEMMA ClockStep ==
  ASSUME TypeOK, Frames, [Next]_vars
  PROVE  now' \in 0..MaxTime /\ now' >= now /\ bound \subseteq bound' /\ bound' \subseteq FreshTokens
<1> USE DEF vars, poolVars, stateVars, workerVars, callVars
<1>1. now' \in 0..MaxTime /\ now' >= now
  <2>1. now \in 0..MaxTime /\ now \in Nat /\ MaxTime \in Nat
    BY Bounds DEF TypeOK
  <2>2. CASE Tick
    BY <2>1, <2>2 DEF Tick
  <2>3. Tick \/ UNCHANGED now
    <3>1. CASE UNCHANGED vars \/ CallerStep \/ FlushForTesting \/ (\E k \in 0..MaxNewBlocking : Shutdown(k))
               \/ (\E w \in Workers, token \in FreshTokens : BindToken(w, token))
               \/ (\E a \in Actors, token \in Tokens \union bound, behavior \in Behavior, delay \in Delays :
                     PostTask(a, token, behavior, delay))
      BY <3>1 DEF CallerStep, FlushLoop, ShutdownLoop, FlushForTesting, Shutdown, BindToken, PostTask
    <3>2. ASSUME NEW a \in Actors, PostStep(a) PROVE UNCHANGED now
      BY <3>2 DEF PostStep, PostRefused, PostAccepted, PostSignal, PostCreate
    <3>3. ASSUME NEW w \in Workers, StartThread(w) \/ HandleCleanup(w) \/ StarterLoop(w) \/ IdlerLoop(w) \/ FinisherLoop(w)
          PROVE  UNCHANGED now
      BY <3>3 DEF StartThread, HandleCleanup, StarterLoop, IdlerLoop, FinisherLoop
    <3>4. ASSUME NEW w \in Workers, \/ GetWorkFound(w) \/ GetWorkCleans(w) \/ GetWorkCleaned(w) \/ GetWorkNotFound(w)
                                    \/ TimedOut(w) \/ Spurious(w) \/ Resume(w) \/ DidRun(w)
          PROVE  UNCHANGED now
      BY <3>4 DEF GetWorkFound, GetWorkCleans, GetWorkCleaned, GetWorkNotFound, TimedOut, Spurious, Resume, DidRun
    <3>5. ASSUME NEW w \in Workers, \/ SignalOthers(w) \/ RunAfterClear(w) \/ Deleted(w) \/ ExitDeleted(w)
                                    \/ ExitSignal(w) \/ ExitUnblocksShutdown(w)
          PROVE  UNCHANGED now
      BY <3>5 DEF SignalOthers, RunAfterClear, Deleted, ExitDeleted, ExitSignal, ExitUnblocksShutdown
    <3> QED
      BY <3>1, <3>2, <3>3, <3>4, <3>5 DEF Next, WorkerStep
  <2> QED
    BY <2>1, <2>2, <2>3
<1>2. bound \subseteq bound' /\ bound' \subseteq FreshTokens
  <2>1. bound \subseteq FreshTokens
    BY DEF TypeOK
  <2>2. CASE UNCHANGED bound
    BY <2>1, <2>2
  <2>3. ASSUME NEW a \in Actors, PostAccepted(a) PROVE UNCHANGED bound
    BY <2>3, AcceptedFacts
  <2>4. ASSUME NEW w \in Workers, GetWorkFound(w) \/ GetWorkCleans(w) \/ GetWorkNotFound(w) \/ DidRun(w)
        PROVE  UNCHANGED bound
    BY <2>4, TakenFacts, DroppedFacts, FinishedFacts
  <2>5. ASSUME NEW w \in Workers, NEW token \in FreshTokens, BindToken(w, token)
        PROVE  bound \subseteq bound' /\ bound' \subseteq FreshTokens
    BY <2>1, <2>5, BoundFacts
  <2>6. TasksKept => UNCHANGED bound
    BY DEF TasksKept
  <2> QED
    BY <2>2, <2>3, <2>4, <2>5, <2>6, TasksStep
<1> QED
  BY <1>1, <1>2

\* The pool gains a task only from PostAccepted.
LEMMA PoolStep ==
  ASSUME TypeOK, Frames, [Next]_vars
  PROVE  \/ \E a \in Actors : PostAccepted(a)
         \/ pending_tasks' \subseteq pending_tasks /\ UNCHANGED next_sequence_task_number
<1>1. CASE TasksKept
  BY <1>1 DEF TasksKept
<1>2. ASSUME NEW w \in Workers, GetWorkFound(w) \/ GetWorkCleans(w) \/ GetWorkNotFound(w) \/ DidRun(w)
      PROVE  pending_tasks' \subseteq pending_tasks /\ UNCHANGED next_sequence_task_number
  BY <1>2, TakenFacts, DroppedFacts, FinishedFacts
<1>3. ASSUME NEW w \in Workers, NEW token \in FreshTokens, BindToken(w, token)
      PROVE  pending_tasks' \subseteq pending_tasks /\ UNCHANGED next_sequence_task_number
  BY <1>3, BoundFacts
<1> QED
  BY <1>1, <1>2, <1>3, TasksStep

\* A call of PostTask in progress goes on, or has just begun.
CallGoesOn(a) ==
  /\ post[a] # NoTask
  /\ post'[a].token = post[a].token /\ post'[a].behavior = post[a].behavior /\ post'[a].time = post[a].time
  /\ post'[a].delay = post[a].delay /\ post'[a].after = post[a].after /\ post'[a].origin = post[a].origin
  /\ post'[a].stage = "lock" => post[a].stage = "lock"
CallBegins(a) ==
  \E token \in Tokens \union bound, behavior \in Behavior, delay \in Delays : PostTask(a, token, behavior, delay)

LEMMA CallsStep ==
  ASSUME TypeOK, [Next]_vars, NEW a \in Actors, post'[a] # NoTask
  PROVE  CallGoesOn(a) \/ CallBegins(a)
<1>1. CASE post'[a] = post[a]
  BY <1>1 DEF CallGoesOn
<1>2. ASSUME NEW b \in Actors, NEW token \in Tokens \union bound, NEW behavior \in Behavior, NEW delay \in Delays,
             PostTask(b, token, behavior, delay)
      PROVE  post'[a] = post[a] \/ CallBegins(a)
  <2>1. CASE a = b
    BY <1>2, <2>1 DEF CallBegins
  <2>2. CASE a # b
    BY <1>2, <2>2, CallFacts
  <2> QED
    BY <2>1, <2>2
<1>3. ASSUME NEW b \in Actors, PostRefused(b) \/ PostSignal(b) \/ PostCreate(b)
      PROVE  post'[a] = post[a]
  BY <1>3, EndedFacts
<1>4. ASSUME NEW b \in Actors, PostAccepted(b)
      PROVE  CallGoesOn(a)
  <2>1. CASE a = b
    BY <1>4, <2>1, AcceptedFacts DEF CallGoesOn
  <2>2. CASE a # b
    <3>1. post'[a] = post[a]
      BY <1>4, <2>2, AcceptedFacts
    <3> QED
      BY <3>1 DEF CallGoesOn
  <2> QED
    BY <2>1, <2>2
<1> QED
  BY <1>1, <1>2, <1>3, <1>4, PostsStep

\* A worker goes on with its task, or has just taken one.
RunGoesOn(w) ==
  /\ task[w] # NoTask /\ task'[w].seq = task[w].seq /\ task'[w].behavior = task[w].behavior
  /\ task'[w].token = task[w].token \/ task'[w].token \in bound'
RunBegins(w) ==
  /\ task[w] = NoTask /\ task'[w] \in pending_tasks /\ task'[w] \notin pending_tasks'
  /\ GetWorkFound(w)

LEMMA RunsStep ==
  ASSUME TypeOK, Frames, [Next]_vars, NEW w \in Workers, task'[w] # NoTask
  PROVE  RunGoesOn(w) \/ RunBegins(w)
<1>1. CASE task'[w] = task[w]
  BY <1>1 DEF RunGoesOn
<1>2. ASSUME NEW v \in Workers, GetWorkFound(v) PROVE task'[w] = task[w] \/ RunBegins(w)
  BY <1>2, TakenFacts DEF RunBegins
<1>3. ASSUME NEW v \in Workers, GetWorkCleans(v) \/ GetWorkNotFound(v) \/ DidRun(v) PROVE task'[w] = task[w]
  BY <1>3, DroppedFacts, FinishedFacts
<1>4. ASSUME NEW v \in Workers, NEW token \in FreshTokens, BindToken(v, token)
      PROVE  task'[w] = task[w] \/ RunGoesOn(w)
  BY <1>4, BoundFacts DEF RunGoesOn
<1>5. ASSUME NEW a \in Actors, PostAccepted(a) PROVE task'[w] = task[w]
  BY <1>5, AcceptedFacts
<1> QED
  BY <1>1, <1>2, <1>3, <1>4, <1>5, TasksStep DEF TasksKept

\* What was read from the clock stays in the past.
LEMMA DatedKept ==
  ASSUME TypeOK, Frames, [Next]_vars, NEW t, t.time \in Nat, t.delay \in Nat, Dated(t)
  PROVE  Dated(t)'
<1>1. now' >= now /\ bound \subseteq bound' /\ now \in Nat /\ now' \in Nat
  <2>1. now' \in 0..MaxTime /\ now' >= now /\ bound \subseteq bound'
    BY ClockStep
  <2> QED
    BY <2>1, Bounds
<1>2. t.token \in Tokens \union bound /\ t.time <= now + t.delay /\ (t.delay = 0 \/ t.behavior = "SKIP_ON_SHUTDOWN")
  BY DEF Dated
<1>3. t.time <= now' + t.delay
  BY <1>1, <1>2
<1> QED
  BY <1>1, <1>2, <1>3 DEF Dated

\* A call of PostTask has read the clock after the calls whose tasks it finds in the pool.
PostNumbered(a) ==
  /\ post[a].after <= next_sequence_task_number /\ Dated(post[a])
  /\ \A t \in pending_tasks : t.seq < post[a].after => t.time + post[a].delay <= post[a].time + t.delay

LEMMA PostNumberedStep ==
  ASSUME TypeOK, Frames, Numbered, [Next]_vars, NEW a \in Actors, post'[a] # NoTask
  PROVE  PostNumbered(a)'
<1>0. next_sequence_task_number \in Nat /\ now \in Nat
  BY Bounds
<1>1. CASE CallGoesOn(a)
  <2>1. PICK p : p = post[a]
    OBVIOUS
  <2>2. PICK q : q = post'[a]
    OBVIOUS
  <2>3. /\ q.token = p.token /\ q.behavior = p.behavior /\ q.time = p.time
        /\ q.delay = p.delay /\ q.after = p.after
    BY <1>1, <2>1, <2>2 DEF CallGoesOn
  <2>4. p # NoTask /\ PostFields(p)
    BY <1>1, <2>1, Bounds DEF CallGoesOn
  <2>5. /\ p.after <= next_sequence_task_number /\ Dated(p)
        /\ \A t \in pending_tasks : t.seq < p.after => t.time + p.delay <= p.time + t.delay
    BY <2>1, <2>4 DEF Numbered
  <2>6. Dated(q)
    BY <2>3, <2>5 DEF Dated
  <2>7. Dated(q)'
    BY <2>3, <2>4, <2>6, DatedKept DEF PostFields
  <2>8. next_sequence_task_number' \in Nat /\ next_sequence_task_number <= next_sequence_task_number'
    BY <1>0, AcceptedFacts, NumberStep
  <2>9. ASSUME NEW t \in pending_tasks', t.seq < q.after PROVE t.time + q.delay <= q.time + t.delay
    <3>1. CASE t \in pending_tasks
      BY <2>3, <2>5, <2>9, <3>1
    <3>2. ASSUME NEW b \in Actors, PostAccepted(b), t = NewTask(b) PROVE FALSE
      <4>1. t.seq = next_sequence_task_number
        BY <3>2, AcceptedFacts
      <4>2. q.after \in Nat /\ q.after <= next_sequence_task_number
        BY <2>3, <2>4, <2>5 DEF PostFields
      <4> QED
        BY <1>0, <2>9, <4>1, <4>2
    <3>3. t \in pending_tasks \/ \E b \in Actors : PostAccepted(b) /\ t = NewTask(b)
      BY AcceptedFacts, PoolStep
    <3> QED
      BY <3>1, <3>2, <3>3
  <2>10. q.after <= next_sequence_task_number'
    BY <1>0, <2>3, <2>4, <2>5, <2>8 DEF PostFields
  <2> QED
    BY <2>2, <2>7, <2>9, <2>10 DEF PostNumbered, Dated
<1>2. CASE CallBegins(a)
  <2>1. PICK token \in Tokens \union bound, behavior \in Behavior, delay \in Delays : PostTask(a, token, behavior, delay)
    BY <1>2 DEF CallBegins
  <2>2. PICK q : q = post'[a]
    OBVIOUS
  <2>3. /\ q.token = token /\ q.behavior = behavior /\ q.delay = delay
        /\ q.time = now + delay /\ q.after = next_sequence_task_number
        /\ delay = 0 \/ behavior = "SKIP_ON_SHUTDOWN"
    BY <2>1, <2>2, CallFacts
  <2>4. delay \in Nat
    BY PoolAssumption
  <2>5. UNCHANGED <<pending_tasks, next_sequence_task_number, now, bound>>
    BY <2>1 DEF PostTask, poolVars, callVars
  <2>6. Dated(q)
    BY <1>0, <2>3, <2>4 DEF Dated
  <2>7. Dated(q)'
    BY <2>5, <2>6 DEF Dated
  <2>8. ASSUME NEW t \in pending_tasks PROVE t.time + q.delay <= q.time + t.delay
    <3>1. t.time <= now + t.delay
      BY DEF Numbered, Dated
    <3>2. t.time \in Nat /\ t.delay \in Nat
      BY Bounds DEF TaskFields
    <3> QED
      BY <1>0, <2>3, <2>4, <3>1, <3>2
  <2> QED
    BY <1>0, <2>2, <2>3, <2>5, <2>7, <2>8 DEF PostNumbered, Dated
<1> QED
  BY <1>1, <1>2, CallsStep

LEMMA NumberedStep ==
  ASSUME TypeOK, Frames, Numbered, [Next]_vars
  PROVE  Numbered'
<1> DEFINE n == next_sequence_task_number
<1>0. n \in Nat /\ now \in Nat
  BY Bounds
<1>1. \A t \in pending_tasks : /\ t.seq < n /\ t.after <= t.seq /\ Dated(t)
                               /\ t.seq \in Nat /\ t.after \in Nat /\ t.time \in Nat /\ t.delay \in Nat
  BY Bounds DEF Numbered, TaskFields
<1>2. \A t, u \in pending_tasks : /\ t.seq = u.seq => t = u
                                  /\ t.seq < u.after => t.time + u.delay <= u.time + t.delay
  BY DEF Numbered
<1>3. \A w \in Busy : /\ task[w].seq < n /\ task[w].seq \in Nat /\ task[w].token \in Tokens \union bound
                      /\ \A t \in pending_tasks : t.seq # task[w].seq
  BY Bounds DEF Numbered, Busy, TaskFields
<1>4. \A a \in Actors : post[a] # NoTask => PostNumbered(a) /\ PostFields(post[a])
  BY Bounds DEF Numbered, PostNumbered
<1>5. \A t \in pending_tasks : Dated(t)'
  BY <1>1, DatedKept
<1>6. bound \subseteq bound'
  BY ClockStep
<1>7. \A a \in Actors : post'[a] # NoTask => PostNumbered(a)'
  BY PostNumberedStep
<1>8. CASE pending_tasks' \subseteq pending_tasks /\ UNCHANGED n
  <2>1. \A t \in pending_tasks' : t.seq < n' /\ t.after <= t.seq /\ Dated(t)'
    BY <1>1, <1>5, <1>8
  <2>2. ASSUME NEW w \in Workers, task'[w] # NoTask
        PROVE  /\ task'[w].seq < n' /\ task'[w].token \in Tokens \union bound'
               /\ \A t \in pending_tasks' : t.seq # task'[w].seq
    <3>1. CASE RunGoesOn(w)
      <4>1. w \in Busy /\ task'[w].seq = task[w].seq /\ (task'[w].token = task[w].token \/ task'[w].token \in bound')
        BY <3>1 DEF RunGoesOn, Busy
      <4> QED
        BY <1>3, <1>6, <1>8, <4>1
    <3>2. CASE RunBegins(w)
      <4>1. task'[w] \in pending_tasks /\ task'[w] \notin pending_tasks'
        BY <3>2 DEF RunBegins
      <4>2. task'[w].token \in Tokens \union bound
        BY <1>1, <4>1 DEF Dated
      <4> QED
        BY <1>1, <1>2, <1>6, <1>8, <4>1, <4>2
    <3> QED
      BY <2>2, <3>1, <3>2, RunsStep
  <2> QED
    BY <1>2, <1>7, <1>8, <2>1, <2>2 DEF Numbered, PostNumbered, Busy, Dated
<1>9. ASSUME NEW a \in Actors, PostAccepted(a) PROVE Numbered'
  <2>1. PICK m : m = NewTask(a)
    OBVIOUS
  <2>2. /\ post[a] # NoTask /\ m.seq = n /\ m.token = post[a].token /\ m.behavior = post[a].behavior
        /\ m.time = post[a].time /\ m.delay = post[a].delay /\ m.after = post[a].after
        /\ pending_tasks' = pending_tasks \union {m} /\ n' = n + 1
        /\ UNCHANGED <<task, bound, now>>
    BY <1>9, <2>1, AcceptedFacts
  <2>3. /\ m.after <= n /\ m.after \in Nat /\ m.time \in Nat /\ m.delay \in Nat
        /\ \A t \in pending_tasks : t.seq < m.after => t.time + m.delay <= m.time + t.delay
    BY <1>4, <2>2 DEF PostNumbered, PostFields
  <2>4. Dated(m)
    BY <1>4, <2>2 DEF PostNumbered, Dated
  <2>5. Dated(m)'
    BY <2>2, <2>4 DEF Dated
  <2>6. \A t \in pending_tasks' : t.seq < n' /\ t.after <= t.seq /\ Dated(t)'
    <3>1. \A t \in pending_tasks : t.seq < n'
      BY <1>0, <1>1, <2>2
    <3>2. m.seq < n' /\ m.after <= m.seq
      BY <1>0, <2>2, <2>3
    <3> QED
      BY <1>1, <1>5, <2>2, <2>5, <3>1, <3>2
  <2>7. ASSUME NEW t \in pending_tasks', NEW u \in pending_tasks'
        PROVE  (t.seq = u.seq => t = u) /\ (t.seq < u.after => t.time + u.delay <= u.time + t.delay)
    <3>1. CASE t \in pending_tasks /\ u \in pending_tasks
      BY <1>2, <3>1
    <3>2. CASE t \in pending_tasks /\ u = m
      BY <1>0, <1>1, <2>2, <2>3, <3>2
    <3>3. CASE t = m /\ u \in pending_tasks
      BY <1>0, <1>1, <2>2, <2>3, <3>3
    <3>4. CASE t = m /\ u = m
      BY <1>0, <2>2, <2>3, <3>4
    <3> QED
      BY <2>2, <3>1, <3>2, <3>3, <3>4
  <2>8. ASSUME NEW w \in Workers, task'[w] # NoTask
        PROVE  /\ task'[w].seq < n' /\ task'[w].token \in Tokens \union bound'
               /\ \A t \in pending_tasks' : t.seq # task'[w].seq
    <3>1. w \in Busy /\ task'[w] = task[w]
      BY <2>2, <2>8 DEF Busy
    <3>2. task[w].seq < n /\ task[w].seq \in Nat /\ task[w].token \in Tokens \union bound'
          /\ \A t \in pending_tasks : t.seq # task[w].seq
      BY <1>3, <2>2, <3>1
    <3>3. task[w].seq < n' /\ m.seq # task[w].seq
      BY <1>0, <2>2, <3>2
    <3> QED
      BY <2>2, <3>1, <3>2, <3>3
  <2> QED
    BY <1>7, <2>6, <2>7, <2>8 DEF Numbered, PostNumbered, Busy, Dated
<1> QED
  BY <1>8, <1>9, PoolStep

------------------------------------------------------------------------------
(* The exclusion of tasks of one token *)

LEMMA ExclusionStep ==
  ASSUME TypeOK, Frames, Numbered, OneTaskPerToken, [Next]_vars
  PROVE  OneTaskPerToken'
<1>1. \A v, w \in Workers : task[v] # NoTask /\ task[w] # NoTask /\ task[v].token = task[w].token /\ v # w =>
                              task[v].token = 0
  BY DEF OneTaskPerToken, Busy
<1>2. \A x : x \in current_sequences <=> x # 0 /\ \E w \in Workers : task[w] # NoTask /\ task[w].token = x
  BY DEF OneTaskPerToken, Busy
<1>3. SUFFICES
        /\ \A v, w \in Workers : task'[v] # NoTask /\ task'[w] # NoTask /\ task'[v].token = task'[w].token /\ v # w =>
                                   task'[v].token = 0
        /\ \A x : x \in current_sequences' <=> x # 0 /\ \E w \in Workers : task'[w] # NoTask /\ task'[w].token = x
  BY DEF OneTaskPerToken, Busy
<1>4. CASE UNCHANGED <<task, current_sequences>>
  BY <1>1, <1>2, <1>4
<1>5. ASSUME NEW w \in Workers, GetWorkFound(w)
      PROVE  /\ \A u, v \in Workers : task'[u] # NoTask /\ task'[v] # NoTask /\ task'[u].token = task'[v].token /\ u # v =>
                                        task'[u].token = 0
             /\ \A x : x \in current_sequences' <=> x # 0 /\ \E v \in Workers : task'[v] # NoTask /\ task'[v].token = x
  <2>1. PICK t \in pending_tasks :
          /\ IsFirst(t) /\ task[w] = NoTask /\ task'[w] = t /\ \A v \in Workers \ {w} : task'[v] = task[v]
          /\ current_sequences' = current_sequences \union ({t.token} \ {0})
    BY <1>5, TakenFacts
  <2>2. t.token = 0 \/ t.token \notin current_sequences
    BY <2>1 DEF IsFirst, Runnable, IsSequenceTokenRunnable
  <2>3. t # NoTask
    BY Bounds
  <2>4. \A v \in Workers : v # w /\ task[v] # NoTask /\ task[v].token = t.token => t.token = 0
    BY <1>2, <2>2
  <2>5. \A u, v \in Workers : task'[u] # NoTask /\ task'[v] # NoTask /\ task'[u].token = task'[v].token /\ u # v =>
                                task'[u].token = 0
    BY <1>1, <2>1, <2>4
  <2>6. ASSUME NEW x, x \in current_sequences'
        PROVE  x # 0 /\ \E v \in Workers : task'[v] # NoTask /\ task'[v].token = x
    <3>1. CASE x \in current_sequences
      BY <1>2, <2>1, <3>1
    <3>2. CASE x = t.token /\ x # 0
      BY <2>1, <2>3, <3>2
    <3> QED
      BY <2>1, <2>6, <3>1, <3>2
  <2>7. ASSUME NEW x, x # 0, NEW v \in Workers, task'[v] # NoTask, task'[v].token = x
        PROVE  x \in current_sequences'
    BY <1>2, <2>1, <2>7
  <2> QED
    BY <2>5, <2>6, <2>7
<1>6. ASSUME NEW w \in Workers, DidRun(w)
      PROVE  /\ \A u, v \in Workers : task'[u] # NoTask /\ task'[v] # NoTask /\ task'[u].token = task'[v].token /\ u # v =>
                                        task'[u].token = 0
             /\ \A x : x \in current_sequences' <=> x # 0 /\ \E v \in Workers : task'[v] # NoTask /\ task'[v].token = x
  <2>1. /\ task[w] # NoTask /\ task'[w] = NoTask /\ \A v \in Workers \ {w} : task'[v] = task[v]
        /\ current_sequences' = current_sequences \ {task[w].token}
    BY <1>6, FinishedFacts
  <2>2. \A u, v \in Workers : task'[u] # NoTask /\ task'[v] # NoTask /\ task'[u].token = task'[v].token /\ u # v =>
                                task'[u].token = 0
    BY <1>1, <2>1
  <2>3. ASSUME NEW x, x \in current_sequences'
        PROVE  x # 0 /\ \E v \in Workers : task'[v] # NoTask /\ task'[v].token = x
    <3>1. x \in current_sequences /\ x # task[w].token
      BY <2>1, <2>3
    <3>2. PICK v \in Workers : task[v] # NoTask /\ task[v].token = x
      BY <1>2, <3>1
    <3> QED
      BY <1>2, <2>1, <3>1, <3>2
  <2>4. ASSUME NEW x, x # 0, NEW v \in Workers, task'[v] # NoTask, task'[v].token = x
        PROVE  x \in current_sequences'
    <3>1. v # w /\ task[v] = task'[v]
      BY <2>1, <2>4
    <3>2. x # task[w].token
      BY <1>1, <2>1, <2>4, <3>1
    <3> QED
      BY <1>2, <2>1, <2>4, <3>1, <3>2
  <2> QED
    BY <2>2, <2>3, <2>4
<1>7. ASSUME NEW w \in Workers, NEW token \in FreshTokens, BindToken(w, token)
      PROVE  /\ \A u, v \in Workers : task'[u] # NoTask /\ task'[v] # NoTask /\ task'[u].token = task'[v].token /\ u # v =>
                                        task'[u].token = 0
             /\ \A x : x \in current_sequences' <=> x # 0 /\ \E v \in Workers : task'[v] # NoTask /\ task'[v].token = x
  <2>1. /\ task[w] # NoTask /\ task[w].token = 0 /\ task'[w] # NoTask /\ task'[w].token = token
        /\ \A v \in Workers \ {w} : task'[v] = task[v]
        /\ current_sequences' = current_sequences \union {token} /\ token # 0 /\ token \notin bound
    BY <1>7, BoundFacts
  <2>2. token \notin Tokens \union bound
    BY <2>1, PoolAssumption
  <2>3. \A v \in Workers : task[v] # NoTask => task[v].token # token
    BY <2>2 DEF Numbered, Busy
  <2>4. \A u, v \in Workers : task'[u] # NoTask /\ task'[v] # NoTask /\ task'[u].token = task'[v].token /\ u # v =>
                                task'[u].token = 0
    BY <1>1, <2>1, <2>3
  <2>5. ASSUME NEW x, x \in current_sequences'
        PROVE  x # 0 /\ \E v \in Workers : task'[v] # NoTask /\ task'[v].token = x
    <3>1. CASE x \in current_sequences
      <4>1. PICK v \in Workers : task[v] # NoTask /\ task[v].token = x /\ x # 0
        BY <1>2, <3>1
      <4> QED
        BY <2>1, <4>1
    <3>2. CASE x = token
      BY <2>1, <3>2
    <3> QED
      BY <2>1, <2>5, <3>1, <3>2
  <2>6. ASSUME NEW x, x # 0, NEW v \in Workers, task'[v] # NoTask, task'[v].token = x
        PROVE  x \in current_sequences'
    BY <1>2, <2>1, <2>6
  <2> QED
    BY <2>4, <2>5, <2>6
<1>8. TasksKept => UNCHANGED <<task, current_sequences>>
  BY DEF TasksKept
<1>9. \A a \in Actors : PostAccepted(a) => UNCHANGED <<task, current_sequences>>
  BY AcceptedFacts
<1>10. \A w \in Workers : GetWorkCleans(w) \/ GetWorkNotFound(w) => UNCHANGED <<task, current_sequences>>
  BY DroppedFacts
<1> QED
  BY <1>4, <1>5, <1>6, <1>7, <1>8, <1>9, <1>10, TasksStep

------------------------------------------------------------------------------
(* The cleanup of FlushForTesting, and the calls of FlushForTesting and Shutdown *)

\* How a worker comes to be elsewhere: it is woken, created, or it goes there itself.
LEMMA PcStep ==
  ASSUME TypeOK, Frames, Creating, [Next]_vars, NEW v \in Workers
  PROVE  \/ Wakes(pc[v], pc'[v]) \/ (pc[v] = "none" /\ pc'[v] = "starting")
         \/ WorkerStep(v)
<1> DEFINE Moved == \/ Wakes(pc[v], pc'[v]) \/ (pc[v] = "none" /\ pc'[v] = "starting")
                    \/ WorkerStep(v)
<1> USE DEF poolVars, stateVars, workerVars, callVars
<1>1. CASE Stir
  BY <1>1 DEF Stir
<1>2. CASE \/ UNCHANGED vars \/ Tick \/ CallerStep \/ (\E w \in Workers, token \in FreshTokens : BindToken(w, token))
           \/ (\E a \in Actors, token \in Tokens \union bound, behavior \in Behavior, delay \in Delays :
                 PostTask(a, token, behavior, delay))
           \/ \E a \in Actors : PostRefused(a) \/ PostAccepted(a)
  <2>1. UNCHANGED pc
    BY <1>2 DEF vars, Tick, CallerStep, FlushLoop, ShutdownLoop, BindToken, PostTask, PostRefused, PostAccepted
  <2> QED
    BY <1>1, <2>1, StirsNobody
<1>3. CASE \/ FlushForTesting \/ (\E n \in 0..MaxNewBlocking : Shutdown(n))
           \/ (\E a \in Actors : PostSignal(a)) \/ \E w \in Workers : Spurious(w)
  <2>1. Stir
    BY <1>3, OtherPc, WorkPc
  <2> QED
    BY <1>1, <2>1
<1>4. ASSUME NEW a \in Actors, PostCreate(a) PROVE Moved
  <2>1. post[a] # NoTask /\ post[a].stage = "create" /\ pc' = Created(pc)
    BY <1>4 DEF PostCreate
  <2>2. Makes(a) /\ ~(a \in Workers /\ pc[a] = "starting")
    BY <2>1 DEF Makes, Frames, Frame
  <2>3. NewThread \in Workers /\ pc[NewThread] = "none" /\ pc \in [Workers -> PC]
    BY <2>2, NewThreadIsFree DEF TypeOK
  <2>4. pc'[NewThread] = "starting" /\ \A u \in Workers : u # NewThread => pc'[u] = pc[u]
    BY <2>1, <2>3, CreatedFacts
  <2> QED
    BY <2>3, <2>4 DEF Wakes
<1>5. ASSUME NEW w \in Workers, WorkerStep(w) PROVE Moved
  <2>1. CASE v = w
    BY <1>5, <2>1
  <2>2. ASSUME v # w, NEW from, NEW to, Goes(w, from, to) PROVE Moved
    BY <2>2 DEF Goes
  <2>3. CASE v # w /\ RunAfterClear(w) /\ "create" \in outside[w]
    <3> DEFINE f == [pc EXCEPT ![w] = "run"]
    <3>1. pc[w] = "clear" /\ pc' = Created(f) /\ w \in Actors
      BY <2>3 DEF RunAfterClear, Actors
    <3>2. Makes(w) /\ pc[w] # "starting"
      BY <2>3, <3>1 DEF Makes
    <3>3. NewThread \in Workers /\ pc[NewThread] = "none"
      BY <3>1, <3>2, NewThreadIsFree
    <3>4. f \in [Workers -> PC] /\ f[v] = pc[v]
      BY <2>3 DEF TypeOK, PC
    <3> HIDE DEF f
    <3>5. pc'[NewThread] = "starting" /\ \A u \in Workers : u # NewThread => pc'[u] = f[u]
      BY <3>1, <3>3, <3>4, CreatedFacts
    <3> QED
      BY <3>3, <3>4, <3>5 DEF Wakes
  <2>4. CASE v # w /\ TimedOut(w)
    BY <1>1, <2>4, WorkPc
  <2>5. CASE v # w /\ ~(RunAfterClear(w) /\ "create" \in outside[w]) /\ ~TimedOut(w)
    <3>1. \/ Goes(w, {"starting"}, {"top"}) \/ Goes(w, {"top"}, {"get", "starter", "idler", "finisher"})
          \/ Goes(w, {"starter"}, {"cvStarter", "get"}) \/ Goes(w, {"idler"}, {"cvIdler", "get"})
          \/ Goes(w, {"finisher"}, {"cvFinisher", "get"}) \/ Goes(w, {"get"}, {"signal"})
          \/ Goes(w, {"get"}, {"delete"}) \/ Goes(w, {"get"}, {"top"})
          \/ Goes(w, {"get"}, {"exitDelete", "delete", "waiting"}) \/ Goes(w, {"woken"}, {"top"})
          \/ Goes(w, {"signal"}, {IF outside[w] # {} THEN "clear" ELSE "run"}) \/ Goes(w, {"clear"}, {"run"})
          \/ Goes(w, {"run"}, {"top"}) \/ Goes(w, {"delete"}, {"top"}) \/ Goes(w, {"exitDelete"}, {"exit"})
          \/ Goes(w, {"exit"}, {"exit2"}) \/ Goes(w, {"exit2"}, {"exited"})
      BY <1>5, <2>5, LoopPc, WorkPc, RunPc DEF WorkerStep
    <3> QED
      BY <2>2, <2>5, <3>1
  <2> QED
    BY <2>1, <2>3, <2>4, <2>5
<1> QED
  BY <1>2, <1>3, <1>4, <1>5 DEF Next, PostStep

\* The cleanup goes round REQUESTED, STARTING, RUNNING, FINISHING and DONE.
LEMMA CleanupStep ==
  ASSUME [Next]_vars
  PROVE  \/ UNCHANGED cleanup_state
         \/ \E w \in Workers : HandleCleanup(w) /\ cleanup_state = "REQUESTED" /\ cleanup_state' = "STARTING"
         \/ \E w \in Workers : StarterLoop(w) /\ ~OthersBusy /\ cleanup_state' = "RUNNING" /\ pc' = [pc EXCEPT ![w] = "get"]
         \/ \E w \in Workers : GetWorkCleaned(w) /\ cleanup_state = "RUNNING" /\ cleanup_state' = "FINISHING"
         \/ \E w \in Workers : /\ FinisherLoop(w) /\ cleanup_state = "FINISHING" /\ cleanup_state' = "DONE"
                               /\ cleanup_idlers = 0
         \/ /\ FlushForTesting /\ cleanup_state = "DONE" /\ cleanup_state' = "REQUESTED"
            /\ caller' = "cvFlush" /\ ~shutdown_called
<1> USE DEF vars, poolVars, stateVars, workerVars, callVars
<1>1. CASE UNCHANGED vars \/ Tick \/ CallerStep
  BY <1>1 DEF Tick, CallerStep, FlushLoop, ShutdownLoop
<1>2. CASE FlushForTesting \/ \E n \in 0..MaxNewBlocking : Shutdown(n)
  BY <1>2 DEF FlushForTesting, Shutdown
<1>3. CASE \/ \E w \in Workers, token \in FreshTokens : BindToken(w, token)
           \/ (\E a \in Actors, token \in Tokens \union bound, behavior \in Behavior, delay \in Delays :
                 PostTask(a, token, behavior, delay))
           \/ \E a \in Actors : PostStep(a)
  BY <1>3 DEF BindToken, PostTask, PostStep, PostRefused, PostAccepted, PostSignal, PostCreate
<1>4. CASE \E w \in Workers : HandleCleanup(w)
  BY <1>4 DEF HandleCleanup
<1>5. CASE \E w \in Workers : StarterLoop(w)
  BY <1>5 DEF StarterLoop
<1>6. CASE \E w \in Workers : FinisherLoop(w)
  BY <1>6 DEF FinisherLoop
<1>7. CASE \E w \in Workers : GetWorkCleaned(w)
  BY <1>7 DEF GetWorkCleaned
<1>8. ASSUME NEW w \in Workers, StartThread(w) \/ IdlerLoop(w) \/ GetWorkFound(w) \/ GetWorkCleans(w) \/ GetWorkNotFound(w)
      PROVE  UNCHANGED cleanup_state
  BY <1>8 DEF StartThread, IdlerLoop, GetWorkFound, GetWorkCleans, GetWorkNotFound
<1>9. ASSUME NEW w \in Workers, \/ SignalOthers(w) \/ RunAfterClear(w) \/ Deleted(w) \/ ExitDeleted(w)
                                \/ ExitSignal(w) \/ ExitUnblocksShutdown(w)
                                \/ TimedOut(w) \/ Spurious(w) \/ Resume(w) \/ DidRun(w)
      PROVE  UNCHANGED cleanup_state
  BY <1>9 DEF SignalOthers, RunAfterClear, Deleted, ExitDeleted, ExitSignal, ExitUnblocksShutdown,
              TimedOut, Spurious, Resume, DidRun
<1> QED
  BY <1>1, <1>2, <1>3, <1>4, <1>5, <1>6, <1>7, <1>8, <1>9 DEF Next, WorkerStep

\* The caller is woken, or goes on by itself.
LEMMA CallsOfPoolStep ==
  ASSUME [Next]_vars
  PROVE  \/ /\ UNCHANGED <<flushing, shutdown_called, flushes>>
            /\ UNCHANGED max_blocking_tasks_after_shutdown \/ \E a \in Actors : PostAccepted(a)
            /\ \/ UNCHANGED caller
               \/ caller = "cvFlush" /\ caller' = "flush"
               \/ caller = "cvShutdown" /\ caller' = "shutdown"
         \/ FlushForTesting \/ FlushLoop \/ ShutdownLoop
         \/ \E n \in 0..MaxNewBlocking : NoLatePost(n) /\ Shutdown(n)
<1> DEFINE Kept == /\ UNCHANGED <<flushing, shutdown_called, flushes>>
                   /\ UNCHANGED max_blocking_tasks_after_shutdown \/ \E a \in Actors : PostAccepted(a)
                   /\ \/ UNCHANGED caller
                      \/ caller = "cvFlush" /\ caller' = "flush"
                      \/ caller = "cvShutdown" /\ caller' = "shutdown"
<1> USE DEF vars, poolVars, stateVars, workerVars, callVars
<1>1. CASE UNCHANGED vars \/ Tick
  BY <1>1 DEF Tick
<1>2. CASE \/ \E w \in Workers, token \in FreshTokens : BindToken(w, token)
           \/ (\E a \in Actors, token \in Tokens \union bound, behavior \in Behavior, delay \in Delays :
                 PostTask(a, token, behavior, delay))
           \/ \E a \in Actors : PostStep(a)
  <2>1. ASSUME NEW a \in Actors, PostStep(a) PROVE Kept
    <3>1. CASE PostAccepted(a)
      <4>1. UNCHANGED <<flushing, shutdown_called, flushes, caller>>
        BY <3>1 DEF PostAccepted
      <4> QED
        BY <3>1, <4>1
    <3>2. CASE PostRefused(a) \/ PostSignal(a) \/ PostCreate(a)
      BY <3>2 DEF PostRefused, PostSignal, PostCreate
    <3> QED
      BY <2>1, <3>1, <3>2 DEF PostStep
  <2> QED
    BY <1>2, <2>1 DEF BindToken, PostTask
<1>3. ASSUME NEW w \in Workers, HandleCleanup(w) \/ StarterLoop(w) \/ IdlerLoop(w) PROVE Kept
  BY <1>3 DEF HandleCleanup, StarterLoop, IdlerLoop, WakeCaller
<1>4. ASSUME NEW w \in Workers, FinisherLoop(w) \/ GetWorkCleaned(w) \/ ExitUnblocksShutdown(w) PROVE Kept
  BY <1>4 DEF FinisherLoop, GetWorkCleaned, ExitUnblocksShutdown, WakeCaller, UnblockShutdown, CleanupSignal
<1>5. ASSUME NEW w \in Workers, StartThread(w) \/ GetWorkFound(w) \/ GetWorkCleans(w) \/ GetWorkNotFound(w)
      PROVE  Kept
  BY <1>5 DEF StartThread, GetWorkFound, GetWorkCleans, GetWorkNotFound
<1>6. ASSUME NEW w \in Workers, \/ SignalOthers(w) \/ RunAfterClear(w) \/ Deleted(w) \/ ExitDeleted(w) \/ ExitSignal(w)
                                \/ TimedOut(w) \/ Spurious(w) \/ Resume(w) \/ DidRun(w)
      PROVE  Kept
  BY <1>6 DEF SignalOthers, RunAfterClear, Deleted, ExitDeleted, ExitSignal, TimedOut, Spurious, Resume, DidRun
<1> QED
  BY <1>1, <1>2, <1>3, <1>4, <1>5, <1>6 DEF Next, WorkerStep, CallerStep

\* The worker that begins to clean up finds all the others idle.
LEMMA StarterAlone ==
  ASSUME TypeOK, Frames, WorkerCounts, NEW w \in Workers, pc[w] = "starter", ~OthersBusy
  PROVE  Idlers = threads \ {w} /\ ~thread_being_created
<1>1. ~thread_being_created /\ cleanup_idlers = Cardinality(threads) - 1
  BY DEF OthersBusy
<1>2. w \in threads /\ w \notin Idlers /\ Idlers \subseteq threads /\ threads \in SUBSET Workers
  BY DEF Frames, Frame, Idlers, TypeOK
<1>3. IsFiniteSet(threads) /\ Cardinality(threads) \in Nat
  BY <1>2, WorkersCount
<1>4. IsFiniteSet(threads \ {w}) /\ Cardinality(threads \ {w}) = Cardinality(threads) - 1
  BY <1>2, <1>3, FS_RemoveElement
<1>5. Idlers \in SUBSET (threads \ {w})
  BY <1>2
<1>6. Cardinality(Idlers) = Cardinality(threads \ {w})
  BY <1>1, <1>4 DEF WorkerCounts
<1> QED
  BY <1>1, <1>4, <1>5, <1>6, FS_Subset

\* Where a worker that is a starter or an idler comes from.
LEMMA StarterStep ==
  ASSUME TypeOK, Frames, Creating, WorkerCounts, Cleaning, [Next]_vars, NEW w \in Workers,
         pc'[w] \in {"starter", "cvStarter"}
  PROVE  cleanup_state' = "STARTING"
<1>1. CASE HandleCleanup(w)
  <2>1. pc[w] = "top"
    BY <1>1 DEF HandleCleanup
  <2>2. ASSUME NEW to \in {"get", "idler", "finisher"}, pc' = [pc EXCEPT ![w] = to] \/ pc' = [Broadcast(pc) EXCEPT ![w] = to]
        PROVE  FALSE
    <3>1. pc'[w] = to
      BY <2>2, BroadcastFacts DEF TypeOK
    <3> QED
      BY <3>1
  <2> QED
    BY <1>1, <2>2 DEF HandleCleanup
<1>2. CASE pc[w] \in {"starter", "cvStarter"}
  <2>1. cleanup_state = "STARTING"
    BY <1>2 DEF Cleaning
  <2>2. ASSUME NEW u \in Workers, StarterLoop(u), ~OthersBusy, pc' = [pc EXCEPT ![u] = "get"] PROVE FALSE
    <3>1. pc[u] = "starter"
      BY <2>2 DEF StarterLoop
    <3>2. Idlers = threads \ {u}
      BY <2>2, <3>1, StarterAlone
    <3>3. w \in threads /\ w \notin Idlers
      BY <1>2 DEF Frames, Frame, Idlers
    <3>4. w = u
      BY <3>2, <3>3
    <3>5. pc'[w] = "get"
      BY <2>2, <3>4 DEF TypeOK
    <3> QED
      BY <3>5
  <2>3. UNCHANGED cleanup_state
    BY <2>1, <2>2, CleanupStep
  <2> QED
    BY <2>1, <2>3
<1>3. pc[w] \in {"starter", "cvStarter"} \/ WorkerStep(w)
  BY PcStep DEF Wakes
<1>4. CASE WorkerStep(w)
  <2>1. ASSUME NEW from, NEW to, Goes(w, from, to), to \intersect {"starter", "cvStarter"} = {} PROVE FALSE
    BY <2>1 DEF Goes
  <2>2. ~(StartThread(w) \/ GetWorkFound(w) \/ GetWorkCleans(w) \/ GetWorkCleaned(w) \/ GetWorkNotFound(w))
    BY <2>1, LoopPc, WorkPc
  <2>3. ~(Resume(w) \/ SignalOthers(w) \/ DidRun(w) \/ Deleted(w) \/ ExitDeleted(w) \/ ExitSignal(w)
          \/ ExitUnblocksShutdown(w) \/ IdlerLoop(w) \/ FinisherLoop(w))
    BY <2>1, LoopPc, WorkPc, RunPc
  <2>4. TimedOut(w) => pc[w] \in {"starter", "cvStarter"}
    BY WorkPc DEF Stir, Wakes
  <2>5. ~RunAfterClear(w)
    <3>1. ASSUME RunAfterClear(w) PROVE FALSE
      <4>1. pc[w] = "clear"
        BY <3>1 DEF RunAfterClear
      <4>2. CASE "create" \notin outside[w]
        BY <2>1, <3>1, <4>2, RunPc
      <4>3. CASE "create" \in outside[w]
        <5> DEFINE f == [pc EXCEPT ![w] = "run"]
        <5>1. Makes(w) /\ pc[w] # "starting" /\ w \in Actors
          BY <4>1, <4>3 DEF Makes, Actors
        <5>2. NewThread \in Workers /\ NewThread # w
          BY <5>1, NewThreadIsFree
        <5>3. f \in [Workers -> PC] /\ f[w] = "run" /\ pc' = Created(f)
          BY <3>1, <4>3 DEF TypeOK, PC, RunAfterClear
        <5> HIDE DEF f
        <5>4. pc'[w] = "run"
          BY <5>2, <5>3, CreatedFacts
        <5> QED
          BY <5>4
      <4> QED
        BY <4>2, <4>3
    <3> QED
      BY <3>1
  <2>6. HandleCleanup(w) \/ pc[w] \in {"starter", "cvStarter"}
    BY <1>4, <2>2, <2>3, <2>4, <2>5 DEF WorkerStep, StarterLoop
  <2> QED
    BY <1>1, <1>2, <2>6
<1> QED
  BY <1>2, <1>3, <1>4

\* While the cleanup runs nobody stops being idle.
LEMMA IdlersStay ==
  ASSUME TypeOK, Frames, Creating, [Next]_vars, cleanup_state # "FINISHING"
  PROVE  Idlers \subseteq Idlers'
<1> SUFFICES ASSUME NEW w \in Workers, pc[w] \in {"idler", "cvIdler"}
             PROVE  pc'[w] \in {"idler", "cvIdler"}
  BY DEF Idlers
<1>1. CASE Wakes(pc[w], pc'[w])
  BY <1>1 DEF Wakes
<1>2. CASE WorkerStep(w)
  <2>1. ASSUME NEW from, NEW to, Goes(w, from, to), from \intersect {"idler", "cvIdler"} = {} PROVE FALSE
    BY <2>1 DEF Goes
  <2>2. ~(StartThread(w) \/ GetWorkFound(w) \/ GetWorkCleans(w) \/ GetWorkCleaned(w) \/ GetWorkNotFound(w))
    BY <2>1, LoopPc, WorkPc
  <2>3. ~(Resume(w) \/ HandleCleanup(w) \/ StarterLoop(w) \/ FinisherLoop(w))
    BY <2>1, LoopPc, WorkPc
  <2>4. ~(DidRun(w) \/ Deleted(w) \/ ExitDeleted(w) \/ ExitSignal(w) \/ ExitUnblocksShutdown(w))
    BY <2>1, RunPc
  <2>5. ~TimedOut(w) /\ ~RunAfterClear(w) /\ ~SignalOthers(w)
    BY DEF TimedOut, RunAfterClear, SignalOthers
  <2>6. IdlerLoop(w)
    BY <1>2, <2>2, <2>3, <2>4, <2>5 DEF WorkerStep
  <2>7. pc' = [pc EXCEPT ![w] = "cvIdler"]
    BY <2>6 DEF IdlerLoop
  <2> QED
    BY <2>7 DEF TypeOK
<1> QED
  BY <1>1, <1>2, PcStep

\* A creation begins only when the pool neither shuts down nor cleans up.
LEMMA CreationStep ==
  ASSUME TypeOK, Frames, Creating, [Next]_vars, ~thread_being_created
  PROVE  /\ threads' = threads
         /\ ~thread_being_created' \/ (cleanup_state = "DONE" /\ ~shutdown_called)
<1> USE DEF vars, poolVars, stateVars, workerVars, callVars
<1>1. CASE \/ UNCHANGED vars \/ Tick \/ CallerStep \/ FlushForTesting \/ (\E n \in 0..MaxNewBlocking : Shutdown(n))
           \/ (\E w \in Workers, token \in FreshTokens : BindToken(w, token))
           \/ (\E a \in Actors, token \in Tokens \union bound, behavior \in Behavior, delay \in Delays :
                 PostTask(a, token, behavior, delay))
  <2>1. UNCHANGED <<threads, thread_being_created>>
    BY <1>1 DEF Tick, CallerStep, FlushLoop, ShutdownLoop, FlushForTesting, Shutdown, BindToken, PostTask
  <2> QED
    BY <2>1
<1>2. ASSUME NEW a \in Actors, PostRefused(a) \/ PostSignal(a) \/ PostCreate(a)
      PROVE  UNCHANGED <<threads, thread_being_created>>
  BY <1>2 DEF PostRefused, PostSignal, PostCreate
<1>3. ASSUME NEW a \in Actors, PostAccepted(a)
      PROVE  UNCHANGED threads /\ (UNCHANGED thread_being_created \/ (cleanup_state = "DONE" /\ ~shutdown_called))
  BY <1>3 DEF PostAccepted, NewThreadHelps
<1>4. ASSUME NEW w \in Workers, HandleCleanup(w) \/ StarterLoop(w) \/ IdlerLoop(w) \/ FinisherLoop(w)
      PROVE  UNCHANGED <<threads, thread_being_created>>
  BY <1>4 DEF HandleCleanup, StarterLoop, IdlerLoop, FinisherLoop
<1>5. ASSUME NEW w \in Workers, GetWorkCleans(w) \/ GetWorkCleaned(w) \/ GetWorkNotFound(w)
      PROVE  UNCHANGED <<threads, thread_being_created>>
  BY <1>5 DEF GetWorkCleans, GetWorkCleaned, GetWorkNotFound
<1>6. ASSUME NEW w \in Workers, GetWorkFound(w)
      PROVE  UNCHANGED threads /\ (~thread_being_created' \/ (cleanup_state = "DONE" /\ ~shutdown_called))
  <2>1. UNCHANGED threads /\ thread_being_created' = (thread_being_created \/ NewThreadHelps(pending_tasks', current_sequences'))
    BY <1>6 DEF GetWorkFound
  <2>2. NewThreadHelps(pending_tasks', current_sequences') => cleanup_state = "DONE" /\ ~shutdown_called
    BY DEF NewThreadHelps
  <2> QED
    BY <2>1, <2>2
<1>7. ASSUME NEW w \in Workers, \/ SignalOthers(w) \/ RunAfterClear(w) \/ Deleted(w) \/ ExitDeleted(w)
                                \/ ExitSignal(w) \/ ExitUnblocksShutdown(w)
                                \/ TimedOut(w) \/ Spurious(w) \/ Resume(w) \/ DidRun(w)
      PROVE  UNCHANGED <<threads, thread_being_created>>
  BY <1>7 DEF SignalOthers, RunAfterClear, Deleted, ExitDeleted, ExitSignal, ExitUnblocksShutdown,
              TimedOut, Spurious, Resume, DidRun
<1>8. ASSUME NEW w \in Workers, StartThread(w) PROVE FALSE
  <2>1. Makes(w) /\ w \in Actors
    BY <1>8 DEF StartThread, Makes, Actors
  <2> QED
    BY <2>1 DEF Creating
<1> QED
  BY <1>1, <1>2, <1>3, <1>4, <1>5, <1>6, <1>7, <1>8 DEF Next, PostStep, WorkerStep

LEMMA CleaningStep ==
  ASSUME TypeOK, Frames, Creating, WorkerCounts, Cleaning, [Next]_vars
  PROVE  Cleaning'
<1> USE DEF poolVars, stateVars, workerVars, callVars
<1>1. ASSUME cleanup_state' \in {"DONE", "REQUESTED"} PROVE Idlers' = {}
  <2>1. CASE Idlers = {} /\ cleanup_state \in {"DONE", "REQUESTED"}
    <3>1. ASSUME NEW w \in Workers, HandleCleanup(w) PROVE Idlers' = Idlers
      <4>1. Goes(w, {"top"}, {"get", "starter", "idler", "finisher"})
        BY <3>1, LoopPc
      <4>2. pc' = [pc EXCEPT ![w] = "get"] \/ pc' = [pc EXCEPT ![w] = "starter"]
        BY <2>1, <3>1 DEF HandleCleanup
      <4>3. pc'[w] \notin {"idler", "cvIdler"}
        BY <4>2 DEF TypeOK
      <4> QED
        BY <2>1, <4>1, <4>3, GoesClass
    <3>2. ASSUME NEW w \in Workers, IdlerLoop(w) PROVE FALSE
      BY <2>1, <3>2 DEF IdlerLoop, Idlers
    <3>3. ASSUME NEW w \in Workers, GetWorkNotFound(w) \/ Resume(w) PROVE Idlers' = Idlers
      BY <3>3, WorkPc, GoesClass
    <3>4. Idlers' = Idlers
      BY <3>1, <3>2, <3>3, ClassesStep
    <3> QED
      BY <2>1, <3>4
  <2>2. ASSUME NEW w \in Workers, FinisherLoop(w), cleanup_idlers = 0 PROVE Idlers' = {}
    <3>1. Idlers \in SUBSET Workers
      BY DEF Idlers
    <3>2. Idlers = {}
      BY <2>2, <3>1, WorkersCount, FS_EmptySet DEF WorkerCounts
    <3>3. Goes(w, {"finisher"}, {"cvFinisher", "get"})
      BY <2>2, LoopPc
    <3> QED
      BY <3>2, <3>3, GoesClass
  <2>3. CASE UNCHANGED cleanup_state
    BY <1>1, <2>1, <2>3 DEF Cleaning
  <2>4. CASE FlushForTesting /\ cleanup_state = "DONE"
    BY <2>1, <2>4 DEF Cleaning
  <2> QED
    BY <1>1, <2>2, <2>3, <2>4, CleanupStep
<1>2. cleanup_state' # "STARTING" => \A w \in Workers : pc'[w] \notin {"starter", "cvStarter"}
  BY StarterStep
<1>3. ASSUME cleanup_state' = "RUNNING"
      PROVE  ~thread_being_created' /\ \A v, w \in threads' \ Idlers' : v = w
  <2>1. ASSUME ~thread_being_created, cleanup_state # "DONE", Idlers \subseteq Idlers',
               \A v, w \in threads \ Idlers : v = w
        PROVE  ~thread_being_created' /\ \A v, w \in threads' \ Idlers' : v = w
    <3>1. threads' = threads /\ ~thread_being_created'
      BY <2>1, CreationStep
    <3> QED
      BY <2>1, <3>1
  <2>2. CASE UNCHANGED cleanup_state
    <3>1. cleanup_state = "RUNNING"
      BY <1>3, <2>2
    <3>2. ~thread_being_created /\ \A v, w \in threads \ Idlers : v = w
      BY <3>1 DEF Cleaning
    <3>3. Idlers \subseteq Idlers'
      BY <3>1, IdlersStay
    <3> QED
      BY <2>1, <3>1, <3>2, <3>3
  <2>3. ASSUME NEW w \in Workers, StarterLoop(w), ~OthersBusy
        PROVE  ~thread_being_created' /\ \A u, v \in threads' \ Idlers' : u = v
    <3>1. pc[w] = "starter"
      BY <2>3 DEF StarterLoop
    <3>2. Idlers = threads \ {w} /\ ~thread_being_created
      BY <2>3, <3>1, StarterAlone
    <3>3. cleanup_state = "STARTING"
      BY <3>1 DEF Cleaning
    <3>4. Idlers \subseteq Idlers'
      BY <3>3, IdlersStay
    <3> QED
      BY <2>1, <3>2, <3>3, <3>4
  <2> QED
    BY <1>3, <2>2, <2>3, CleanupStep
<1>4. ASSUME cleanup_state' # "DONE"
      PROVE  ~shutdown_called' /\ caller' \in {"cvFlush", "flush"}
  <2>1. CASE cleanup_state # "DONE"
    <3>1. ~shutdown_called /\ caller \in {"cvFlush", "flush"}
      BY <2>1 DEF Cleaning
    <3>2. ~FlushForTesting /\ ~ShutdownLoop /\ \A n \in 0..MaxNewBlocking : ~Shutdown(n)
      BY <3>1 DEF FlushForTesting, ShutdownLoop, Shutdown
    <3>3. CASE FlushLoop
      BY <2>1, <3>1, <3>3 DEF FlushLoop
    <3>4. CASE ~FlushLoop
      BY <3>1, <3>2, <3>4, CallsOfPoolStep
    <3> QED
      BY <3>3, <3>4
  <2>2. CASE cleanup_state = "DONE"
    <3>0. \A w \in Workers : ~StarterLoop(w)
      BY <2>2 DEF StarterLoop, Cleaning
    <3>1. FlushForTesting /\ caller' = "cvFlush" /\ ~shutdown_called
      BY <1>4, <2>2, <3>0, CleanupStep
    <3>2. UNCHANGED shutdown_called
      BY <3>1 DEF FlushForTesting
    <3> QED
      BY <3>1, <3>2
  <2> QED
    BY <2>1, <2>2
<1> QED
  BY <1>1, <1>2, <1>3, <1>4 DEF Cleaning

------------------------------------------------------------------------------
(* What FlushForTesting promises *)

\* A nonempty set of natural numbers has a least one.
LEMMA NatMin ==
  ASSUME NEW T, T \subseteq Nat, T # {}
  PROVE  \E x \in T : \A y \in T : x <= y
<1> DEFINE R == OpToRel(<, Nat)
<1>1. IsWellFoundedOn(R, Nat)
  BY NatLessThanWellFounded
<1>2. \A x, y \in Nat : y < x => <<y, x>> \in R
  BY DEF OpToRel
<1> HIDE DEF R
<1>3. PICK x \in T : \A y \in T : ~ (<<y, x>> \in R)
  BY <1>1, WFMin
<1>4. ASSUME NEW y \in T PROVE x <= y
  <2>1. x \in Nat /\ y \in Nat
    OBVIOUS
  <2>2. ~(y < x)
    BY <1>2, <1>3, <2>1
  <2> QED
    BY <2>1, <2>2
<1> QED
  BY <1>4

\* GetWork finds a first task whenever there is one to run: SequencedTaskLessThan is a
\* total order on the tasks in the pool.
LEMMA FirstExists ==
  ASSUME TypeOK, Numbered, NEW S \in SUBSET pending_tasks, S # {}
  PROVE  \E t \in S : \A u \in S : u = t \/ Before(t, u)
<1>1. \A t \in S : t.time \in Nat /\ t.seq \in Nat
  BY Bounds DEF TaskFields
<1>2. PICK m \in {t.time : t \in S} : \A y \in {t.time : t \in S} : m <= y
  <2>1. {t.time : t \in S} \subseteq Nat /\ {t.time : t \in S} # {}
    BY <1>1
  <2> QED
    BY <2>1, NatMin
<1> DEFINE F == {t \in S : t.time = m}
<1>3. PICK k \in {t.seq : t \in F} : \A y \in {t.seq : t \in F} : k <= y
  <2>1. {t.seq : t \in F} \subseteq Nat /\ {t.seq : t \in F} # {}
    BY <1>1, <1>2
  <2> QED
    BY <2>1, NatMin
<1>4. PICK t \in F : t.seq = k
  BY <1>3
<1>5. ASSUME NEW u \in S PROVE u = t \/ Before(t, u)
  <2>1. m <= u.time /\ m \in Nat /\ u.time \in Nat /\ t.time = m /\ k \in Nat /\ u.seq \in Nat /\ t.seq = k
    BY <1>1, <1>2, <1>4
  <2>2. CASE u.time # m
    BY <2>1, <2>2 DEF Before
  <2>3. CASE u.time = m
    <3>1. k <= u.seq
      BY <1>3, <2>3
    <3>2. CASE u.seq = k
      BY <2>1, <3>2 DEF Numbered
    <3>3. CASE u.seq # k
      BY <2>1, <2>3, <3>1, <3>3 DEF Before
    <3> QED
      BY <3>2, <3>3
  <2> QED
    BY <2>2, <2>3
<1> QED
  BY <1>4, <1>5

\* The cleanup ends only when the pool is empty.
LEMMA CleanedPool ==
  ASSUME TypeOK, Frames, Numbered, OneTaskPerToken, Cleaning, NEW w \in Workers, GetWorkCleaned(w)
  PROVE  pending_tasks = {} /\ Busy = {}
<1>1. pc[w] = "get" /\ NoWork /\ cleanup_state = "RUNNING" /\ Discarded = {}
  BY DEF GetWorkCleaned
<1>2. ~shutdown_called /\ \A u, v \in threads \ Idlers : u = v
  BY <1>1 DEF Cleaning
<1>3. w \in threads \ Idlers
  BY <1>1 DEF Frames, Frame, Idlers
<1>4. Busy = {}
  <2>1. ASSUME NEW v \in Busy PROVE FALSE
    <3>1. v \in Workers /\ pc[v] \in {"signal", "clear", "run"}
      BY DEF Busy, Frames, Frame
    <3>2. v \in threads \ Idlers
      BY <3>1 DEF Frames, Frame, Idlers
    <3>3. v = w
      BY <1>2, <1>3, <3>2
    <3> QED
      BY <1>1, <3>1, <3>3
  <2> QED
    BY <2>1
<1>5. current_sequences = {}
  BY <1>4 DEF OneTaskPerToken
<1>6. Runnable = pending_tasks /\ Skipped = {}
  BY <1>2, <1>5 DEF Runnable, Skipped, IsSequenceTokenRunnable
<1>7. ASSUME pending_tasks # {} PROVE FALSE
  <2>1. pending_tasks \in SUBSET pending_tasks
    OBVIOUS
  <2>2. PICK t \in pending_tasks : \A u \in pending_tasks : u = t \/ Before(t, u)
    BY <1>7, <2>1, FirstExists
  <2>3. IsFirst(t)
    BY <1>6, <2>2 DEF IsFirst
  <2>4. NotDue(t)
    BY <1>1, <2>3 DEF NotDue, NoWork
  <2>5. t \in Discarded
    BY <1>1, <2>4 DEF Discarded
  <2> QED
    BY <1>1, <2>5
<1> QED
  BY <1>4, <1>7

\* With every thread waiting for work nobody has a task.
LEMMA AllWait ==
  ASSUME TypeOK, Frames, WorkerCounts, waiting_thread_count = Cardinality(threads)
  PROVE  Busy = {}
<1>1. Waiters \in SUBSET threads /\ threads \in SUBSET Workers
  BY DEF Waiters, Frames, Frame, TypeOK
<1>2. IsFiniteSet(threads) /\ Cardinality(Waiters) = Cardinality(threads)
  BY <1>1, WorkersCount DEF WorkerCounts
<1>3. Waiters = threads
  BY <1>1, <1>2, FS_Subset
<1> QED
  BY <1>3 DEF Busy, Waiters, Frames, Frame

\* What is in the pool is numbered below the next number, and the only number that enters
\* the pool is that one.
LEMMA InPoolStep ==
  ASSUME TypeOK, Frames, Numbered, [Next]_vars
  PROVE  /\ \A n \in InPool : n \in Nat /\ n < next_sequence_task_number
         /\ InPool' \subseteq InPool \union {next_sequence_task_number}
<1>1. ASSUME NEW n \in InPool PROVE n \in Nat /\ n < next_sequence_task_number
  BY Bounds DEF InPool, Numbered, Busy, TaskFields
<1>2. ASSUME NEW t \in pending_tasks' PROVE t.seq \in InPool \union {next_sequence_task_number}
  <2>1. t \in pending_tasks \/ t.seq = next_sequence_task_number
    BY AcceptedFacts, PoolStep
  <2> QED
    BY <2>1 DEF InPool
<1>3. ASSUME NEW w \in Workers, task'[w] # NoTask PROVE task'[w].seq \in InPool
  BY <1>3, RunsStep DEF RunGoesOn, RunBegins, InPool
<1>4. InPool' \subseteq InPool \union {next_sequence_task_number}
  <2>1. InPool' = {t.seq : t \in pending_tasks'} \union {task'[w].seq : w \in {v \in Workers : task'[v] # NoTask}}
    BY DEF InPool
  <2> QED
    BY <1>2, <1>3, <2>1
<1> QED
  BY <1>1, <1>4

LEMMA FlushingStep ==
  ASSUME TypeOK, Frames, WorkerCounts, Numbered, OneTaskPerToken, Cleaning, Flushing, [Next]_vars
  PROVE  Flushing'
<1> DEFINE n == next_sequence_task_number
<1> USE DEF poolVars, stateVars, workerVars, callVars
<1>1. n \in Nat /\ n' \in Nat /\ n <= n'
  <2>1. n' = n \/ n' = n + 1
    BY AcceptedFacts, NumberStep
  <2> QED
    BY <2>1, Bounds
<1>2. flushing \subseteq Nat /\ \A k \in flushing : k < n
  BY DEF TypeOK, Flushing
<1>3. /\ \A k \in InPool : k \in Nat /\ k < n
      /\ InPool' \subseteq InPool \union {n}
  BY InPoolStep
<1>4. flushing' = flushing \/ flushing' = {} \/ flushing' = InPool
  BY CallsOfPoolStep DEF FlushForTesting, FlushLoop, ShutdownLoop, Shutdown
<1>5. \A k \in flushing' : k < n'
  <2>1. \A k \in flushing' : k \in Nat /\ k < n
    BY <1>2, <1>3, <1>4
  <2> QED
    BY <1>1, <2>1
<1> HIDE DEF n
<1>6. ASSUME flushing \intersect InPool = {}, flushing' \subseteq flushing PROVE flushing' \intersect InPool' = {}
  <2>1. n \notin flushing
    BY <1>1, <1>2
  <2> QED
    BY <1>3, <1>6, <2>1
<1>7. ASSUME caller' \in {"cvFlush", "flush"}, cleanup_state' \in {"FINISHING", "DONE"}
      PROVE  flushing' \intersect InPool' = {}
  <2>1. CASE FlushForTesting
    <3>1. pending_tasks = {} /\ waiting_thread_count = Cardinality(threads) /\ UNCHANGED <<pending_tasks, task>>
      BY <1>7, <2>1 DEF FlushForTesting
    <3>2. Busy = {}
      BY <3>1, AllWait
    <3>3. InPool' = {}
      BY <3>1, <3>2 DEF InPool, Busy
    <3> QED
      BY <3>3
  <2>2. CASE ~FlushForTesting
    <3>1. caller \in {"cvFlush", "flush"} /\ flushing' \subseteq flushing
      BY <1>7, <2>2, CallsOfPoolStep DEF FlushLoop, ShutdownLoop, Shutdown
    <3>2. CASE cleanup_state \in {"FINISHING", "DONE"}
      BY <1>6, <3>1, <3>2 DEF Flushing
    <3>3. ASSUME NEW w \in Workers, GetWorkCleaned(w) PROVE flushing' \intersect InPool' = {}
      <4>1. pending_tasks = {} /\ Busy = {}
        BY <3>3, CleanedPool
      <4>2. UNCHANGED <<pending_tasks, task>>
        BY <3>3 DEF GetWorkCleaned
      <4>3. InPool' = {}
        BY <4>1, <4>2 DEF InPool, Busy
      <4> QED
        BY <4>3
    <3> QED
      BY <1>7, <2>2, <3>2, <3>3, CleanupStep
  <2> QED
    BY <2>1, <2>2
<1> QED
  BY <1>5, <1>7 DEF Flushing, n

------------------------------------------------------------------------------
(* What Shutdown promises *)

LEMMA OriginsStep ==
  ASSUME TypeOK, Frames, Creating, Origins, [Next]_vars
  PROVE  Origins'
<1> USE DEF poolVars, stateVars, workerVars, callVars
<1>1. ASSUME NEW a \in Actors, post'[a] # NoTask, post'[a].origin = "task"
      PROVE  a \in Workers /\ pc'[a] = "run"
  <2>1. CASE CallGoesOn(a)
    <3>1. post[a] # NoTask /\ a \in Workers /\ pc[a] = "run"
      BY <1>1, <2>1 DEF CallGoesOn, Origins
    <3>2. CASE WorkerStep(a)
      <4>1. ASSUME NEW from, NEW to, Goes(a, from, to), "run" \notin from PROVE FALSE
        BY <3>1, <4>1 DEF Goes
      <4>2. ~(StartThread(a) \/ GetWorkFound(a) \/ GetWorkCleans(a) \/ GetWorkCleaned(a) \/ GetWorkNotFound(a))
        BY <3>1, <4>1, LoopPc, WorkPc
      <4>3. ~(Resume(a) \/ HandleCleanup(a) \/ StarterLoop(a) \/ IdlerLoop(a) \/ FinisherLoop(a))
        BY <3>1, <4>1, LoopPc, WorkPc
      <4>4. ~(Deleted(a) \/ ExitDeleted(a) \/ ExitSignal(a) \/ ExitUnblocksShutdown(a))
        BY <3>1, <4>1, RunPc
      <4>5. ~TimedOut(a) /\ ~RunAfterClear(a) /\ ~SignalOthers(a) /\ ~DidRun(a)
        BY <3>1 DEF TimedOut, RunAfterClear, SignalOthers, DidRun
      <4> QED
        BY <3>2, <4>2, <4>3, <4>4, <4>5 DEF WorkerStep
    <3>3. CASE ~WorkerStep(a)
      <4>1. Wakes(pc[a], pc'[a])
        BY <3>1, <3>3, PcStep
      <4> QED
        BY <3>1, <4>1 DEF Wakes
    <3> QED
      BY <3>2, <3>3
  <2>2. CASE CallBegins(a)
    <3>1. PICK token \in Tokens \union bound, behavior \in Behavior, delay \in Delays : PostTask(a, token, behavior, delay)
      BY <2>2 DEF CallBegins
    <3>2. Origin(a) = "task" /\ UNCHANGED pc
      BY <1>1, <3>1, CallFacts DEF PostTask
    <3>3. a \in Workers /\ pc[a] = "run"
      BY <3>2 DEF Origin, Actors
    <3> QED
      BY <3>2, <3>3
  <2> QED
    BY <1>1, <2>1, <2>2, CallsStep
<1>2. ASSUME NEW a \in Actors, post'[a] # NoTask, shutdown_called',
             max_blocking_tasks_after_shutdown' > 0, post'[a].stage = "lock"
      PROVE  post'[a].origin \in LatePosters
  <2>1. ASSUME NEW n \in 0..MaxNewBlocking, NoLatePost(n), Shutdown(n) PROVE post'[a].origin \in LatePosters
    BY <1>2, <2>1 DEF NoLatePost, Shutdown
  <2>2. CASE UNCHANGED shutdown_called /\ max_blocking_tasks_after_shutdown > 0
    <3>1. CASE CallGoesOn(a)
      BY <1>2, <2>2, <3>1 DEF CallGoesOn, Origins
    <3>2. CASE CallBegins(a)
      <4>1. post'[a].origin = Origin(a) /\ MayPost(a)
        BY <3>2, CallFacts DEF CallBegins
      <4> QED
        BY <1>2, <2>2, <4>1 DEF MayPost
    <3> QED
      BY <1>2, <3>1, <3>2, CallsStep
  <2>3. ASSUME UNCHANGED shutdown_called, NEW b \in Actors, PostAccepted(b)
        PROVE  max_blocking_tasks_after_shutdown > 0
    <3>1. max_blocking_tasks_after_shutdown' = max_blocking_tasks_after_shutdown - 1
      BY <1>2, <2>3 DEF PostAccepted, One
    <3> QED
      BY <1>2, <3>1 DEF TypeOK
  <2>4. CASE UNCHANGED <<shutdown_called, max_blocking_tasks_after_shutdown>>
    BY <1>2, <2>2, <2>4
  <2> QED
    BY <2>1, <2>2, <2>3, <2>4, CallsOfPoolStep DEF FlushForTesting, FlushLoop, ShutdownLoop
<1> QED
  BY <1>1, <1>2 DEF Origins

\* Once Shutdown was called, only a task that blocks shutdown is taken.
LEMMA TakenAfterShutdown ==
  ASSUME TypeOK, Frames, NEW w \in Workers, GetWorkFound(w), shutdown_called
  PROVE  task'[w] \in BlockingPending
<1>1. PICK t \in pending_tasks : IsFirst(t) /\ task'[w] = t
  BY TakenFacts
<1>2. t \in Runnable /\ t \notin Skipped
  BY <1>1 DEF IsFirst
<1>3. Blocks(t.behavior)
  BY <1>2 DEF Skipped
<1> QED
  BY <1>1, <1>3 DEF BlockingPending

LEMMA ClosedStep ==
  ASSUME TypeOK, Frames, Creating, TaskCounts, Numbered, Origins, Closed, [Next]_vars
  PROVE  Closed'
<1> USE DEF poolVars, stateVars, workerVars, callVars
<1>1. caller' \in {"cvShutdown", "shutdown", "returned"} => shutdown_called'
  <2>1. CASE FlushForTesting \/ FlushLoop
    BY <2>1 DEF FlushForTesting, FlushLoop
  <2>2. CASE \E n \in 0..MaxNewBlocking : Shutdown(n)
    BY <2>2 DEF Shutdown
  <2>3. CASE ShutdownLoop
    <3>1. caller = "shutdown" /\ UNCHANGED shutdown_called
      BY <2>3 DEF ShutdownLoop
    <3> QED
      BY <3>1 DEF Closed
  <2>4. CASE /\ UNCHANGED shutdown_called
             /\ UNCHANGED caller \/ (caller = "cvFlush" /\ caller' = "flush") \/ (caller = "cvShutdown" /\ caller' = "shutdown")
    BY <2>4 DEF Closed
  <2> QED
    BY <2>1, <2>2, <2>3, <2>4, CallsOfPoolStep
<1>2. ASSUME caller' = "returned", OnlyTasksAreLate
      PROVE  BlockingPending' = {} /\ Holders' = {} /\ ~thread_being_created'
  <2>1. CASE caller = "returned"
    <3>1. shutdown_called /\ BlockingPending = {} /\ Holders = {} /\ ~thread_being_created
      BY <1>2, <2>1 DEF Closed
    <3>2. ASSUME NEW a \in Actors, PostAccepted(a) PROVE FALSE
      <4>1. post[a] # NoTask /\ post[a].stage = "lock" /\ ~Refused(a)
        BY <3>2, AcceptedFacts
      <4> max_blocking_tasks_after_shutdown > 0 /\ MaxNewBlocking # 0
        BY <3>1, <4>1 DEF Refused, LimitReached, TypeOK
      <4>2. post[a].origin = "task" /\ a \in Workers /\ pc[a] = "run"
        BY <1>2, <3>1, <4>1 DEF Origins, OnlyTasksAreLate
      <4>3. Blocks(task[a].behavior)
        BY <3>1, <4>1, <4>2 DEF Refused
      <4>4. task[a] # NoTask
        BY <4>2 DEF Frames, Frame
      <4>5. a \in Holders
        BY <4>2, <4>3, <4>4 DEF Holders, HoldsShutdown, Blocks
      <4> QED
        BY <3>1, <4>5
    <3>3. pending_tasks' \subseteq pending_tasks
      BY <3>2, PoolStep
    <3>4. BlockingPending' = {}
      BY <3>1, <3>3 DEF BlockingPending
    <3>5. ASSUME NEW w \in Holders' PROVE FALSE
      <4>1. w \in Workers /\ task'[w] # NoTask /\ HoldsShutdown(task'[w])
        BY DEF Holders
      <4>2. CASE RunGoesOn(w)
        <5>1. w \in Holders
          BY <4>1, <4>2 DEF Holders, HoldsShutdown, RunGoesOn
        <5> QED
          BY <3>1, <5>1
      <4>3. CASE RunBegins(w)
        BY <3>1, <4>1, <4>3, TakenAfterShutdown DEF RunBegins
      <4> QED
        BY <4>1, <4>2, <4>3, RunsStep
    <3>6. ~thread_being_created'
      BY <3>1, CreationStep
    <3> QED
      BY <3>4, <3>5, <3>6
  <2>2. CASE CanShutdown /\ UNCHANGED <<pending_tasks, task, thread_being_created>>
    <3>1. ~thread_being_created /\ Cardinality(Holders) = 0 /\ Cardinality(BlockingPending) = 0
      BY <2>2 DEF CanShutdown, TaskCounts
    <3>2. Holders \in SUBSET Workers /\ BlockingPending \in SUBSET pending_tasks /\ IsFiniteSet(pending_tasks)
      BY DEF Holders, BlockingPending, TaskCounts
    <3>3. IsFiniteSet(Holders) /\ IsFiniteSet(BlockingPending)
      BY <3>2, WorkersCount, FS_Subset
    <3>4. Holders = {} /\ BlockingPending = {}
      BY <3>1, <3>3, FS_EmptySet
    <3>5. UNCHANGED <<Holders, BlockingPending>>
      BY <2>2 DEF Holders, BlockingPending
    <3> QED
      BY <2>2, <3>1, <3>4, <3>5
  <2>3. CASE ShutdownLoop \/ \E n \in 0..MaxNewBlocking : Shutdown(n)
    BY <1>2, <2>2, <2>3 DEF ShutdownLoop, Shutdown
  <2> QED
    BY <1>2, <2>1, <2>3, CallsOfPoolStep DEF FlushForTesting, FlushLoop
<1> QED
  BY <1>1, <1>2 DEF Closed

------------------------------------------------------------------------------
(* Types *)

LEMMA PcTypeStep ==
  ASSUME TypeOK, Frames, Creating, [Next]_vars
  PROVE  pc' \in [Workers -> PC]
<1> USE DEF poolVars, stateVars, workerVars, callVars
<1>1. CASE \/ UNCHANGED vars \/ Tick \/ CallerStep \/ (\E w \in Workers, token \in FreshTokens : BindToken(w, token))
           \/ (\E a \in Actors, token \in Tokens \union bound, behavior \in Behavior, delay \in Delays :
                 PostTask(a, token, behavior, delay))
           \/ \E a \in Actors : PostRefused(a) \/ PostAccepted(a)
  <2>1. UNCHANGED pc
    BY <1>1 DEF vars, Tick, CallerStep, FlushLoop, ShutdownLoop, BindToken, PostTask, PostRefused, PostAccepted
  <2> QED
    BY <2>1 DEF TypeOK
<1>2. CASE \/ FlushForTesting \/ (\E n \in 0..MaxNewBlocking : Shutdown(n))
           \/ (\E a \in Actors : PostSignal(a)) \/ \E w \in Workers : TimedOut(w) \/ Spurious(w)
  <2>1. Stir
    BY <1>2, OtherPc, WorkPc
  <2> QED
    BY <2>1 DEF Stir
<1>3. ASSUME NEW a \in Actors, PostCreate(a) PROVE pc' \in [Workers -> PC]
  <2>1. post[a] # NoTask /\ post[a].stage = "create" /\ pc' = Created(pc) /\ pc \in [Workers -> PC]
    BY <1>3 DEF PostCreate, TypeOK
  <2>2. Makes(a) /\ ~(a \in Workers /\ pc[a] = "starting")
    BY <2>1 DEF Makes, Frames, Frame
  <2> QED
    BY <2>1, <2>2, NewThreadIsFree, CreatedFacts
<1>4. ASSUME NEW w \in Workers, NEW from, NEW to, Goes(w, from, to) PROVE pc' \in [Workers -> PC]
  BY <1>4 DEF Goes
<1>5. ASSUME NEW w \in Workers, RunAfterClear(w) PROVE pc' \in [Workers -> PC]
  <2>1. CASE "create" \notin outside[w]
    BY <1>4, <1>5, <2>1, RunPc
  <2>2. CASE "create" \in outside[w]
    <3> DEFINE f == [pc EXCEPT ![w] = "run"]
    <3>1. pc[w] = "clear" /\ pc' = Created(f) /\ w \in Actors
      BY <1>5, <2>2 DEF RunAfterClear, Actors
    <3>2. Makes(w) /\ pc[w] # "starting"
      BY <2>2, <3>1 DEF Makes
    <3>3. f \in [Workers -> PC]
      BY DEF TypeOK, PC
    <3> HIDE DEF f
    <3> QED
      BY <3>1, <3>2, <3>3, NewThreadIsFree, CreatedFacts
  <2> QED
    BY <2>1, <2>2
<1>6. ASSUME NEW w \in Workers, \/ StartThread(w) \/ HandleCleanup(w) \/ StarterLoop(w) \/ IdlerLoop(w) \/ FinisherLoop(w)
      PROVE  pc' \in [Workers -> PC]
  BY <1>4, <1>6, LoopPc
<1>7. ASSUME NEW w \in Workers, \/ GetWorkFound(w) \/ GetWorkCleans(w) \/ GetWorkCleaned(w) \/ GetWorkNotFound(w) \/ Resume(w)
      PROVE  pc' \in [Workers -> PC]
  BY <1>4, <1>7, WorkPc
<1>8. ASSUME NEW w \in Workers, \/ SignalOthers(w) \/ DidRun(w) \/ Deleted(w) \/ ExitDeleted(w) \/ ExitSignal(w)
                                \/ ExitUnblocksShutdown(w)
      PROVE  pc' \in [Workers -> PC]
  BY <1>4, <1>8, RunPc
<1> QED
  BY <1>1, <1>2, <1>3, <1>5, <1>6, <1>7, <1>8 DEF Next, PostStep, WorkerStep

\* The variables that only the workers' steps touch.
LEMMA LocalTypeStep ==
  ASSUME TypeOK, Frames, [Next]_vars
  PROVE  /\ lock' \in Workers \union {NoOne}
         /\ outside' \in [Workers -> SUBSET {"delete", "create"}]
         /\ wake_time' \in [Workers -> Int]
         /\ threads' \subseteq Workers
         /\ thread_being_created' \in BOOLEAN
<1> DEFINE Goal == /\ lock' \in Workers \union {NoOne}
                   /\ outside' \in [Workers -> SUBSET {"delete", "create"}]
                   /\ wake_time' \in [Workers -> Int]
                   /\ threads' \subseteq Workers
<1>0. /\ lock \in Workers \union {NoOne} /\ outside \in [Workers -> SUBSET {"delete", "create"}]
      /\ wake_time \in [Workers -> Int] /\ threads \subseteq Workers
  BY DEF TypeOK
<1> USE DEF vars, poolVars, stateVars, workerVars, callVars
<1>1. ASSUME \/ UNCHANGED vars \/ Tick \/ CallerStep \/ FlushForTesting \/ (\E n \in 0..MaxNewBlocking : Shutdown(n))
             \/ (\E w \in Workers, token \in FreshTokens : BindToken(w, token))
             \/ (\E a \in Actors, token \in Tokens \union bound, behavior \in Behavior, delay \in Delays :
                   PostTask(a, token, behavior, delay))
             \/ \E a \in Actors : PostStep(a)
      PROVE  Goal
  <2>1. UNCHANGED <<lock, outside, wake_time, threads>>
    BY <1>1 DEF Tick, CallerStep, FlushLoop, ShutdownLoop, FlushForTesting, Shutdown, BindToken, PostTask,
                PostStep, PostRefused, PostAccepted, PostSignal, PostCreate
  <2> QED
    BY <1>0, <2>1
<1>2. ASSUME NEW w \in Workers, \/ HandleCleanup(w) \/ StarterLoop(w) \/ IdlerLoop(w) \/ FinisherLoop(w) \/ GetWorkCleaned(w)
                                \/ DidRun(w) \/ StartThread(w) \/ SignalOthers(w) \/ ExitSignal(w)
                                \/ ExitUnblocksShutdown(w) \/ TimedOut(w) \/ Spurious(w)
      PROVE  Goal
  <2>1. lock' \in {lock, w, NoOne} /\ UNCHANGED <<outside, wake_time>> /\ (UNCHANGED threads \/ threads' = threads \union {w})
    BY <1>2 DEF HandleCleanup, StarterLoop, IdlerLoop, FinisherLoop, GetWorkCleaned, DidRun, StartThread, SignalOthers,
                ExitSignal, ExitUnblocksShutdown, TimedOut, Spurious
  <2> QED
    BY <1>0, <2>1
<1>3. ASSUME NEW w \in Workers, RunAfterClear(w) \/ Deleted(w) \/ ExitDeleted(w) PROVE Goal
  <2>1. lock' \in {lock, w} /\ UNCHANGED <<threads, wake_time>> /\ outside' = [outside EXCEPT ![w] = {}]
    BY <1>3 DEF RunAfterClear, Deleted, ExitDeleted
  <2> QED
    BY <1>0, <2>1
<1>4. ASSUME NEW w \in Workers, Resume(w) PROVE Goal
  <2>1. lock' = w /\ UNCHANGED <<threads, outside>> /\ wake_time' = [wake_time EXCEPT ![w] = -1]
    BY <1>4 DEF Resume
  <2> QED
    BY <1>0, <2>1
<1>5. ASSUME NEW w \in Workers, GetWorkFound(w) \/ GetWorkCleans(w) PROVE Goal
  <2>1. lock' = NoOne /\ UNCHANGED <<threads, wake_time>>
    BY <1>5 DEF GetWorkFound, GetWorkCleans
  <2>2. PICK b \in SUBSET {"delete", "create"} : outside' = [outside EXCEPT ![w] = b]
    BY <1>5 DEF GetWorkFound, GetWorkCleans, Todo
  <2> QED
    BY <1>0, <2>1, <2>2
<1>6. ASSUME NEW w \in Workers, GetWorkNotFound(w) PROVE Goal
  <2>1. lock' = NoOne /\ UNCHANGED threads /\ (UNCHANGED wake_time \/ wake_time' = [wake_time EXCEPT ![w] = WaitTime])
    BY <1>6 DEF GetWorkNotFound
  <2>2. PICK b \in SUBSET {"delete", "create"} : outside' = [outside EXCEPT ![w] = b]
    BY <1>6 DEF GetWorkNotFound, Todo
  <2>3. WaitTime \in Int
    <3>1. CASE \E t \in pending_tasks : NotDue(t)
      <4> DEFINE c == CHOOSE t \in pending_tasks : NotDue(t)
      <4>1. c \in pending_tasks
        BY <3>1
      <4>2. c.time \in Nat
        BY <4>1, Bounds DEF TaskFields
      <4> QED
        BY <3>1, <4>2 DEF WaitTime
    <3>2. CASE ~ \E t \in pending_tasks : NotDue(t)
      BY <3>2 DEF WaitTime
    <3> QED
      BY <3>1, <3>2
  <2> QED
    BY <1>0, <2>1, <2>2, <2>3
<1>7. Goal
  BY <1>1, <1>2, <1>3, <1>4, <1>5, <1>6 DEF Next, WorkerStep
<1>8. thread_being_created' \in BOOLEAN
  <2>0. thread_being_created \in BOOLEAN
    BY DEF TypeOK
  <2>1. CASE UNCHANGED thread_being_created
    BY <2>0, <2>1
  <2>2. ASSUME NEW a \in Actors, PostStep(a) PROVE UNCHANGED thread_being_created \/ thread_being_created' = TRUE
    BY <2>2 DEF PostStep, PostRefused, PostAccepted, PostSignal, PostCreate
  <2>3. CASE \/ UNCHANGED vars \/ Tick \/ CallerStep \/ FlushForTesting \/ (\E n \in 0..MaxNewBlocking : Shutdown(n))
             \/ (\E w \in Workers, token \in FreshTokens : BindToken(w, token))
             \/ (\E a \in Actors, token \in Tokens \union bound, behavior \in Behavior, delay \in Delays :
                   PostTask(a, token, behavior, delay))
    <3>1. UNCHANGED thread_being_created
      BY <2>3 DEF Tick, CallerStep, FlushLoop, ShutdownLoop, FlushForTesting, Shutdown, BindToken, PostTask
    <3> QED
      BY <2>1, <3>1
  <2>4. ASSUME NEW w \in Workers, HandleCleanup(w) \/ StarterLoop(w) \/ IdlerLoop(w) \/ FinisherLoop(w) \/ GetWorkCleaned(w)
        PROVE  UNCHANGED thread_being_created
    BY <2>4 DEF HandleCleanup, StarterLoop, IdlerLoop, FinisherLoop, GetWorkCleaned
  <2>5. ASSUME NEW w \in Workers, \/ DidRun(w) \/ SignalOthers(w) \/ ExitSignal(w) \/ ExitUnblocksShutdown(w) \/ TimedOut(w)
                                  \/ Spurious(w) \/ RunAfterClear(w) \/ Deleted(w) \/ ExitDeleted(w)
        PROVE  UNCHANGED thread_being_created
    BY <2>5 DEF DidRun, SignalOthers, ExitSignal, ExitUnblocksShutdown, TimedOut, Spurious, RunAfterClear, Deleted,
                ExitDeleted
  <2>6. ASSUME NEW w \in Workers, GetWorkCleans(w) \/ GetWorkNotFound(w) \/ Resume(w) PROVE UNCHANGED thread_being_created
    BY <2>6 DEF GetWorkCleans, GetWorkNotFound, Resume
  <2>7. ASSUME NEW w \in Workers, StartThread(w) PROVE thread_being_created' = FALSE
    BY <2>7 DEF StartThread
  <2>8. ASSUME NEW w \in Workers, GetWorkFound(w) PROVE thread_being_created' \in BOOLEAN
    <3>1. thread_being_created' = (thread_being_created \/ NewThreadHelps(pending_tasks', current_sequences'))
      BY <2>8 DEF GetWorkFound
    <3> QED
      BY <3>1
  <2> QED
    BY <2>1, <2>2, <2>3, <2>4, <2>5, <2>6, <2>7, <2>8 DEF Next, WorkerStep
<1> QED
  BY <1>7, <1>8

LEMMA TypeStep ==
  ASSUME IInv, [Next]_vars,
         Frames', TaskCounts', WorkerCounts', Posting', OneTaskPerToken'
  PROVE  TypeOK'
<1>0. /\ TypeOK /\ Frames /\ Creating /\ Numbered
  BY DEF IInv
<1> USE DEF poolVars, stateVars, workerVars, callVars
<1>1. pc' \in [Workers -> PC]
  BY <1>0, PcTypeStep
<1>2. /\ lock' \in Workers \union {NoOne} /\ outside' \in [Workers -> SUBSET {"delete", "create"}]
      /\ wake_time' \in [Workers -> Int] /\ threads' \subseteq Workers /\ thread_being_created' \in BOOLEAN
  BY <1>0, LocalTypeStep
<1>3. now' \in 0..MaxTime /\ bound' \subseteq FreshTokens
  BY <1>0, ClockStep
<1>4. pending_tasks' \subseteq Task
  <2>1. pending_tasks \subseteq Task
    BY <1>0 DEF TypeOK
  <2> QED
    BY <1>0, <2>1, PoolStep, AcceptedFacts
<1>5. task' \in [Workers -> Task \union {NoTask}]
  <2>1. TasksKept => UNCHANGED task
    BY DEF TasksKept
  <2>2. UNCHANGED task => task' \in [Workers -> Task \union {NoTask}]
    BY <1>0 DEF TypeOK
  <2>3. \A a \in Actors : PostAccepted(a) => UNCHANGED task
    BY <1>0, AcceptedFacts
  <2>4. ASSUME NEW w \in Workers, GetWorkFound(w) \/ GetWorkCleans(w) \/ GetWorkNotFound(w) \/ DidRun(w)
        PROVE  task' \in [Workers -> Task \union {NoTask}]
    BY <1>0, <2>2, <2>4, TakenFacts, DroppedFacts, FinishedFacts
  <2>5. ASSUME NEW w \in Workers, NEW token \in FreshTokens, BindToken(w, token)
        PROVE  task' \in [Workers -> Task \union {NoTask}]
    BY <1>0, <2>5, BoundFacts
  <2> QED
    BY <2>1, <2>2, <2>3, <2>4, <2>5, TasksStep
<1>6. post' \in [Actors -> Post \union {NoTask}]
  <2>1. UNCHANGED post => post' \in [Actors -> Post \union {NoTask}]
    BY <1>0 DEF TypeOK
  <2> QED
    BY <1>0, <2>1, PostsStep, CallFacts, AcceptedFacts, EndedFacts
<1>7. next_sequence_task_number' \in 0..MaxTasks
  <2> DEFINE L == {a \in Actors : post[a] # NoTask /\ post[a].stage = "lock"}
             n == next_sequence_task_number
  <2>1. L' \in SUBSET Actors /\ IsFiniteSet(Workers) /\ IsFiniteSet(Posters)
    BY FS_Interval, PoolAssumption DEF Workers
  <2>2. IsFiniteSet(Actors)
    BY <2>1, FS_Union DEF Actors
  <2>3. IsFiniteSet(L')
    BY <2>1, <2>2, FS_Subset
  <2>4. Cardinality(L') \in Nat
    BY <2>3, FS_CardinalityType
  <2>5. n' + Cardinality(L') <= MaxTasks
    BY DEF Posting
  <2> HIDE DEF L
  <2>6. n' \in Nat /\ MaxTasks \in Nat
    BY <1>0, Bounds, NumberStep, AcceptedFacts
  <2> QED
    BY <2>4, <2>5, <2>6
<1>8. waiting_thread_count' \in 0..MaxThreads /\ cleanup_idlers' \in 0..MaxThreads
  <2>1. Waiters' \in SUBSET Workers /\ Idlers' \in SUBSET Workers
    BY DEF Waiters, Idlers
  <2> QED
    BY <2>1, WorkersCount DEF WorkerCounts
<1>9. blocking_shutdown_thread_count' \in 0..MaxThreads
  <2>1. Holders' \in SUBSET Workers
    BY DEF Holders
  <2> QED
    BY <2>1, WorkersCount DEF TaskCounts
<1>10. blocking_shutdown_pending_task_count' \in 0..MaxTasks
  <2>1. IsFiniteSet(pending_tasks') /\ BlockingPending' \in SUBSET pending_tasks'
        /\ Cardinality(pending_tasks') <= next_sequence_task_number'
    BY DEF TaskCounts, BlockingPending
  <2>2. IsFiniteSet(BlockingPending') /\ Cardinality(BlockingPending') <= Cardinality(pending_tasks')
    BY <2>1, FS_Subset
  <2>3. Cardinality(BlockingPending') \in Nat /\ Cardinality(pending_tasks') \in Nat
    BY <2>1, <2>2, FS_CardinalityType
  <2>4. blocking_shutdown_pending_task_count' = Cardinality(BlockingPending')
    BY DEF TaskCounts
  <2> QED
    BY <1>0, <1>7, <2>1, <2>2, <2>3, <2>4, Bounds
<1>11. current_sequences' \subseteq Nat
  <2>1. \A w \in Workers : task'[w] # NoTask => task'[w].token \in Nat
    BY <1>5, TaskHasFields DEF TaskFields
  <2> QED
    BY <2>1 DEF OneTaskPerToken, Busy
<1>12. cleanup_state' \in CleanupState
  <2>1. cleanup_state \in CleanupState
    BY <1>0 DEF TypeOK
  <2> QED
    BY <2>1, CleanupStep DEF CleanupState
<1>13. shutdown_called' \in BOOLEAN
  <2>1. UNCHANGED shutdown_called \/ shutdown_called' = TRUE
    BY CallsOfPoolStep DEF FlushForTesting, FlushLoop, ShutdownLoop, Shutdown
  <2>2. shutdown_called \in BOOLEAN
    BY <1>0 DEF TypeOK
  <2> QED
    BY <2>1, <2>2
<1>14. caller' \in Caller
  <2>1. caller \in Caller
    BY <1>0 DEF TypeOK
  <2> QED
    BY <2>1, CallsOfPoolStep DEF FlushForTesting, FlushLoop, ShutdownLoop, Shutdown, Caller
<1>15. max_blocking_tasks_after_shutdown' \in 0..MaxNewBlocking
  <2> DEFINE x == max_blocking_tasks_after_shutdown
  <2>1. x \in 0..MaxNewBlocking /\ MaxNewBlocking \in Nat
    BY <1>0, Bounds DEF TypeOK
  <2>2. ASSUME NEW a \in Actors, PostAccepted(a) PROVE x' \in 0..MaxNewBlocking
    <3>1. x' = x - One(shutdown_called) /\ (shutdown_called => x # 0)
      BY <2>2 DEF PostAccepted, Refused, LimitReached
    <3>2. CASE shutdown_called
      BY <2>1, <3>1, <3>2 DEF One
    <3>3. CASE ~shutdown_called
      BY <2>1, <3>1, <3>3 DEF One
    <3> QED
      BY <3>2, <3>3
  <2>3. (\E a \in Actors : PostAccepted(a)) \/ UNCHANGED x \/ x' \in 0..MaxNewBlocking
    BY CallsOfPoolStep DEF FlushForTesting, FlushLoop, ShutdownLoop, Shutdown
  <2> QED
    BY <2>1, <2>2, <2>3
<1>16. flushes' \in 0..MaxFlushes
  <2>1. flushes \in 0..MaxFlushes /\ MaxFlushes \in Nat
    BY <1>0, PoolAssumption DEF TypeOK
  <2>2. UNCHANGED flushes \/ (flushes < MaxFlushes /\ flushes' = flushes + 1)
    BY CallsOfPoolStep DEF FlushForTesting, FlushLoop, ShutdownLoop, Shutdown
  <2> QED
    BY <2>1, <2>2
<1>17. flushing' \subseteq Nat
  <2>1. UNCHANGED flushing \/ flushing' = {} \/ flushing' = InPool
    BY CallsOfPoolStep DEF FlushForTesting, FlushLoop, ShutdownLoop, Shutdown
  <2>2. flushing \subseteq Nat /\ InPool \subseteq Nat
    BY <1>0, InPoolStep DEF TypeOK
  <2> QED
    BY <2>1, <2>2
<1> QED
  BY <1>1, <1>2, <1>3, <1>4, <1>5, <1>6, <1>7, <1>8, <1>9, <1>10, <1>11, <1>12, <1>13, <1>14, <1>15, <1>16, <1>17
     DEF TypeOK

------------------------------------------------------------------------------
(* The theorems *)

LEMMA InitIInv == Init => IInv
<1> SUFFICES ASSUME Init PROVE IInv
  OBVIOUS
<1> USE PoolAssumption DEF Init
<1>1. MaxThreads \in Nat /\ MaxTasks \in Nat /\ MaxTime \in Nat /\ MaxFlushes \in Nat /\ MaxNewBlocking \in Nat
  OBVIOUS
<1>2. TypeOK
  <2>1. pc \in [Workers -> PC] /\ task \in [Workers -> Task \union {NoTask}] /\ post \in [Actors -> Post \union {NoTask}]
    BY DEF PC
  <2>2. outside \in [Workers -> SUBSET {"delete", "create"}] /\ wake_time \in [Workers -> Int]
    OBVIOUS
  <2>3. caller \in Caller /\ cleanup_state \in CleanupState
    BY DEF Caller, CleanupState
  <2>4. /\ next_sequence_task_number \in 0..MaxTasks /\ waiting_thread_count \in 0..MaxThreads
        /\ blocking_shutdown_thread_count \in 0..MaxThreads /\ blocking_shutdown_pending_task_count \in 0..MaxTasks
        /\ max_blocking_tasks_after_shutdown \in 0..MaxNewBlocking /\ cleanup_idlers \in 0..MaxThreads
        /\ now \in 0..MaxTime /\ flushes \in 0..MaxFlushes
    BY <1>1
  <2>5. /\ lock \in Workers \union {NoOne} /\ pending_tasks \subseteq Task /\ threads \subseteq Workers
        /\ current_sequences \subseteq Nat /\ bound \subseteq FreshTokens /\ flushing \subseteq Nat
    OBVIOUS
  <2>6. thread_being_created \in BOOLEAN /\ shutdown_called \in BOOLEAN
    OBVIOUS
  <2> QED
    BY <2>1, <2>2, <2>3, <2>4, <2>5, <2>6 DEF TypeOK
<1>3. \A w \in Workers : /\ pc[w] = "none" /\ task[w] = NoTask /\ outside[w] = {} /\ post[w] = NoTask
  BY DEF Actors
<1>4. Frames
  BY <1>3 DEF Frames, Frame
<1>5. \A a \in Actors : post[a] = NoTask /\ ~Makes(a)
  BY <1>3 DEF Makes
<1>6. Creating
  <2>1. Cardinality(threads) = 0
    BY FS_EmptySet
  <2>2. threads = 1..Cardinality(threads)
    BY <2>1
  <2>3. ~thread_being_created
    OBVIOUS
  <2> QED
    BY <1>3, <1>5, <2>2, <2>3 DEF Creating
<1>7. Busy = {} /\ Holders = {} /\ BlockingPending = {} /\ Waiters = {} /\ Idlers = {}
  BY <1>3 DEF Busy, Holders, BlockingPending, Waiters, Idlers
<1>8. TaskCounts /\ WorkerCounts
  BY <1>7, FS_EmptySet DEF TaskCounts, WorkerCounts
<1>9. Posting
  <2>1. {a \in Actors : post[a] # NoTask /\ post[a].stage = "lock"} = {}
    BY <1>5
  <2>2. Cardinality({a \in Actors : post[a] # NoTask /\ post[a].stage = "lock"}) = 0
    BY <2>1, FS_EmptySet
  <2>3. next_sequence_task_number = 0 /\ 0 + 0 <= MaxTasks
    BY <1>1
  <2> QED
    BY <2>2, <2>3 DEF Posting
<1>10. Numbered
  BY <1>5, <1>7 DEF Numbered
<1>11. OneTaskPerToken
  BY <1>7 DEF OneTaskPerToken
<1>12. Cleaning
  BY <1>3, <1>7 DEF Cleaning
<1>13. Flushing
  BY DEF Flushing
<1>14. Origins
  BY <1>5 DEF Origins
<1>15. Closed
  BY DEF Closed
<1> QED
  BY <1>2, <1>4, <1>6, <1>8, <1>9, <1>10, <1>11, <1>12, <1>13, <1>14, <1>15 DEF IInv

LEMMA NextIInv == IInv /\ [Next]_vars => IInv'
<1> SUFFICES ASSUME IInv, [Next]_vars PROVE IInv'
  OBVIOUS
<1> USE DEF IInv
<1>1. Frames'
  BY FramesStep
<1>2. Creating'
  BY CreatingStep
<1>3. TaskCounts'
  BY TaskCountsStep
<1>4. WorkerCounts'
  BY WorkerCountsStep
<1>5. Posting'
  BY PostingStep
<1>6. Numbered'
  BY NumberedStep
<1>7. OneTaskPerToken'
  BY ExclusionStep
<1>8. Cleaning'
  BY CleaningStep
<1>9. Flushing'
  BY FlushingStep
<1>10. Origins'
  BY OriginsStep
<1>11. Closed'
  BY ClosedStep
<1>12. TypeOK'
  BY <1>1, <1>3, <1>4, <1>5, <1>7, TypeStep
<1> QED
  BY <1>1, <1>2, <1>3, <1>4, <1>5, <1>6, <1>7, <1>8, <1>9, <1>10, <1>11, <1>12

\* IInv is an invariant of the pool, for every number of threads, posters and tasks.
THEOREM Invariance == Spec => []IInv
BY InitIInv, NextIInv, PTL DEF Spec

\* The variables keep their types: in particular the unsigned counters of
\* sequenced_worker_pool.cc never fall below zero.
THEOREM TypeCorrect == Spec => []TypeOK
<1>1. IInv => TypeOK
  BY DEF IInv
<1> QED
  BY <1>1, Invariance, PTL

\* WillRunWorkerTask, DidRunWorkerTask and SetRunningTaskInfoForCurrentThread keep
\* current_sequences equal to the tokens of the running tasks, no two of them alike.
THEOREM TokensExclude == Spec => []OneTaskPerToken
<1>1. IInv => OneTaskPerToken
  BY DEF IInv
<1> QED
  BY <1>1, Invariance, PTL

\* The counters that CanShutdown and PrepareToStartAdditionalThreadIfHelpful read count
\* what their names say.
THEOREM CountersAreRight == Spec => []CountersAgree
<1>1. IInv => CountersAgree
  <2> SUFFICES ASSUME IInv PROVE CountersAgree
    OBVIOUS
  <2>1. TaskCounts /\ WorkerCounts /\ Creating
    BY DEF IInv
  <2>2. Holders = {w \in Busy : task[w].behavior # "CONTINUE_ON_SHUTDOWN"}
    BY DEF Holders, HoldsShutdown, Busy
  <2>3. (\E a \in Actors : Makes(a)) <=>
          \/ \E w \in Workers : pc[w] = "starting" \/ "create" \in outside[w]
          \/ \E a \in Actors : post[a] # NoTask /\ post[a].stage = "create"
    BY DEF Makes, Actors
  <2>4. thread_being_created <=> \E a \in Actors : Makes(a)
    BY <2>1 DEF Creating
  <2>5. /\ blocking_shutdown_pending_task_count = Cardinality(BlockingPending)
        /\ blocking_shutdown_thread_count = Cardinality(Holders)
        /\ waiting_thread_count = Cardinality({w \in Workers : pc[w] \in {"waiting", "woken"}})
    BY <2>1 DEF TaskCounts, WorkerCounts, Waiters
  <2> QED
    BY <2>2, <2>3, <2>4, <2>5 DEF CountersAgree
<1> QED
  BY <1>1, Invariance, PTL

\* When FlushForTesting returns, the tasks it found in the pool have left it.
THEOREM FlushCompletes == Spec => []FlushIsComplete
<1>1. IInv => FlushIsComplete
  BY DEF IInv, Flushing, FlushIsComplete
<1> QED
  BY <1>1, Invariance, PTL

\* When Shutdown has returned nothing it waits for is left or comes back.  Shutdown() needs
\* no hypothesis for it; Shutdown(n) needs that, once it is called, tasks are posted only by
\* running tasks: neither by other threads nor by the destructor of a task deleted unrun.
THEOREM ShutdownReturnsLast ==
  ASSUME OnlyTasksAreLate
  PROVE  Spec => []ShutdownIsFinal
<1>1. IInv => ShutdownIsFinal
  <2> SUFFICES ASSUME IInv, caller = "returned"
               PROVE  /\ BlockingPending = {}
                      /\ \A w \in Busy : task[w].behavior = "CONTINUE_ON_SHUTDOWN"
                      /\ \A w \in Workers : pc[w] # "starting"
    BY DEF ShutdownIsFinal
  <2>1. BlockingPending = {} /\ Holders = {} /\ ~thread_being_created
    BY DEF IInv, Closed
  <2>2. \A w \in Busy : task[w].behavior = "CONTINUE_ON_SHUTDOWN"
    BY <2>1 DEF Holders, HoldsShutdown, Busy
  <2>3. \A w \in Workers : pc[w] # "starting"
    BY <2>1 DEF IInv, Creating, Makes, Actors
  <2> QED
    BY <2>1, <2>2, <2>3
<1> QED
  BY <1>1, Invariance, PTL

\* A task of the pool starts only when GetWork takes it.
LEMMA StartsAreTaken ==
  ASSUME IInv, [Next]_vars, NEW t \in pending_tasks, Starts(t)
  PROVE  \E w \in Workers : GetWorkFound(w) /\ task'[w] = t
<1>1. TypeOK /\ Frames /\ Numbered
  BY DEF IInv
<1>2. PICK w \in Workers : task'[w] = t /\ task[w] # t
  BY DEF Starts
<1>3. t # NoTask
  BY <1>1, Bounds
<1>4. ~RunGoesOn(w)
  BY <1>1, <1>2 DEF RunGoesOn, Numbered, Busy
<1> QED
  BY <1>1, <1>2, <1>3, <1>4, RunsStep DEF RunBegins

\* SequencedTaskLessThan and GetWork run the tasks of one token in the order in which they
\* were posted, whatever the interleaving of the calls and of the workers.
THEOREM TokensStartInOrder == Spec => TokenOrder
<1> DEFINE Ordered == \A t2 \in pending_tasks : Starts(t2) =>
       \A t1 \in pending_tasks \intersect pending_tasks' :
         ~ (t1.token = t2.token /\ t2.token # 0 /\ t1.seq < t2.after /\ t1.delay <= t2.delay)
<1>1. ASSUME IInv, [Next]_vars PROVE Ordered
  <2> SUFFICES ASSUME NEW t2 \in pending_tasks, Starts(t2), NEW t1 \in pending_tasks, t1 \in pending_tasks',
                      t1.token = t2.token, t2.token # 0, t1.seq < t2.after, t1.delay <= t2.delay
               PROVE  FALSE
    OBVIOUS
  <2>0. TypeOK /\ Frames /\ Numbered
    BY <1>1 DEF IInv
  <2>1. PICK w \in Workers : GetWorkFound(w) /\ task'[w] = t2
    BY <1>1, StartsAreTaken
  <2>2. IsFirst(t2) /\ pending_tasks' = pending_tasks \ ({t2} \union SkippedBefore(t2))
    BY <2>0, <2>1, TakenFacts
  <2>3. /\ t1.seq \in Nat /\ t2.seq \in Nat /\ t1.time \in Nat /\ t2.time \in Nat
        /\ t1.delay \in Nat /\ t2.delay \in Nat /\ t2.after \in Nat
    BY <2>0, Bounds DEF TaskFields
  <2>4. t2.after <= t2.seq /\ t1.time + t2.delay <= t2.time + t1.delay
    BY <2>0 DEF Numbered
  <2>5. t1.seq < t2.seq /\ t1.time <= t2.time
    BY <2>3, <2>4
  <2>6. Before(t1, t2) /\ ~Before(t2, t1) /\ t1 # t2
    BY <2>3, <2>5 DEF Before
  <2>7. t1 \in Runnable
    BY <2>2 DEF IsFirst, Runnable, IsSequenceTokenRunnable
  <2>8. t1 \in Skipped
    BY <2>2, <2>6, <2>7 DEF IsFirst
  <2>9. t1 \in SkippedBefore(t2)
    BY <2>6, <2>8 DEF SkippedBefore
  <2> QED
    BY <2>2, <2>9
<1>2. IInv /\ [Next]_vars => [Ordered]_vars
  BY <1>1
<1> QED
  BY <1>2, Invariance, PTL DEF Spec, TokenOrder

\* Once Shutdown was called, GetWork gives out only tasks that block shutdown, and
\* PrepareToStartAdditionalThreadIfHelpful begins the creation of no thread.
THEOREM ShutdownStopsThePool == Spec => NothingNewAfterShutdown
<1> DEFINE Nothing == shutdown_called =>
       /\ \A t \in pending_tasks : Starts(t) => Blocks(t.behavior)
       /\ ~thread_being_created => ~thread_being_created'
<1>1. ASSUME IInv, [Next]_vars PROVE Nothing
  <2> SUFFICES ASSUME shutdown_called
               PROVE  /\ \A t \in pending_tasks : Starts(t) => Blocks(t.behavior)
                      /\ ~thread_being_created => ~thread_being_created'
    OBVIOUS
  <2>0. TypeOK /\ Frames /\ Creating
    BY <1>1 DEF IInv
  <2>1. ASSUME NEW t \in pending_tasks, Starts(t) PROVE Blocks(t.behavior)
    <3>1. PICK w \in Workers : GetWorkFound(w) /\ task'[w] = t
      BY <1>1, <2>1, StartsAreTaken
    <3>2. t \in BlockingPending
      BY <2>0, <3>1, TakenAfterShutdown
    <3> QED
      BY <3>2 DEF BlockingPending
  <2>2. ~thread_being_created => ~thread_being_created'
    BY <1>1, <2>0, CreationStep
  <2> QED
    BY <2>1, <2>2
<1>2. IInv /\ [Next]_vars => [Nothing]_vars
  BY <1>1
<1> QED
  BY <1>2, Invariance, PTL DEF Spec, NothingNewAfterShutdown
==============================================================================
