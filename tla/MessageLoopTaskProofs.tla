------------------------ MODULE MessageLoopTaskProofs ------------------------
(***************************************************************************)
(* Theorems about the tasks of a MessageLoop: none is lost, duplicated or  *)
(* brought back, they start in the order sequenced_task_runner.h promises  *)
(* (a non-nestable task put off by a nested loop excepted), and none       *)
(* starts too early or where it may not be nested.                         *)
(*                                                                         *)
(* Every step of the loop moves at most one task, or one whole queue, from *)
(* one place to another.  Movement shows this once and for all; the        *)
(* invariants are then proved for the moves alone.                         *)
(***************************************************************************)
EXTENDS MessageLoopProofs, FiniteSetTheorems

------------------------------------------------------------------------------
(* The inductive invariant *)

DelayedSeqs == {t.seq : t \in delayed_work_queue}
RunningSeqs == {task[d].seq : d \in {e \in Depths : task[e] # NoTask}}

Distinct(q) == \A i, j \in 1..Len(q) : q[i].seq = q[j].seq => i = j
Increasing(q) == \A i, j \in 1..Len(q) : i < j => q[i].seq < q[j].seq

\* The tasks of the six places.
Partition(I, W, F, D, R, G) ==
  /\ 0..(next_sequence_num - 1) = I \union W \union F \union D \union R \union G
  /\ I \intersect (W \union F \union D \union R \union G) = {}
  /\ W \intersect (F \union D \union R \union G) = {}
  /\ F \intersect (D \union R \union G) = {}
  /\ D \intersect (R \union G) = {}
  /\ R \intersect G = {}

RunOnce ==
  \A d, e \in Depths : task[d] # NoTask /\ task[e] # NoTask /\ task[d].seq = task[e].seq => d = e

\* Every accepted task is in one place, and there once.
Conserved ==
  /\ Distinct(incoming_queue) /\ Distinct(work_queue) /\ Distinct(deferred)
  /\ \A t, u \in delayed_work_queue : t.seq = u.seq => t = u
  /\ RunOnce
  /\ Partition(Seqs(incoming_queue), Seqs(work_queue), Seqs(deferred), DelayedSeqs, RunningSeqs, gone)

\* The queues are in the order of the posts: what has left one was posted before what is
\* still in it.
InOrder ==
  /\ Increasing(incoming_queue) /\ Increasing(work_queue)
  /\ \A m \in Seqs(incoming_queue) :
       m < next_sequence_num /\ \A n \in Seqs(work_queue) \union DelayedSeqs \union Seqs(deferred) : n < m
  /\ \A m \in Seqs(work_queue), n \in DelayedSeqs \union Seqs(deferred) : n < m

\* The tasks put off are due and non-nestable, and none of the delayed tasks should have
\* come before one of them.
PutOff ==
  /\ recent_time <= now
  /\ \A t \in TasksIn(deferred) : t.time <= now /\ ~t.nestable
  /\ \A t \in TasksIn(deferred), u \in delayed_work_queue : ~(u.seq < t.seq /\ u.time <= t.time)

\* ~MessageLoop empties the work queue before it reloads it.
Reloading == phase = "reload" => work_queue = <<>>

TInv == IInv /\ Conserved /\ InOrder /\ PutOff /\ Reloading

------------------------------------------------------------------------------
(* Queues *)

\* Appending a task adds its number.
LEMMA SeqsAppend ==
  ASSUME NEW q \in Seq(Task), NEW t \in Task
  PROVE  /\ Append(q, t) \in Seq(Task)
         /\ Seqs(Append(q, t)) = Seqs(q) \union {t.seq}
         /\ TasksIn(Append(q, t)) = TasksIn(q) \union {t}
         /\ Distinct(q) /\ t.seq \notin Seqs(q) => Distinct(Append(q, t))
         /\ Increasing(q) /\ (\A n \in Seqs(q) : n < t.seq) => Increasing(Append(q, t))
<1> DEFINE r == Append(q, t)
<1>1. /\ r \in Seq(Task) /\ Len(q) \in Nat /\ Len(r) = Len(q) + 1 /\ r[Len(q) + 1] = t
      /\ \A i \in 1..Len(q) : r[i] = q[i]
  OBVIOUS
<1> HIDE DEF r
<1>2. 1..Len(r) = (1..Len(q)) \union {Len(q) + 1}
  BY <1>1
<1>3. Seqs(r) = Seqs(q) \union {t.seq}
  BY <1>1, <1>2 DEF Seqs
<1>4. TasksIn(r) = TasksIn(q) \union {t}
  BY <1>1, <1>2 DEF TasksIn
<1>5. ASSUME Distinct(q), t.seq \notin Seqs(q) PROVE Distinct(r)
  BY <1>1, <1>2, <1>5 DEF Distinct, Seqs
<1>6. ASSUME Increasing(q), \A n \in Seqs(q) : n < t.seq PROVE Increasing(r)
  <2>1. \A i \in 1..Len(q) : q[i].seq < t.seq
    BY <1>6 DEF Seqs
  <2>2. ASSUME NEW i \in 1..Len(r), NEW j \in 1..Len(r), i < j PROVE r[i].seq < r[j].seq
    BY <1>1, <1>2, <1>6, <2>1, <2>2 DEF Increasing
  <2> QED
    BY <2>2 DEF Increasing
<1> QED
  BY <1>1, <1>3, <1>4, <1>5, <1>6 DEF r

\* Taking the first task removes its number.
LEMMA SeqsTail ==
  ASSUME NEW q \in Seq(Task), q # <<>>, Distinct(q)
  PROVE  /\ Head(q) \in Task /\ Tail(q) \in Seq(Task)
         /\ Head(q).seq \in Seqs(q) /\ Head(q) \in TasksIn(q)
         /\ Seqs(Tail(q)) = Seqs(q) \ {Head(q).seq}
         /\ TasksIn(Tail(q)) \subseteq TasksIn(q)
         /\ Distinct(Tail(q))
         /\ Increasing(q) => Increasing(Tail(q)) /\ \A n \in Seqs(q) : Head(q).seq <= n
<1> DEFINE r == Tail(q)
<1>1. /\ r \in Seq(Task) /\ Len(q) \in Nat /\ Len(q) > 0 /\ Len(r) = Len(q) - 1
      /\ Head(q) = q[1] /\ Head(q) \in Task
      /\ \A i \in 1..Len(r) : i + 1 \in 1..Len(q) /\ r[i] = q[i + 1]
      /\ \A i \in 1..Len(q) : q[i] \in Task
  OBVIOUS
<1>2. \A i \in 2..Len(q) : i - 1 \in 1..Len(r) /\ r[i - 1] = q[i]
  BY <1>1
<1>0. 1 \in 1..Len(q) /\ 1..Len(q) = {1} \union (2..Len(q))
  BY <1>1
<1> HIDE DEF r
<1>3. Seqs(r) = {q[i].seq : i \in 2..Len(q)}
  BY <1>1, <1>2 DEF Seqs
<1>4. Head(q).seq \in Seqs(q) /\ Head(q) \in TasksIn(q)
  BY <1>0, <1>1 DEF Seqs, TasksIn
<1>5. \A i \in 2..Len(q) : q[i].seq # Head(q).seq
  BY <1>0, <1>1 DEF Distinct
<1>6. Seqs(r) = Seqs(q) \ {Head(q).seq}
  <2>1. Seqs(q) = {Head(q).seq} \union {q[i].seq : i \in 2..Len(q)}
    BY <1>0, <1>1 DEF Seqs
  <2>2. Head(q).seq \notin {q[i].seq : i \in 2..Len(q)}
    BY <1>5
  <2> QED
    BY <1>3, <2>1, <2>2
<1>7. TasksIn(r) \subseteq TasksIn(q)
  <2>1. ASSUME NEW i \in 1..Len(r) PROVE r[i] \in TasksIn(q)
    BY <1>1 DEF TasksIn
  <2> QED
    BY <2>1 DEF TasksIn
<1>8. Distinct(r)
  <2>1. ASSUME NEW i \in 1..Len(r), NEW j \in 1..Len(r), r[i].seq = r[j].seq PROVE i = j
    <3>1. i + 1 = j + 1
      BY <1>1, <2>1 DEF Distinct
    <3> QED
      BY <3>1, <1>1
  <2> QED
    BY <2>1 DEF Distinct
<1>9. ASSUME Increasing(q) PROVE Increasing(r) /\ \A n \in Seqs(q) : Head(q).seq <= n
  <2>1. ASSUME NEW i \in 1..Len(r), NEW j \in 1..Len(r), i < j PROVE r[i].seq < r[j].seq
    BY <1>1, <1>9, <2>1 DEF Increasing
  <2>2. \A i \in 1..Len(q) : q[i].seq \in Nat
    BY <1>1 DEF Task
  <2>3. ASSUME NEW i \in 1..Len(q) PROVE Head(q).seq <= q[i].seq
    BY <1>0, <1>1, <1>9, <2>2 DEF Increasing
  <2> QED
    BY <2>1, <2>3 DEF Increasing, Seqs
<1> QED
  BY <1>1, <1>4, <1>6, <1>7, <1>8, <1>9 DEF r

\* The number of a task in a queue.
LEMMA TasksInSeqs ==
  ASSUME NEW q, NEW t \in TasksIn(q)
  PROVE  t.seq \in Seqs(q)
<1>1. PICK i \in 1..Len(q) : t = q[i]
  BY DEF TasksIn
<1> QED
  BY <1>1 DEF Seqs

\* The empty queue holds none.
LEMMA SeqsEmpty == Seqs(<<>>) = {} /\ TasksIn(<<>>) = {} /\ Distinct(<<>>) /\ Increasing(<<>>)
BY DEF Seqs, TasksIn, Distinct, Increasing

------------------------------------------------------------------------------
(* The moves *)

\* The innermost loop, which runs no task, begins to run t.
Begins(t) ==
  /\ nestable_tasks_allowed
  /\ t.nestable \/ \A d \in Depths : task[d] = NoTask
  /\ \E d \in Depths : task[d] = NoTask /\ task' = [task EXCEPT ![d] = t]

Puts(t) == ~t.nestable /\ t.time <= now /\ deferred' = Append(deferred, t) /\ UNCHANGED task

LeavesWork(t) ==
  /\ work_queue # <<>> /\ t = Head(work_queue) /\ work_queue' = Tail(work_queue)
  /\ UNCHANGED <<incoming_queue, next_sequence_num, gone>>

LeavesDelayed(t) ==
  /\ t \in delayed_work_queue /\ IsTop(t, delayed_work_queue) /\ t.time <= now
  /\ delayed_work_queue' = delayed_work_queue \ {t}
  /\ UNCHANGED <<incoming_queue, next_sequence_num, gone, work_queue>>

Rests == UNCHANGED <<incoming_queue, next_sequence_num, work_queue, delayed_work_queue, deferred, task, gone>>

Posted ==
  /\ \E t \in Task : t.seq = next_sequence_num /\ incoming_queue' = Append(incoming_queue, t)
  /\ next_sequence_num' = next_sequence_num + 1
  /\ UNCHANGED <<work_queue, delayed_work_queue, deferred, task, gone>>

Reloaded ==
  /\ work_queue = <<>> /\ work_queue' = incoming_queue /\ incoming_queue' = <<>>
  /\ UNCHANGED <<next_sequence_num, delayed_work_queue, deferred, task, gone>>

WorkMoves(t) ==
  /\ LeavesWork(t)
  /\ \/ /\ t.time # Null /\ delayed_work_queue' = delayed_work_queue \union {t}
        /\ UNCHANGED <<deferred, task>>
     \/ t.time = Null /\ Begins(t) /\ UNCHANGED <<delayed_work_queue, deferred>>
     \/ t.time = Null /\ Puts(t) /\ UNCHANGED delayed_work_queue

DelayedMoves(t) ==
  /\ LeavesDelayed(t)
  /\ (Begins(t) /\ UNCHANGED deferred) \/ Puts(t)

DeferredMoves(t) ==
  /\ deferred # <<>> /\ t = Head(deferred) /\ deferred' = Tail(deferred)
  /\ Begins(t)
  /\ UNCHANGED <<incoming_queue, next_sequence_num, work_queue, delayed_work_queue, gone>>

Ended ==
  /\ \E d \in Depths : /\ task[d] # NoTask /\ task' = [task EXCEPT ![d] = NoTask]
                       /\ gone' = gone \union {task[d].seq}
  /\ UNCHANGED <<incoming_queue, next_sequence_num, work_queue, delayed_work_queue, deferred>>

DeletedAll ==
  /\ gone' = gone \union Seqs(work_queue) \union Seqs(deferred) \union DelayedSeqs
  /\ work_queue' = <<>> /\ deferred' = <<>> /\ delayed_work_queue' = {}
  /\ UNCHANGED <<incoming_queue, next_sequence_num, task>>

Moves ==
  \/ Rests \/ Posted \/ Reloaded \/ Ended \/ DeletedAll
  \/ \E t \in Task : WorkMoves(t) \/ DelayedMoves(t) \/ DeferredMoves(t)

\* In its last frame, which runs no task, the loop may begin one if RunsNow says so.
LEMMA BeginsWhenRun ==
  ASSUME TypeOK, NEW d \in Depths, NEW t \in Task, NEW m \in Method,
         depth = d, pc[d] # "task", nestable_tasks_allowed, RunsNow(t, d), RunTask(d, m, t)
  PROVE  Begins(t)
<1>1. task[d] = NoTask
  BY DEF TypeOK
<1>2. ASSUME d = 1, NEW e \in Depths PROVE task[e] = NoTask
  <2>1. CASE e = d
    BY <1>1, <2>1
  <2>2. CASE e # d
    <3>1. e > depth
      BY <1>2, <2>2 DEF Depths
    <3>2. pc[e] = "none"
      BY <3>1 DEF TypeOK
    <3> QED
      BY <3>2 DEF TypeOK
  <2> QED
    BY <2>1, <2>2
<1> QED
  BY <1>1, <1>2 DEF Begins, RunsNow, RunTask

\* Each step of the loop is one of the moves.
LEMMA Movement ==
  ASSUME IInv, recent_time <= now, Reloading, [Next]_vars
  PROVE  Moves
<1> USE DEF incomingVars, lifeVars, queueVars, pumpVars, frameVars, quitVars, PumpAt
<1>0. TypeOK /\ Nesting
  BY DEF IInv
<1>1. ASSUME Rests PROVE Moves
  BY <1>1 DEF Moves
<1>2. CASE UNCHANGED vars
  BY <1>1, <1>2 DEF vars, Rests
<1>3. ASSUME NEW delay \in Delays, NEW nestable \in BOOLEAN, Post(delay, nestable) PROVE Moves
  <2> DEFINE t == [seq |-> next_sequence_num, time |-> CalculateDelayedRuntime(delay), nestable |-> nestable]
  <2>1. delay \in Nat /\ next_sequence_num \in Nat /\ now \in Nat
    BY <1>0, BoundsAssumption DEF TypeOK
  <2>2. CalculateDelayedRuntime(delay) \in Nat
    BY <2>1 DEF CalculateDelayedRuntime, Null
  <2>3. t \in Task
    BY <2>1, <2>2 DEF Task
  <2>4. t.seq = next_sequence_num /\ incoming_queue' = Append(incoming_queue, t)
    BY <1>3 DEF Post
  <2>5. Posted
    BY <1>3, <2>3, <2>4 DEF Post, Posted
  <2> QED
    BY <2>5 DEF Moves
<1>4. ASSUME SwapQueues, work_queue = <<>>,
             UNCHANGED <<next_sequence_num, delayed_work_queue, deferred, task, gone>>
      PROVE  Moves
  <2>1. work_queue' = incoming_queue /\ incoming_queue' = <<>>
    BY <1>4 DEF SwapQueues
  <2> QED
    BY <1>4, <2>1 DEF Reloaded, Moves
<1>5. ASSUME NEW d \in Depths, LoopStep(d) PROVE Moves
  <2>1. CASE DoWorkRefused(d) \/ DoDelayedWorkNothing(d) \/ DoDelayedWorkEarly(d) \/ DoIdleWorkIdle(d)
             \/ Wait(d) \/ Wake(d) \/ AfterRun(d)
    <3>1. Rests
      BY <2>1 DEF DoWorkRefused, DoDelayedWorkNothing, DoDelayedWorkEarly, DoIdleWorkIdle, Wait, Wake,
                  AfterRun, Rests
    <3> QED
      BY <3>1, <1>1
  <2>2. CASE DoWorkReload(d)
    BY <2>2, <1>4 DEF DoWorkReload, MayReload
  <2>3. ASSUME work_queue # <<>> PROVE Head(work_queue) \in Task
    BY <2>3, <1>0 DEF TypeOK
  <2>4. CASE DoWorkDelayed(d)
    <3> DEFINE t == Head(work_queue)
    <3>1. t \in Task
      BY <2>3, <2>4 DEF DoWorkDelayed
    <3>2. WorkMoves(t)
      BY <2>4 DEF DoWorkDelayed, WorkMoves, LeavesWork
    <3> QED
      BY <3>1, <3>2 DEF Moves
  <2>5. CASE DoWorkImmediate(d)
    <3> DEFINE t == Head(work_queue)
    <3>1. t \in Task /\ "DoWork" \in Method /\ 0 <= now
      BY <2>3, <2>5, <1>0 DEF DoWorkImmediate, Method, TypeOK
    <3>2. /\ LeavesWork(t) /\ t.time = Null /\ UNCHANGED delayed_work_queue
          /\ depth = d /\ pc[d] # "task" /\ nestable_tasks_allowed
      BY <2>5 DEF DoWorkImmediate, LeavesWork
    <3>3. CASE RunsNow(t, d) /\ RunTask(d, "DoWork", t) /\ UNCHANGED deferred
      <4>1. Begins(t)
        BY <3>1, <3>2, <3>3, <1>0, BeginsWhenRun
      <4>2. WorkMoves(t)
        BY <3>2, <3>3, <4>1 DEF WorkMoves
      <4> QED
        BY <3>1, <4>2 DEF Moves
    <3>4. CASE ~RunsNow(t, d) /\ Defer(t) /\ UNCHANGED <<frameVars, nestable_tasks_allowed>>
      <4>1. ~t.nestable
        BY <3>4 DEF RunsNow
      <4>2. Puts(t)
        BY <3>1, <3>2, <3>4, <4>1 DEF Puts, Defer, Null
      <4>3. WorkMoves(t)
        BY <3>2, <4>2 DEF WorkMoves
      <4> QED
        BY <3>1, <4>3 DEF Moves
    <3> QED
      BY <2>5, <3>3, <3>4 DEF DoWorkImmediate
  <2>6. CASE DoDelayedWorkDue(d)
    <3>1. PICK t \in delayed_work_queue :
            /\ IsTop(t, delayed_work_queue) /\ t.time <= RecentTime(t)
            /\ delayed_work_queue' = delayed_work_queue \ {t}
            /\ \/ RunsNow(t, d) /\ RunTask(d, "DoDelayedWork", t) /\ UNCHANGED deferred
               \/ ~RunsNow(t, d) /\ Defer(t) /\ UNCHANGED <<task>>
      BY <2>6 DEF DoDelayedWorkDue
    <3>2. t \in Task /\ "DoDelayedWork" \in Method /\ recent_time \in Nat /\ now \in Nat
      BY <1>0 DEF TypeOK, Method
    <3>3. t.time \in Nat
      BY <3>2 DEF Task
    <3>4. t.time <= now
      BY <3>1, <3>2, <3>3 DEF RecentTime
    <3>5. LeavesDelayed(t) /\ depth = d /\ pc[d] # "task" /\ nestable_tasks_allowed
      BY <2>6, <3>1, <3>4 DEF DoDelayedWorkDue, LeavesDelayed
    <3>6. CASE RunsNow(t, d) /\ RunTask(d, "DoDelayedWork", t) /\ UNCHANGED deferred
      <4>1. Begins(t)
        BY <3>2, <3>5, <3>6, <1>0, BeginsWhenRun
      <4>2. DelayedMoves(t)
        BY <3>5, <3>6, <4>1 DEF DelayedMoves
      <4> QED
        BY <3>2, <4>2 DEF Moves
    <3>7. CASE ~RunsNow(t, d) /\ Defer(t) /\ UNCHANGED <<task>>
      <4>1. ~t.nestable
        BY <3>7 DEF RunsNow
      <4>2. Puts(t)
        BY <3>4, <3>7, <4>1 DEF Puts, Defer
      <4>3. DelayedMoves(t)
        BY <3>5, <4>2 DEF DelayedMoves
      <4> QED
        BY <3>2, <4>3 DEF Moves
    <3> QED
      BY <3>1, <3>6, <3>7
  <2>7. CASE DoIdleWorkDeferred(d)
    <3> DEFINE t == Head(deferred)
    <3>1. t \in Task /\ "DoIdleWork" \in Method
      BY <2>7, <1>0 DEF DoIdleWorkDeferred, TypeOK, Method
    <3>2. depth = 1 /\ d = 1 /\ depth = d /\ pc[d] # "task"
      BY <2>7 DEF DoIdleWorkDeferred
    <3>3. nestable_tasks_allowed
      BY <3>2, <1>0 DEF Nesting, InTask
    <3>4. Begins(t)
      <4>1. RunsNow(t, d) /\ RunTask(d, "DoIdleWork", t)
        BY <2>7, <3>2 DEF DoIdleWorkDeferred, RunsNow
      <4> QED
        BY <4>1, <3>1, <3>2, <3>3, <1>0, BeginsWhenRun
    <3>5. DeferredMoves(t)
      BY <2>7, <3>4 DEF DoIdleWorkDeferred, DeferredMoves
    <3> QED
      BY <3>1, <3>5 DEF Moves
  <2> QED
    BY <1>5, <2>1, <2>2, <2>4, <2>5, <2>6, <2>7 DEF LoopStep
<1>6. ASSUME NEW d \in Depths, FinishTask(d) PROVE Moves
  <2>1. task[d] # NoTask
    BY <1>0, <1>6 DEF FinishTask, TypeOK
  <2>2. Ended
    BY <1>6, <2>1 DEF FinishTask, Ended
  <2> QED
    BY <2>2 DEF Moves
<1>7. CASE DeletePendingTasks
  <2>1. DeletedAll
    BY <1>7 DEF DeletePendingTasks, DeletedAll, DelayedSeqs
  <2> QED
    BY <2>1 DEF Moves
<1>8. CASE DestroyReload
  BY <1>8, <1>4 DEF DestroyReload, Reloading
<1>9. CASE Tick \/ BindToCurrentThread \/ QuitNow \/ QuitWhenIdle \/ Destroy \/ WillDestroyCurrentMessageLoop
           \/ (\E allowed \in BOOLEAN : SetNestableTasksAllowed(allowed))
           \/ (\E d \in Depths : Quit(d)) \/ (\E d \in Depths, untilIdle \in BOOLEAN : Run(d, untilIdle))
  <2>1. Rests
    BY <1>9 DEF Tick, BindToCurrentThread, QuitNow, QuitWhenIdle, Destroy, WillDestroyCurrentMessageLoop,
                SetNestableTasksAllowed, Quit, Run, Rests
  <2> QED
    BY <2>1, <1>1
<1> QED
  BY <1>2, <1>3, <1>5, <1>6, <1>7, <1>8, <1>9 DEF Next, DestroyStep

------------------------------------------------------------------------------
(* Conservation *)

\* The task that begins joins the running ones.
LEMMA RunningBegins ==
  ASSUME TypeOK, NEW t \in Task, Begins(t), RunOnce, t.seq \notin RunningSeqs
  PROVE  RunningSeqs' = RunningSeqs \union {t.seq} /\ RunOnce'
<1>1. PICK d \in Depths : task[d] = NoTask /\ task' = [task EXCEPT ![d] = t]
  BY DEF Begins
<1>2. task'[d] = t /\ t # NoTask /\ \A e \in Depths : e # d => task'[e] = task[e]
  BY <1>1, NoTaskAssumption DEF TypeOK
<1>3. {e \in Depths : task'[e] # NoTask} = {e \in Depths : task[e] # NoTask} \union {d}
  BY <1>1, <1>2
<1>4. RunningSeqs' = RunningSeqs \union {t.seq}
  BY <1>1, <1>2, <1>3 DEF RunningSeqs
<1>5. \A e \in Depths : task[e] # NoTask => task[e].seq # t.seq
  BY DEF RunningSeqs
<1> QED
  BY <1>1, <1>2, <1>4, <1>5 DEF RunOnce

\* The task that ends leaves them.
LEMMA RunningEnds ==
  ASSUME TypeOK, NEW d \in Depths, task[d] # NoTask, task' = [task EXCEPT ![d] = NoTask], RunOnce
  PROVE  /\ RunningSeqs' = RunningSeqs \ {task[d].seq} /\ RunOnce'
         /\ task[d].seq \in RunningSeqs
<1>1. task'[d] = NoTask /\ \A e \in Depths : e # d => task'[e] = task[e]
  BY DEF TypeOK
<1>2. {e \in Depths : task'[e] # NoTask} = {e \in Depths : task[e] # NoTask} \ {d}
  BY <1>1
<1>3. RunningSeqs' = {task[e].seq : e \in {f \in Depths : task[f] # NoTask} \ {d}}
  BY <1>1, <1>2 DEF RunningSeqs
<1>4. \A e \in {f \in Depths : task[f] # NoTask} \ {d} : task[e].seq # task[d].seq
  BY DEF RunOnce
<1>5. RunningSeqs = {task[d].seq} \union {task[e].seq : e \in {f \in Depths : task[f] # NoTask} \ {d}}
  BY DEF RunningSeqs
<1>6. RunningSeqs' = RunningSeqs \ {task[d].seq}
  BY <1>3, <1>4, <1>5
<1> QED
  BY <1>1, <1>5, <1>6 DEF RunOnce

\* A task that joins or leaves the delayed queue.
LEMMA DelayedJoins ==
  ASSUME NEW t, delayed_work_queue' = delayed_work_queue \union {t}
  PROVE  DelayedSeqs' = DelayedSeqs \union {t.seq}
BY DEF DelayedSeqs

LEMMA DelayedLeaves ==
  ASSUME NEW t \in delayed_work_queue, delayed_work_queue' = delayed_work_queue \ {t},
         \A u, v \in delayed_work_queue : u.seq = v.seq => u = v
  PROVE  DelayedSeqs' = DelayedSeqs \ {t.seq} /\ t.seq \in DelayedSeqs
<1>1. \A u \in delayed_work_queue \ {t} : u.seq # t.seq
  OBVIOUS
<1>2. DelayedSeqs = {t.seq} \union {u.seq : u \in delayed_work_queue \ {t}}
  BY DEF DelayedSeqs
<1>3. DelayedSeqs' = {u.seq : u \in delayed_work_queue \ {t}}
  BY DEF DelayedSeqs
<1> QED
  BY <1>1, <1>2, <1>3

\* Every move keeps every task in one place.
LEMMA ConservedStep ==
  ASSUME TypeOK, Conserved, Moves
  PROVE  Conserved'
<1> DEFINE I == Seqs(incoming_queue)
           W == Seqs(work_queue)
           F == Seqs(deferred)
           D == DelayedSeqs
           R == RunningSeqs
           n == next_sequence_num
           Once == \A t, u \in delayed_work_queue : t.seq = u.seq => t = u
<1>1. /\ incoming_queue \in Seq(Task) /\ work_queue \in Seq(Task) /\ deferred \in Seq(Task)
      /\ delayed_work_queue \in SUBSET Task /\ n \in Nat
  BY DEF TypeOK
<1>2. /\ Distinct(incoming_queue) /\ Distinct(work_queue) /\ Distinct(deferred) /\ Once /\ RunOnce
      /\ Partition(I, W, F, D, R, gone)
  BY DEF Conserved
<1>3. ASSUME Distinct(incoming_queue'), Distinct(work_queue'), Distinct(deferred'), Once', RunOnce',
             Partition(I, W, F, D, R, gone)'
      PROVE  Conserved'
  <2>1. Distinct(incoming_queue)' /\ Distinct(work_queue)' /\ Distinct(deferred)'
    BY <1>3 DEF Distinct
  <2> QED
    BY <1>3, <2>1 DEF Conserved
<1>4. CASE Rests
  <2>1. R' = R /\ D' = D /\ I' = I /\ W' = W /\ F' = F /\ gone' = gone /\ n' = n
    BY <1>4 DEF Rests, RunningSeqs, DelayedSeqs
  <2>2. Partition(I, W, F, D, R, gone)'
    BY <1>2, <2>1 DEF Partition
  <2>3. RunOnce' /\ Once'
    BY <1>2, <1>4 DEF Rests, RunOnce
  <2> QED
    BY <1>2, <1>3, <1>4, <2>2, <2>3 DEF Rests
<1>5. CASE Posted
  <2>1. PICK t \in Task : t.seq = n /\ incoming_queue' = Append(incoming_queue, t)
    BY <1>5 DEF Posted
  <2>2. R' = R /\ D' = D /\ W' = W /\ F' = F /\ gone' = gone /\ n' = n + 1
    BY <1>5 DEF Posted, RunningSeqs, DelayedSeqs
  <2>3. n \notin I \union W \union F \union D \union R \union gone
    BY <1>1, <1>2 DEF Partition
  <2>4. I' = I \union {n} /\ Distinct(incoming_queue')
    BY <1>1, <1>2, <2>1, <2>3, SeqsAppend
  <2>5. 0..(n' - 1) = 0..(n - 1) \union {n}
    BY <1>1, <2>2
  <2>6. Partition(I, W, F, D, R, gone)'
    BY <1>2, <2>2, <2>3, <2>4, <2>5 DEF Partition
  <2>7. RunOnce' /\ Once'
    BY <1>2, <1>5 DEF Posted, RunOnce
  <2> QED
    BY <1>2, <1>3, <1>5, <2>4, <2>6, <2>7 DEF Posted
<1>6. CASE Reloaded
  <2>1. R' = R /\ D' = D /\ W' = I /\ I' = {} /\ W = {} /\ F' = F /\ gone' = gone /\ n' = n
    BY <1>6, SeqsEmpty DEF Reloaded, RunningSeqs, DelayedSeqs
  <2>2. Partition(I, W, F, D, R, gone)'
    BY <1>2, <2>1 DEF Partition
  <2>3. RunOnce' /\ Once'
    BY <1>2, <1>6 DEF Reloaded, RunOnce
  <2> QED
    BY <1>2, <1>3, <1>6, <2>2, <2>3, SeqsEmpty DEF Reloaded
<1>7. CASE Ended
  <2>1. PICK d \in Depths : task[d] # NoTask /\ task' = [task EXCEPT ![d] = NoTask]
                            /\ gone' = gone \union {task[d].seq}
    BY <1>7 DEF Ended
  <2>2. R' = R \ {task[d].seq} /\ task[d].seq \in R /\ RunOnce'
    BY <1>2, <2>1, RunningEnds
  <2>3. D' = D /\ W' = W /\ I' = I /\ F' = F /\ n' = n
    BY <1>7 DEF Ended, DelayedSeqs
  <2>4. Partition(I, W, F, D, R, gone)'
    BY <1>2, <2>1, <2>2, <2>3 DEF Partition
  <2>5. Once'
    BY <1>2, <1>7 DEF Ended
  <2> QED
    BY <1>2, <1>3, <1>7, <2>2, <2>4, <2>5 DEF Ended
<1>8. CASE DeletedAll
  <2>1. R' = R /\ D' = {} /\ W' = {} /\ I' = I /\ F' = {} /\ n' = n /\ gone' = gone \union W \union F \union D
    BY <1>8, SeqsEmpty DEF DeletedAll, DelayedSeqs, RunningSeqs
  <2>2. Partition(I, W, F, D, R, gone)'
    BY <1>2, <2>1 DEF Partition
  <2>3. RunOnce' /\ Once'
    BY <1>2, <1>8 DEF DeletedAll, RunOnce
  <2> QED
    BY <1>2, <1>3, <1>8, <2>2, <2>3, SeqsEmpty DEF DeletedAll
<1>9. ASSUME NEW t \in Task, WorkMoves(t) PROVE Conserved'
  <2>1. /\ W' = W \ {t.seq} /\ t.seq \in W /\ Distinct(work_queue')
        /\ I' = I /\ n' = n /\ gone' = gone /\ Distinct(incoming_queue')
    BY <1>1, <1>2, <1>9, SeqsTail DEF WorkMoves, LeavesWork
  <2>2. t.seq \notin I \union F \union D \union R \union gone
    BY <1>2, <2>1 DEF Partition
  <2>3. CASE delayed_work_queue' = delayed_work_queue \union {t} /\ UNCHANGED <<deferred, task>>
    <3>1. D' = D \union {t.seq} /\ F' = F /\ R' = R
      BY <2>3, DelayedJoins DEF RunningSeqs
    <3>2. Partition(I, W, F, D, R, gone)'
      BY <1>2, <2>1, <2>2, <3>1 DEF Partition
    <3>3. \A u \in delayed_work_queue : u.seq # t.seq
      BY <2>2 DEF DelayedSeqs
    <3>4. Once' /\ RunOnce'
      BY <1>2, <2>3, <3>3 DEF RunOnce
    <3> QED
      BY <1>2, <1>3, <2>1, <2>3, <3>2, <3>4
  <2>4. CASE Begins(t) /\ UNCHANGED <<delayed_work_queue, deferred>>
    <3>1. R' = R \union {t.seq} /\ RunOnce' /\ F' = F /\ D' = D
      BY <1>2, <2>2, <2>4, RunningBegins DEF DelayedSeqs
    <3>2. Partition(I, W, F, D, R, gone)'
      BY <1>2, <2>1, <2>2, <3>1 DEF Partition
    <3> QED
      BY <1>2, <1>3, <2>1, <2>4, <3>1, <3>2
  <2>5. CASE Puts(t) /\ UNCHANGED delayed_work_queue
    <3>1. F' = F \union {t.seq} /\ Distinct(deferred')
      BY <1>1, <1>2, <2>2, <2>5, SeqsAppend DEF Puts
    <3>2. D' = D /\ R' = R /\ RunOnce' /\ Once'
      BY <1>2, <2>5 DEF Puts, DelayedSeqs, RunningSeqs, RunOnce
    <3>3. Partition(I, W, F, D, R, gone)'
      BY <1>2, <2>1, <2>2, <3>1, <3>2 DEF Partition
    <3> QED
      BY <1>3, <2>1, <3>1, <3>2, <3>3
  <2> QED
    BY <1>9, <2>3, <2>4, <2>5 DEF WorkMoves
<1>10. ASSUME NEW t \in Task, DelayedMoves(t) PROVE Conserved'
  <2>1. /\ D' = D \ {t.seq} /\ t.seq \in D /\ Once'
        /\ I' = I /\ n' = n /\ gone' = gone /\ W' = W
        /\ Distinct(incoming_queue') /\ Distinct(work_queue')
    BY <1>2, <1>10, DelayedLeaves DEF DelayedMoves, LeavesDelayed
  <2>2. t.seq \notin I \union F \union W \union R \union gone
    BY <1>2, <2>1 DEF Partition
  <2>3. CASE Begins(t) /\ UNCHANGED deferred
    <3>1. R' = R \union {t.seq} /\ RunOnce' /\ F' = F
      BY <1>2, <2>2, <2>3, RunningBegins
    <3>2. Partition(I, W, F, D, R, gone)'
      BY <1>2, <2>1, <2>2, <3>1 DEF Partition
    <3> QED
      BY <1>2, <1>3, <2>1, <2>3, <3>1, <3>2
  <2>4. CASE Puts(t)
    <3>1. F' = F \union {t.seq} /\ Distinct(deferred')
      BY <1>1, <1>2, <2>2, <2>4, SeqsAppend DEF Puts
    <3>2. R' = R /\ RunOnce'
      BY <1>2, <2>4 DEF Puts, RunningSeqs, RunOnce
    <3>3. Partition(I, W, F, D, R, gone)'
      BY <1>2, <2>1, <2>2, <3>1, <3>2 DEF Partition
    <3> QED
      BY <1>3, <2>1, <3>1, <3>2, <3>3
  <2> QED
    BY <1>10, <2>3, <2>4 DEF DelayedMoves
<1>11. ASSUME NEW t \in Task, DeferredMoves(t) PROVE Conserved'
  <2>1. F' = F \ {t.seq} /\ t.seq \in F /\ Distinct(deferred')
    BY <1>1, <1>2, <1>11, SeqsTail DEF DeferredMoves
  <2>2. /\ D' = D /\ Once' /\ I' = I /\ n' = n /\ gone' = gone /\ W' = W
        /\ Distinct(incoming_queue') /\ Distinct(work_queue')
    BY <1>2, <1>11 DEF DeferredMoves, DelayedSeqs
  <2>3. t.seq \notin R
    BY <1>2, <2>1 DEF Partition
  <2>4. R' = R \union {t.seq} /\ RunOnce'
    BY <1>2, <1>11, <2>3, RunningBegins DEF DeferredMoves
  <2>5. Partition(I, W, F, D, R, gone)'
    BY <1>2, <2>1, <2>2, <2>4 DEF Partition
  <2> QED
    BY <1>3, <2>1, <2>2, <2>4, <2>5
<1> QED
  BY <1>4, <1>5, <1>6, <1>7, <1>8, <1>9, <1>10, <1>11 DEF Moves

------------------------------------------------------------------------------
(* Order *)

\* Every number in a queue is a number.
LEMMA NumbersAreNatural ==
  ASSUME TypeOK
  PROVE  /\ Seqs(incoming_queue) \subseteq Nat /\ Seqs(work_queue) \subseteq Nat
         /\ Seqs(deferred) \subseteq Nat /\ DelayedSeqs \subseteq Nat
<1>1. ASSUME NEW q \in Seq(Task) PROVE Seqs(q) \subseteq Nat
  <2>1. \A i \in 1..Len(q) : q[i] \in Task
    OBVIOUS
  <2>2. \A i \in 1..Len(q) : q[i].seq \in Nat
    BY <2>1 DEF Task
  <2> QED
    BY <2>2 DEF Seqs
<1>2. DelayedSeqs \subseteq Nat
  BY DEF TypeOK, DelayedSeqs, Task
<1> QED
  BY <1>1, <1>2 DEF TypeOK

\* Every move keeps the queues in order.
LEMMA InOrderStep ==
  ASSUME TypeOK, Conserved, InOrder, Moves
  PROVE  InOrder'
<1> DEFINE I == Seqs(incoming_queue)
           W == Seqs(work_queue)
           F == Seqs(deferred)
           D == DelayedSeqs
           n == next_sequence_num
<1>1. /\ incoming_queue \in Seq(Task) /\ work_queue \in Seq(Task) /\ deferred \in Seq(Task) /\ n \in Nat
      /\ Distinct(work_queue) /\ Distinct(deferred)
      /\ \A t, u \in delayed_work_queue : t.seq = u.seq => t = u
  BY DEF TypeOK, Conserved
<1>2. /\ Increasing(incoming_queue) /\ Increasing(work_queue)
      /\ \A m \in I : m < n /\ \A k \in W \union D \union F : k < m
      /\ \A m \in W, k \in D \union F : k < m
  BY DEF InOrder
<1>3. ASSUME Increasing(incoming_queue'), Increasing(work_queue'),
             \A m \in I' : m < n' /\ \A k \in W' \union D' \union F' : k < m,
             \A m \in W', k \in D' \union F' : k < m
      PROVE  InOrder'
  <2>1. Increasing(incoming_queue)' /\ Increasing(work_queue)'
    BY <1>3 DEF Increasing
  <2> QED
    BY <1>3, <2>1 DEF InOrder
<1>4. I \subseteq Nat /\ W \subseteq Nat /\ F \subseteq Nat /\ D \subseteq Nat
  BY NumbersAreNatural
<1> HIDE DEF I, W, F, D, n
<1>5. ASSUME Increasing(incoming_queue'), Increasing(work_queue'), n' = n, I' \subseteq I,
             W' \subseteq W, D' \subseteq D, F' \subseteq F
      PROVE  InOrder'
  BY <1>2, <1>3, <1>5
<1>6. CASE Rests
  <2>1. I' = I /\ W' = W /\ D' = D /\ F' = F
    BY <1>6 DEF Rests, I, W, D, F, DelayedSeqs
  <2> QED
    BY <1>2, <1>5, <1>6, <2>1 DEF Rests, n
<1>7. CASE Posted
  <2>1. PICK t \in Task : t.seq = n /\ incoming_queue' = Append(incoming_queue, t)
    BY <1>7 DEF Posted, n
  <2>2. n' = n + 1 /\ W' = W /\ D' = D /\ F' = F /\ work_queue' = work_queue
    BY <1>7 DEF Posted, n, W, D, F, DelayedSeqs
  <2>3. I' = I \union {n} /\ Increasing(incoming_queue')
    BY <1>1, <1>2, <2>1, SeqsAppend DEF I, n
  <2>4. Partition(I, W, F, D, RunningSeqs, gone)
    BY DEF Conserved, I, W, F, D
  <2>5. \A k \in W \union D \union F : k < n
    BY <1>1, <2>4 DEF Partition, n
  <2>6. \A m \in I : m < n + 1
    BY <1>1, <1>2, <1>4 DEF n
  <2>7. \A m \in I' : m < n' /\ \A k \in W' \union D' \union F' : k < m
    BY <1>1, <1>2, <2>2, <2>3, <2>5, <2>6 DEF n
  <2> QED
    BY <1>2, <1>3, <2>2, <2>3, <2>7
<1>8. CASE Reloaded
  <2>1. W' = I /\ I' = {} /\ D' = D /\ F' = F /\ n' = n
    BY <1>8, SeqsEmpty DEF Reloaded, I, W, D, F, n, DelayedSeqs
  <2>2. Increasing(incoming_queue') /\ Increasing(work_queue')
    BY <1>2, <1>8, SeqsEmpty DEF Reloaded
  <2> QED
    BY <1>2, <1>3, <2>1, <2>2
<1>9. CASE Ended
  <2>1. I' = I /\ W' = W /\ D' = D /\ F' = F
    BY <1>9 DEF Ended, I, W, D, F, DelayedSeqs
  <2> QED
    BY <1>2, <1>5, <1>9, <2>1 DEF Ended, n
<1>10. CASE DeletedAll
  <2>1. I' = I /\ W' = {} /\ D' = {} /\ F' = {}
    BY <1>10, SeqsEmpty DEF DeletedAll, I, W, D, F, DelayedSeqs
  <2> QED
    BY <1>2, <1>5, <1>10, <2>1, SeqsEmpty DEF DeletedAll, n
<1>11. ASSUME NEW t \in Task, WorkMoves(t) PROVE InOrder'
  <2>1. /\ W' = W \ {t.seq} /\ t.seq \in W /\ Increasing(work_queue')
        /\ \A m \in W : t.seq <= m
    BY <1>1, <1>2, <1>11, SeqsTail DEF WorkMoves, LeavesWork, W
  <2>2. I' = I /\ n' = n /\ Increasing(incoming_queue')
    BY <1>2, <1>11 DEF WorkMoves, LeavesWork, I, n
  <2>3. D' \subseteq D \union {t.seq} /\ F' \subseteq F \union {t.seq}
    <3>1. CASE delayed_work_queue' = delayed_work_queue \union {t} /\ UNCHANGED deferred
      BY <3>1, DelayedJoins DEF D, F
    <3>2. CASE UNCHANGED <<delayed_work_queue, deferred>>
      BY <3>2 DEF D, F, DelayedSeqs
    <3>3. CASE Puts(t) /\ UNCHANGED delayed_work_queue
      <4>1. F' = F \union {t.seq}
        BY <1>1, <3>3, SeqsAppend DEF Puts, F
      <4> QED
        BY <3>3, <4>1 DEF D, DelayedSeqs
    <3> QED
      BY <1>11, <3>1, <3>2, <3>3 DEF WorkMoves
  <2>4. ASSUME NEW m \in W' PROVE t.seq < m
    <3>1. m \in W /\ m # t.seq /\ t.seq \in W
      BY <2>1
    <3>2. m \in Nat /\ t.seq \in Nat /\ t.seq <= m
      BY <1>4, <2>1, <3>1
    <3> QED
      BY <3>1, <3>2
  <2>5. \A m \in I' : m < n' /\ \A k \in W' \union D' \union F' : k < m
    BY <1>2, <2>1, <2>2, <2>3
  <2>6. \A m \in W', k \in D' \union F' : k < m
    BY <1>2, <2>1, <2>3, <2>4
  <2> QED
    BY <1>3, <2>1, <2>2, <2>5, <2>6
<1>12. ASSUME NEW t \in Task, DelayedMoves(t) PROVE InOrder'
  <2>1. D' = D \ {t.seq} /\ t.seq \in D
    BY <1>1, <1>12, DelayedLeaves DEF DelayedMoves, LeavesDelayed, D
  <2>2. F' \subseteq F \union {t.seq}
    <3>1. CASE UNCHANGED deferred
      BY <3>1 DEF F
    <3>2. CASE Puts(t)
      BY <1>1, <3>2, SeqsAppend DEF Puts, F
    <3> QED
      BY <1>12, <3>1, <3>2 DEF DelayedMoves
  <2>3. /\ I' = I /\ W' = W /\ n' = n /\ Increasing(incoming_queue') /\ Increasing(work_queue')
    BY <1>2, <1>12 DEF DelayedMoves, LeavesDelayed, I, W, n
  <2> QED
    BY <1>2, <1>3, <2>1, <2>2, <2>3
<1>13. ASSUME NEW t \in Task, DeferredMoves(t) PROVE InOrder'
  <2>1. F' \subseteq F
    BY <1>1, <1>13, SeqsTail DEF DeferredMoves, F
  <2>2. I' = I /\ W' = W /\ D' = D
    BY <1>13 DEF DeferredMoves, I, W, D, DelayedSeqs
  <2> QED
    BY <1>2, <1>5, <1>13, <2>1, <2>2 DEF DeferredMoves, n
<1> QED
  BY <1>6, <1>7, <1>8, <1>9, <1>10, <1>11, <1>12, <1>13 DEF Moves

\* The clock only advances, and recent_time_ is a reading of it.
LEMMA ClockStep ==
  ASSUME TypeOK, recent_time <= now, [Next]_vars
  PROVE  now <= now' /\ recent_time' <= now'
<1> USE DEF incomingVars, lifeVars, queueVars, pumpVars, frameVars, quitVars
<1>1. recent_time \in Nat /\ now \in Nat
  BY DEF TypeOK
<1>2. ASSUME UNCHANGED <<recent_time, now>> PROVE now <= now' /\ recent_time' <= now'
  BY <1>1, <1>2
<1>3. CASE Tick
  BY <1>1, <1>3 DEF Tick
<1>4. ASSUME NEW d \in Depths, LoopStep(d) PROVE now <= now' /\ recent_time' <= now'
  <2>1. CASE DoDelayedWorkNothing(d)
    BY <1>1, <2>1 DEF DoDelayedWorkNothing, Null
  <2>2. CASE DoDelayedWorkEarly(d) \/ DoDelayedWorkDue(d)
    <3>1. now' = now /\ \E t \in delayed_work_queue : recent_time' = RecentTime(t)
      BY <2>2 DEF DoDelayedWorkEarly, DoDelayedWorkDue
    <3>2. recent_time' \in {recent_time, now}
      BY <3>1 DEF RecentTime
    <3> QED
      BY <1>1, <3>1, <3>2
  <2>3. CASE DoWorkRefused(d) \/ DoWorkReload(d) \/ DoWorkDelayed(d) \/ DoWorkImmediate(d)
             \/ DoIdleWorkDeferred(d) \/ DoIdleWorkIdle(d) \/ Wait(d) \/ Wake(d) \/ AfterRun(d)
    <3>1. UNCHANGED <<recent_time, now>>
      BY <2>3 DEF DoWorkRefused, DoWorkReload, DoWorkDelayed, DoWorkImmediate, DoIdleWorkDeferred,
                  DoIdleWorkIdle, Wait, Wake, AfterRun
    <3> QED
      BY <3>1, <1>2
  <2> QED
    BY <1>4, <2>1, <2>2, <2>3 DEF LoopStep
<1>5. CASE \/ UNCHANGED vars \/ BindToCurrentThread \/ QuitNow \/ QuitWhenIdle \/ Destroy \/ DestroyStep
           \/ (\E allowed \in BOOLEAN : SetNestableTasksAllowed(allowed))
           \/ (\E delay \in Delays, nestable \in BOOLEAN : Post(delay, nestable))
           \/ (\E d \in Depths : Quit(d) \/ FinishTask(d))
           \/ (\E d \in Depths, untilIdle \in BOOLEAN : Run(d, untilIdle))
  <2>1. UNCHANGED <<recent_time, now>>
    BY <1>5 DEF vars, BindToCurrentThread, QuitNow, QuitWhenIdle, Destroy, DestroyStep, DeletePendingTasks,
                DestroyReload, WillDestroyCurrentMessageLoop, SetNestableTasksAllowed, Post, Quit,
                FinishTask, Run
  <2> QED
    BY <2>1, <1>2
<1> QED
  BY <1>3, <1>4, <1>5 DEF Next

\* A task put off goes behind no delayed task that should have come before it.
LEMMA PutOffStep ==
  ASSUME IInv, InOrder, PutOff, [Next]_vars, Moves, Conserved
  PROVE  PutOff'
<1> DEFINE F == TasksIn(deferred)
           Q == delayed_work_queue
<1>1. now <= now' /\ recent_time' <= now' /\ now \in Nat /\ now' \in Nat
  <2>1. TypeOK /\ TypeOK' /\ recent_time <= now
    BY TypeStep DEF IInv, PutOff
  <2>2. now <= now' /\ recent_time' <= now'
    BY <2>1, ClockStep
  <2>3. now \in Nat /\ now' \in Nat
    BY <2>1 DEF TypeOK
  <2> QED
    BY <2>2, <2>3
<1>2. /\ deferred \in Seq(Task) /\ Q \in SUBSET Task /\ work_queue \in Seq(Task)
      /\ Distinct(deferred) /\ Distinct(work_queue)
  BY DEF IInv, TypeOK, Conserved
<1>3. \A i \in 1..Len(deferred) : deferred[i] \in Task
  BY <1>2
<1>4. F \in SUBSET Task
  BY <1>3 DEF TasksIn
<1>5. \A t \in Task : t.time \in Nat /\ t.seq \in Nat
  BY DEF Task
<1>6. ASSUME NEW t \in Task, t.time <= now PROVE t.time <= now'
  BY <1>1, <1>5, <1>6
<1>7. /\ \A t \in F : t.time <= now /\ ~t.nestable
      /\ \A t \in F, u \in Q : ~(u.seq < t.seq /\ u.time <= t.time)
  BY DEF PutOff
<1>8. ASSUME F' \subseteq F, Q' \subseteq Q PROVE PutOff'
  BY <1>1, <1>4, <1>6, <1>7, <1>8 DEF PutOff
<1>9. ASSUME NEW t \in Task, Puts(t), Q' \subseteq Q, \A u \in Q' : ~(u.seq < t.seq /\ u.time <= t.time)
      PROVE  PutOff'
  <2>1. F' = F \union {t}
    BY <1>2, <1>9, SeqsAppend DEF Puts
  <2>2. \A v \in F' : v.time <= now' /\ ~v.nestable
    BY <1>4, <1>6, <1>7, <1>9, <2>1 DEF Puts
  <2>3. \A v \in F', u \in Q' : ~(u.seq < v.seq /\ u.time <= v.time)
    BY <1>7, <1>9, <2>1
  <2> QED
    BY <1>1, <2>2, <2>3 DEF PutOff
<1>10. CASE Rests \/ Posted \/ Reloaded \/ Ended
  BY <1>8, <1>10 DEF Rests, Posted, Reloaded, Ended
<1>11. CASE DeletedAll
  BY <1>8, <1>11, SeqsEmpty DEF DeletedAll
<1>12. ASSUME NEW t \in Task, WorkMoves(t) PROVE PutOff'
  <2>1. t.seq \in Seqs(work_queue) /\ t \in Task
    BY <1>2, <1>12, SeqsTail DEF WorkMoves, LeavesWork
  <2>2. CASE Q' = Q \union {t} /\ UNCHANGED deferred
    <3>1. \A v \in F : v.seq < t.seq
      <4>1. \A v \in F : v.seq \in Seqs(deferred)
        BY TasksInSeqs
      <4> QED
        BY <2>1, <4>1 DEF InOrder
    <3>2. \A v \in F : ~(t.seq < v.seq)
      BY <1>4, <1>5, <3>1
    <3>3. F' = F
      BY <2>2
    <3>4. \A v \in F', u \in Q' : ~(u.seq < v.seq /\ u.time <= v.time)
      BY <1>7, <2>2, <3>2, <3>3
    <3>5. \A v \in F' : v.time <= now' /\ ~v.nestable
      BY <1>4, <1>6, <1>7, <3>3
    <3> QED
      BY <1>1, <3>4, <3>5 DEF PutOff
  <2>3. CASE UNCHANGED <<delayed_work_queue, deferred>>
    BY <1>8, <2>3
  <2>4. CASE t.time = Null /\ Puts(t) /\ UNCHANGED delayed_work_queue
    <3>1. \A u \in Q : u.time # Null /\ u.time \in Nat
      BY <1>2, <1>5 DEF IInv, DelayedWork
    <3>2. \A u \in Q : ~(u.time <= t.time)
      BY <2>4, <3>1 DEF Null
    <3> QED
      BY <1>9, <2>4, <3>2
  <2> QED
    BY <1>12, <2>2, <2>3, <2>4 DEF WorkMoves
<1>13. ASSUME NEW t \in Task, DelayedMoves(t) PROVE PutOff'
  <2>1. Q' \subseteq Q /\ t \in Q /\ IsTop(t, Q)
    BY <1>13 DEF DelayedMoves, LeavesDelayed
  <2>2. CASE UNCHANGED deferred
    BY <1>8, <2>1, <2>2
  <2>3. CASE Puts(t)
    <3>1. ASSUME NEW u \in Q PROVE ~(u.seq < t.seq /\ u.time <= t.time)
      <4>1. t.time < u.time \/ (t.time = u.time /\ t.seq <= u.seq)
        BY <2>1 DEF IsTop
      <4> QED
        BY <4>1, <1>2, <1>5
    <3> QED
      BY <1>9, <2>1, <2>3, <3>1
  <2> QED
    BY <1>13, <2>2, <2>3 DEF DelayedMoves
<1>14. ASSUME NEW t \in Task, DeferredMoves(t) PROVE PutOff'
  <2>1. F' \subseteq F /\ Q' = Q
    BY <1>2, <1>14, SeqsTail DEF DeferredMoves
  <2> QED
    BY <1>8, <2>1
<1> QED
  BY <1>10, <1>11, <1>12, <1>13, <1>14 DEF Moves

\* The work queue is empty from the first DeletePendingTasks of a pass to its reload.
LEMMA ReloadingStep ==
  ASSUME TypeOK, Nesting, Reloading, [Next]_vars
  PROVE  Reloading'
<1> USE DEF incomingVars, lifeVars, queueVars, pumpVars, frameVars, quitVars
<1>1. CASE DestroyStep \/ Destroy \/ BindToCurrentThread
  BY <1>1 DEF DestroyStep, DeletePendingTasks, DestroyReload, WillDestroyCurrentMessageLoop, Destroy,
              BindToCurrentThread, Reloading
<1>2. ASSUME NEW d \in Depths, LoopStep(d) PROVE Reloading'
  <2>1. phase' = phase /\ depth = d
    BY <1>2 DEF LoopStep, DoWorkRefused, DoWorkReload, DoWorkDelayed, DoWorkImmediate, DoDelayedWorkNothing,
                DoDelayedWorkEarly, DoDelayedWorkDue, DoIdleWorkDeferred, DoIdleWorkIdle, Wait, Wake,
                AfterRun, PumpAt
  <2>2. depth > 0
    BY <2>1 DEF Depths
  <2>3. phase' # "reload"
    BY <2>1, <2>2 DEF Nesting
  <2> QED
    BY <2>3 DEF Reloading
<1>3. CASE \/ UNCHANGED vars \/ Tick \/ QuitNow \/ QuitWhenIdle
           \/ (\E allowed \in BOOLEAN : SetNestableTasksAllowed(allowed))
           \/ (\E delay \in Delays, nestable \in BOOLEAN : Post(delay, nestable))
           \/ (\E d \in Depths : Quit(d) \/ FinishTask(d))
           \/ (\E d \in Depths, untilIdle \in BOOLEAN : Run(d, untilIdle))
  <2>1. UNCHANGED <<phase, work_queue>>
    BY <1>3 DEF vars, Tick, QuitNow, QuitWhenIdle, SetNestableTasksAllowed, Post, Quit, FinishTask, Run
  <2> QED
    BY <2>1 DEF Reloading
<1> QED
  BY <1>1, <1>2, <1>3 DEF Next

------------------------------------------------------------------------------
(* The theorems *)

\* The invariant holds of a new loop.
LEMMA InitTasks == Init => TInv
<1> SUFFICES ASSUME Init PROVE TInv
  OBVIOUS
<1>1. IInv
  BY InitInv
<1>2. /\ incoming_queue = <<>> /\ work_queue = <<>> /\ deferred = <<>> /\ delayed_work_queue = {}
      /\ next_sequence_num = 0 /\ gone = {} /\ recent_time <= now /\ phase = "unbound"
  BY DEF Init, Null
<1>3. \A d \in Depths : task[d] = NoTask
  BY DEF Init
<1>4. RunningSeqs = {} /\ RunOnce
  BY <1>3 DEF RunningSeqs, RunOnce
<1>5. DelayedSeqs = {}
  BY <1>2 DEF DelayedSeqs
<1>6. 0..(next_sequence_num - 1) = {}
  BY <1>2
<1>7. Conserved
  BY <1>2, <1>4, <1>5, <1>6, SeqsEmpty DEF Conserved, Partition
<1>8. InOrder
  BY <1>2, <1>5, SeqsEmpty DEF InOrder
<1>9. PutOff
  BY <1>2, SeqsEmpty DEF PutOff
<1> QED
  BY <1>1, <1>2, <1>7, <1>8, <1>9 DEF TInv, Reloading

\* The inductive invariant of the tasks holds throughout: where they are, in which order,
\* and which of them a nested loop has put off.
THEOREM TaskInvariance == Spec => []TInv
<1>1. TInv /\ [Next]_vars => TInv'
  <2> SUFFICES ASSUME TInv, [Next]_vars PROVE TInv'
    OBVIOUS
  <2>1. IInv /\ TypeOK /\ Nesting /\ Conserved /\ InOrder /\ PutOff /\ Reloading /\ recent_time <= now
    BY DEF TInv, IInv, PutOff
  <2>2. Moves
    BY <2>1, Movement
  <2>3. IInv'
    BY <2>1, TypeStep, NestingStep, SchedulingStep, DelayedWorkStep, QuittingStep DEF IInv
  <2>4. Conserved' /\ InOrder' /\ PutOff' /\ Reloading'
    BY <2>1, <2>2, ConservedStep, InOrderStep, PutOffStep, ReloadingStep
  <2> QED
    BY <2>3, <2>4 DEF TInv
<1> QED
  BY <1>1, InitTasks, PTL DEF Spec

\* A queue of distinct tasks holds a task at one index or at none.
LEMMA OneIndex ==
  ASSUME NEW q, NEW n, Distinct(q)
  PROVE  /\ n \in Seqs(q) => \E i : {j \in 1..Len(q) : q[j].seq = n} = {i}
         /\ n \notin Seqs(q) => {j \in 1..Len(q) : q[j].seq = n} = {}
<1>1. ASSUME n \in Seqs(q) PROVE \E i : {j \in 1..Len(q) : q[j].seq = n} = {i}
  <2>1. PICK i \in 1..Len(q) : q[i].seq = n
    BY <1>1 DEF Seqs
  <2>2. {j \in 1..Len(q) : q[j].seq = n} = {i}
    BY <2>1 DEF Distinct
  <2> QED
    BY <2>2
<1>2. ASSUME n \notin Seqs(q) PROVE {j \in 1..Len(q) : q[j].seq = n} = {}
  BY <1>2 DEF Seqs
<1> QED
  BY <1>1, <1>2

\* No accepted task is lost, held twice or brought back while it moves between the queues,
\* the RunLoops and ~MessageLoop, for any number of tasks and nested loops.
THEOREM TasksAreConserved == Spec => []TaskConservation
<1>1. TInv => TaskConservation
  <2> SUFFICES ASSUME TInv, NEW n \in 0..(next_sequence_num - 1)
               PROVE  Cardinality(Places(n)) = 1
    BY DEF TaskConservation
  <2> DEFINE A == {j \in 1..Len(incoming_queue) : incoming_queue[j].seq = n}
             B == {j \in 1..Len(work_queue) : work_queue[j].seq = n}
             C == {j \in 1..Len(deferred) : deferred[j].seq = n}
             D == {u \in delayed_work_queue : u.seq = n}
             E == {e \in 1..depth : task[e] # NoTask /\ task[e].seq = n}
             G == {j \in gone : j = n}
  <2>1. /\ Distinct(incoming_queue) /\ Distinct(work_queue) /\ Distinct(deferred) /\ RunOnce
        /\ \A t, u \in delayed_work_queue : t.seq = u.seq => t = u
        /\ Partition(Seqs(incoming_queue), Seqs(work_queue), Seqs(deferred), DelayedSeqs, RunningSeqs, gone)
    BY DEF TInv, Conserved
  <2>2. /\ n \in Seqs(incoming_queue) => \E x : A = {x}
        /\ n \notin Seqs(incoming_queue) => A = {}
    BY <2>1, OneIndex
  <2>3. /\ n \in Seqs(work_queue) => \E x : B = {x}
        /\ n \notin Seqs(work_queue) => B = {}
    BY <2>1, OneIndex
  <2>4. /\ n \in Seqs(deferred) => \E x : C = {x}
        /\ n \notin Seqs(deferred) => C = {}
    BY <2>1, OneIndex
  <2>5. ASSUME n \in DelayedSeqs PROVE \E x : D = {x}
    <3>1. PICK u \in delayed_work_queue : u.seq = n
      BY <2>5 DEF DelayedSeqs
    <3>2. D = {u}
      BY <2>1, <3>1
    <3> QED
      BY <3>2
  <2>6. n \notin DelayedSeqs => D = {}
    BY DEF DelayedSeqs
  <2>7. depth \in 0..MaxDepth /\ (\A d \in Depths : task[d] # NoTask => d <= depth) /\ 1..depth \subseteq Depths
    <3>1. depth \in 0..MaxDepth /\ \A d \in Depths : (task[d] # NoTask <=> pc[d] = "task") /\ (pc[d] = "none" <=> d > depth)
      BY DEF TInv, IInv, TypeOK
    <3>2. \A d \in Depths : d \in Nat
      BY DEF Depths
    <3> QED
      BY <3>1, <3>2, BoundsAssumption DEF Depths
  <2>8. ASSUME n \in RunningSeqs PROVE \E x : E = {x}
    <3>1. PICK d \in Depths : task[d] # NoTask /\ task[d].seq = n
      BY <2>8 DEF RunningSeqs
    <3>2. d \in 1..depth
      BY <2>7, <3>1 DEF Depths
    <3>3. E = {d}
      BY <2>1, <2>7, <3>1, <3>2 DEF RunOnce
    <3> QED
      BY <3>3
  <2>9. n \notin RunningSeqs => E = {}
    BY <2>7 DEF RunningSeqs
  <2>10. (n \in gone => \E x : G = {x}) /\ (n \notin gone => G = {})
    BY Zenon
  <2>11. \/ (\E x : A = {x}) /\ B = {} /\ C = {} /\ D = {} /\ E = {} /\ G = {}
         \/ A = {} /\ (\E x : B = {x}) /\ C = {} /\ D = {} /\ E = {} /\ G = {}
         \/ A = {} /\ B = {} /\ (\E x : C = {x}) /\ D = {} /\ E = {} /\ G = {}
         \/ A = {} /\ B = {} /\ C = {} /\ (\E x : D = {x}) /\ E = {} /\ G = {}
         \/ A = {} /\ B = {} /\ C = {} /\ D = {} /\ (\E x : E = {x}) /\ G = {}
         \/ A = {} /\ B = {} /\ C = {} /\ D = {} /\ E = {} /\ (\E x : G = {x})
    <3>1. n \in Seqs(incoming_queue) \union Seqs(work_queue) \union Seqs(deferred) \union DelayedSeqs
                \union RunningSeqs \union gone
      BY <2>1 DEF Partition
    <3> HIDE DEF A, B, C, D, E, G
    <3>2. CASE n \in Seqs(incoming_queue)
      BY <2>1, <2>2, <2>3, <2>4, <2>6, <2>9, <2>10, <3>2 DEF Partition
    <3>3. CASE n \in Seqs(work_queue)
      BY <2>1, <2>2, <2>3, <2>4, <2>6, <2>9, <2>10, <3>3 DEF Partition
    <3>4. CASE n \in Seqs(deferred)
      BY <2>1, <2>2, <2>3, <2>4, <2>6, <2>9, <2>10, <3>4 DEF Partition
    <3>5. CASE n \in DelayedSeqs
      BY <2>1, <2>2, <2>3, <2>4, <2>5, <2>9, <2>10, <3>5 DEF Partition
    <3>6. CASE n \in RunningSeqs
      BY <2>1, <2>2, <2>3, <2>4, <2>6, <2>8, <2>10, <3>6 DEF Partition
    <3>7. CASE n \in gone
      BY <2>1, <2>2, <2>3, <2>4, <2>6, <2>9, <2>10, <3>7 DEF Partition
    <3> QED
      BY <3>1, <3>2, <3>3, <3>4, <3>5, <3>6, <3>7
  <2>12. Places(n) = {<<"incoming", i>> : i \in A} \union {<<"work", i>> : i \in B}
                     \union {<<"deferred", i>> : i \in C} \union {<<"delayed", t.time>> : t \in D}
                     \union {<<"running", d>> : d \in E} \union {<<"gone", i>> : i \in G}
    BY DEF Places
  <2> HIDE DEF A, B, C, D, E, G
  <2>13. \E p : Places(n) = {p}
    <3>1. CASE (\E x : A = {x}) /\ B = {} /\ C = {} /\ D = {} /\ E = {} /\ G = {}
      <4>1. PICK x : A = {x}
        BY <3>1
      <4>2. Places(n) = {<<"incoming", x>>}
        BY <2>12, <3>1, <4>1
      <4> QED
        BY <4>2
    <3>2. CASE A = {} /\ (\E x : B = {x}) /\ C = {} /\ D = {} /\ E = {} /\ G = {}
      <4>1. PICK x : B = {x}
        BY <3>2
      <4>2. Places(n) = {<<"work", x>>}
        BY <2>12, <3>2, <4>1
      <4> QED
        BY <4>2
    <3>3. CASE A = {} /\ B = {} /\ (\E x : C = {x}) /\ D = {} /\ E = {} /\ G = {}
      <4>1. PICK x : C = {x}
        BY <3>3
      <4>2. Places(n) = {<<"deferred", x>>}
        BY <2>12, <3>3, <4>1
      <4> QED
        BY <4>2
    <3>4. CASE A = {} /\ B = {} /\ C = {} /\ (\E x : D = {x}) /\ E = {} /\ G = {}
      <4>1. PICK x : D = {x}
        BY <3>4
      <4>2. Places(n) = {<<"delayed", x.time>>}
        BY <2>12, <3>4, <4>1
      <4> QED
        BY <4>2
    <3>5. CASE A = {} /\ B = {} /\ C = {} /\ D = {} /\ (\E x : E = {x}) /\ G = {}
      <4>1. PICK x : E = {x}
        BY <3>5
      <4>2. Places(n) = {<<"running", x>>}
        BY <2>12, <3>5, <4>1
      <4> QED
        BY <4>2
    <3>6. CASE A = {} /\ B = {} /\ C = {} /\ D = {} /\ E = {} /\ (\E x : G = {x})
      <4>1. PICK x : G = {x}
        BY <3>6
      <4>2. Places(n) = {<<"gone", x>>}
        BY <2>12, <3>6, <4>1
      <4> QED
        BY <4>2
    <3> QED
      BY <2>11, <3>1, <3>2, <3>3, <3>4, <3>5, <3>6
  <2> QED
    BY <2>13, FS_Singleton
<1> QED
  BY <1>1, TaskInvariance, PTL

\* Only the task that a step begins starts in it.
LEMMA StartsOnly ==
  ASSUME TypeOK, Moves, NEW t, Starts(t)
  PROVE  t \in Task /\ Begins(t) /\ (WorkMoves(t) \/ DelayedMoves(t) \/ DeferredMoves(t))
<1>1. t \in Running' /\ t \notin Running
  BY DEF Starts
<1>2. ~UNCHANGED task
  BY <1>1 DEF Running
<1>3. ~Ended
  <2>1. ASSUME NEW d \in Depths, task' = [task EXCEPT ![d] = NoTask] PROVE Running' \subseteq Running
    <3>1. \A e \in Depths : task'[e] = NoTask \/ task'[e] = task[e]
      BY <2>1 DEF TypeOK
    <3> QED
      BY <3>1 DEF Running
  <2> QED
    BY <1>1, <2>1 DEF Ended
<1>4. PICK u \in Task : WorkMoves(u) \/ DelayedMoves(u) \/ DeferredMoves(u)
  BY <1>2, <1>3 DEF Moves, Rests, Posted, Reloaded, DeletedAll
<1>5. Begins(u)
  BY <1>2, <1>4 DEF WorkMoves, DelayedMoves, DeferredMoves, Puts
<1>6. t = u
  <2>1. PICK d \in Depths : task' = [task EXCEPT ![d] = u]
    BY <1>5 DEF Begins
  <2>2. \A e \in Depths : task'[e] = u \/ task'[e] = task[e]
    BY <2>1 DEF TypeOK
  <2> QED
    BY <1>1, <2>2 DEF Running
<1> QED
  BY <1>4, <1>5, <1>6

\* A task starts no earlier than its delay says, a non-nestable one never inside another,
\* and none while the running task forbids it (RunTask, DoDelayedWork, DoIdleWork).
THEOREM LegalStarts == Spec => StartsAreLegal
<1> DEFINE Legal == \A t \in TasksIn(work_queue) \union delayed_work_queue \union TasksIn(deferred) :
                      Starts(t) => /\ t.time <= now
                                   /\ t.nestable \/ Running = {}
                                   /\ nestable_tasks_allowed
<1>1. TInv /\ [Next]_vars => [Legal]_vars
  <2> SUFFICES ASSUME TInv, [Next]_vars, NEW t, Starts(t)
               PROVE  t.time <= now /\ (t.nestable \/ Running = {}) /\ nestable_tasks_allowed
    OBVIOUS
  <2>1. IInv /\ TypeOK /\ PutOff /\ Reloading /\ recent_time <= now
    BY DEF TInv, IInv, PutOff
  <2>2. t \in Task /\ Begins(t) /\ (WorkMoves(t) \/ DelayedMoves(t) \/ DeferredMoves(t))
    BY <2>1, Movement, StartsOnly
  <2>3. nestable_tasks_allowed /\ (t.nestable \/ Running = {})
    BY <2>2 DEF Begins, Running
  <2>4. t.time <= now
    <3>1. CASE WorkMoves(t)
      <4>1. t.time = Null
        <5>1. ASSUME UNCHANGED task PROVE FALSE
          BY <5>1 DEF Starts, Running
        <5> QED
          BY <3>1, <5>1 DEF WorkMoves, Puts
      <4>2. now \in Nat
        BY <2>1 DEF TypeOK
      <4> QED
        BY <4>1, <4>2 DEF Null
    <3>2. CASE DelayedMoves(t)
      BY <3>2 DEF DelayedMoves, LeavesDelayed
    <3>3. CASE DeferredMoves(t)
      <4>1. t \in TasksIn(deferred)
        BY <2>1, <3>3, SeqsTail DEF DeferredMoves, TypeOK, TInv, Conserved
      <4> QED
        BY <2>1, <4>1 DEF PutOff
    <3> QED
      BY <2>2, <3>1, <3>2, <3>3
  <2> QED
    BY <2>3, <2>4
<1>2. StartsAreLegal <=> [][Legal]_vars
  BY DEF StartsAreLegal
<1> QED
  BY <1>1, <1>2, TaskInvariance, PTL DEF Spec

\* Tasks start in the order sequenced_task_runner.h promises, except that a non-nestable
\* task may be overtaken once a nested loop has put it off.
THEOREM StartsInOrder == Spec => OrderUnlessDeferred
<1> DEFINE Order == \A t2 \in TasksIn(work_queue) \union delayed_work_queue \union TasksIn(deferred) :
                      Starts(t2) => \A t1 \in Waiting : ~Ordered(t1, t2)
<1>1. TInv /\ [Next]_vars => [Order]_vars
  <2> SUFFICES ASSUME TInv, [Next]_vars, NEW t2, Starts(t2), NEW t1 \in Waiting, Ordered(t1, t2)
               PROVE  FALSE
    OBVIOUS
  <2>1. IInv /\ TypeOK /\ PutOff /\ Reloading /\ recent_time <= now /\ Conserved /\ InOrder
    BY DEF TInv, IInv, PutOff
  <2>2. t2 \in Task /\ Begins(t2) /\ (WorkMoves(t2) \/ DelayedMoves(t2) \/ DeferredMoves(t2))
    BY <2>1, Movement, StartsOnly
  <2>3. \/ t1.seq \in Seqs(incoming_queue)
        \/ t1.seq \in Seqs(work_queue)
        \/ t1 \in delayed_work_queue
    <3>1. t1 \in TasksIn(incoming_queue) \/ t1 \in TasksIn(work_queue) \/ t1 \in delayed_work_queue
      BY DEF Waiting
    <3>2. CASE t1 \in TasksIn(incoming_queue)
      BY <3>2, TasksInSeqs
    <3>3. CASE t1 \in TasksIn(work_queue)
      BY <3>3, TasksInSeqs
    <3> QED
      BY <3>1, <3>2, <3>3
  <2>4. t1.seq \in Nat
    <3>1. CASE t1 \in delayed_work_queue
      BY <2>1, <3>1 DEF TypeOK, Task
    <3> QED
      BY <2>1, <2>3, <3>1, NumbersAreNatural
  <2>5. t2.seq \in Nat /\ t2.time \in Nat
    BY <2>2 DEF Task
  <2>6. t1.seq < t2.seq /\ t1.time <= t2.time /\ ~(t2.seq <= t1.seq)
    BY <2>4, <2>5 DEF Ordered
  <2>7. t2 \in delayed_work_queue => t2.seq \in DelayedSeqs
    BY DEF DelayedSeqs
  <2>8. CASE WorkMoves(t2)
    <3>1. t2.time = Null
      <4>1. ASSUME UNCHANGED task PROVE FALSE
        BY <4>1 DEF Starts, Running
      <4> QED
        BY <2>8, <4>1 DEF WorkMoves, Puts
    <3>2. t2.seq \in Seqs(work_queue) /\ \A n \in Seqs(work_queue) : t2.seq <= n
      BY <2>1, <2>8, SeqsTail DEF WorkMoves, LeavesWork, TypeOK, Conserved, InOrder
    <3>3. CASE t1.seq \in Seqs(incoming_queue)
      <4>1. t2.seq < t1.seq
        BY <2>1, <3>2, <3>3 DEF InOrder
      <4> QED
        BY <2>4, <2>5, <2>6, <4>1
    <3>4. CASE t1 \in delayed_work_queue
      <4>1. t1.time # Null /\ t1.time \in Nat
        BY <2>1, <3>4 DEF IInv, DelayedWork, TypeOK, Task
      <4> QED
        BY <2>6, <3>1, <4>1 DEF Null
    <3> QED
      BY <2>3, <2>6, <3>2, <3>3, <3>4
  <2>9. ASSUME t2.seq \in DelayedSeqs \union Seqs(deferred), t1 \notin delayed_work_queue PROVE FALSE
    <3>1. t2.seq < t1.seq
      BY <2>1, <2>3, <2>9 DEF InOrder
    <3> QED
      BY <2>4, <2>5, <2>6, <3>1
  <2>10. CASE DelayedMoves(t2)
    <3>1. t2 \in delayed_work_queue /\ IsTop(t2, delayed_work_queue)
      BY <2>10 DEF DelayedMoves, LeavesDelayed
    <3>2. CASE t1 \in delayed_work_queue
      <4>1. t2.time < t1.time \/ (t2.time = t1.time /\ t2.seq <= t1.seq)
        BY <3>1, <3>2 DEF IsTop
      <4>2. t1.time \in Nat
        BY <2>1, <3>2 DEF TypeOK, Task
      <4> QED
        BY <2>5, <2>6, <4>1, <4>2
    <3> QED
      BY <2>7, <2>9, <3>1, <3>2
  <2>11. CASE DeferredMoves(t2)
    <3>1. t2 \in TasksIn(deferred) /\ t2.seq \in Seqs(deferred)
      BY <2>1, <2>11, SeqsTail DEF DeferredMoves, TypeOK, Conserved
    <3>2. CASE t1 \in delayed_work_queue
      BY <2>1, <2>6, <3>1, <3>2 DEF PutOff
    <3> QED
      BY <2>9, <3>1, <3>2
  <2> QED
    BY <2>2, <2>8, <2>10, <2>11
<1>2. OrderUnlessDeferred <=> [][Order]_vars
  BY DEF OrderUnlessDeferred
<1> QED
  BY <1>1, <1>2, TaskInvariance, PTL DEF Spec
==============================================================================
