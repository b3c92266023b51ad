-------------------------- MODULE MessageLoopProofs --------------------------
(***************************************************************************)
(* Theorems about MessageLoop: its types, and that no pump sleeps through  *)
(* a post, a delayed task or a request to quit, for any number of tasks    *)
(* and nested loops.  They follow from the inductive invariant IInv.       *)
(***************************************************************************)
EXTENDS MessageLoop, TLAPS

------------------------------------------------------------------------------
(* The inductive invariant *)

\* Only a bound loop runs; whoever runs a nested loop is in a task, and outside of
\* tasks the outermost loop may run any.
Nesting ==
  /\ depth > 0 => phase = "bound"
  /\ phase = "bound" => is_ready_for_scheduling
  /\ \A d \in 1..(depth - 1) : pc[d] = "task"
  /\ depth <= 1 /\ ~InTask => nestable_tasks_allowed

\* The innermost pump will sleep without another look at the queues.
PastDoWork ==
  /\ depth > 0
  /\ \/ pc[depth] \in {"DoIdleWork", "Wait", "asleep"}
     \/ pc[depth] = "DoDelayedWork" /\ ~did_work[depth]

PastDoDelayedWork == depth > 0 /\ pc[depth] \in {"DoIdleWork", "Wait", "asleep"}

\* message_loop_scheduled_ says that somebody will look at what is in the incoming
\* queue: a pump that has not yet done so, or one the event will wake.
Scheduling ==
  /\ phase = "bound" /\ incoming_queue # <<>> => message_loop_scheduled
  /\ PastDoWork /\ nestable_tasks_allowed =>
       work_queue = <<>> /\ (message_loop_scheduled => event)

\* delayed_work_time_ is that of the first delayed task, or earlier, from DoDelayedWork
\* to the next DoWork.
DelayedWork ==
  /\ \A t \in delayed_work_queue : t.time # Null
  /\ PastDoDelayedWork /\ nestable_tasks_allowed =>
       \A t \in delayed_work_queue : delayed_work_time # Null /\ delayed_work_time <= t.time

\* The loops that were asked to end, but for those whose QuitNow is lost.
Heard == {d \in Depths : IsAsked(d)}

\* What the innermost loop was asked, or has inherited, is in keep_running_ or in its
\* quit_when_idle; what the outer ones were asked is in their own flags.
Quitting ==
  /\ \A d \in Depths :
       /\ d > depth => ~quit_called[d] /\ d \notin lost
       /\ d <= depth /\ (quit_called[d] \/ quit_when_idle[d]) => d \in Heard
       /\ d < depth /\ d \in Heard => quit_called[d] \/ quit_when_idle[d]
  /\ depth > 0 =>
       /\ ~keep_running => depth \in Heard \/ inherited
       /\ depth \in Heard /\ keep_running => quit_when_idle[depth]
       /\ pc[depth] \in {"DoDelayedWork", "DoIdleWork", "Wait", "asleep"} => keep_running
       /\ pc[depth] \in {"Wait", "asleep"} => ~quit_when_idle[depth]
       /\ pc[depth] = "AfterRun" => ~keep_running

IInv == TypeOK /\ Nesting /\ Scheduling /\ DelayedWork /\ Quitting

------------------------------------------------------------------------------
(* The parts the steps are made of *)

\* Where the pump goes when a method of its delegate has returned.
LEMMA ReturnedFacts ==
  ASSUME TypeOK, NEW d \in Depths, NEW m \in Method, NEW r \in BOOLEAN, NEW keep \in BOOLEAN,
         Returned(d, m, r, keep)
  PROVE  /\ pc' \in [Depths -> PC] /\ did_work' \in [Depths -> BOOLEAN]
         /\ \A e \in Depths : e # d => pc'[e] = pc[e]
         /\ pc'[d] \in {"AfterRun", "DoWork", "DoDelayedWork", "DoIdleWork", "Wait"}
         /\ pc'[d] = "AfterRun" <=> ~keep
         /\ pc'[d] = "DoDelayedWork" => m = "DoWork" /\ did_work'[d] = r
         /\ pc'[d] = "DoIdleWork" => m = "DoDelayedWork" /\ ~did_work[d] /\ ~r
         /\ pc'[d] = "Wait" => m = "DoIdleWork" /\ ~r
<1> DEFINE to == CASE ~keep -> "AfterRun"
                   [] keep /\ m = "DoWork" -> "DoDelayedWork"
                   [] keep /\ m = "DoDelayedWork" -> IF did_work[d] \/ r THEN "DoWork" ELSE "DoIdleWork"
                   [] keep /\ m = "DoIdleWork" -> IF r THEN "DoWork" ELSE "Wait"
<1>1. /\ to \in {"AfterRun", "DoWork", "DoDelayedWork", "DoIdleWork", "Wait"}
      /\ to = "AfterRun" <=> ~keep
      /\ to = "DoDelayedWork" => m = "DoWork"
      /\ to = "DoIdleWork" => m = "DoDelayedWork" /\ ~did_work[d] /\ ~r
      /\ to = "Wait" => m = "DoIdleWork" /\ ~r
  BY DEF Method
<1>2. pc' = [pc EXCEPT ![d] = to] /\ did_work' = [did_work EXCEPT ![d] = (m = "DoWork" /\ r)]
  BY DEF Returned
<1> HIDE DEF to
<1>3. pc' \in [Depths -> PC] /\ pc'[d] = to /\ \A e \in Depths : e # d => pc'[e] = pc[e]
  BY <1>1, <1>2 DEF TypeOK, PC, Method
<1>4. did_work' \in [Depths -> BOOLEAN] /\ (m = "DoWork" => did_work'[d] = r)
  BY <1>2 DEF TypeOK
<1> QED
  BY <1>1, <1>3, <1>4

\* What RunTask leaves before it calls the closure.
LEMMA RunTaskFacts ==
  ASSUME TypeOK, NEW d \in Depths, NEW m \in Method, NEW t \in Task, RunTask(d, m, t)
  PROVE  /\ pc' \in [Depths -> PC] /\ task' \in [Depths -> Task \union {NoTask}]
         /\ from' \in [Depths -> Method] /\ did_work' = did_work
         /\ nestable_tasks_allowed' = FALSE /\ nestable_tasks_allowed' \in BOOLEAN
         /\ pc'[d] = "task" /\ task'[d] = t /\ task'[d] # NoTask
         /\ \A e \in Depths : e # d => pc'[e] = pc[e] /\ task'[e] = task[e]
<1>1. pc' \in [Depths -> PC] /\ pc'[d] = "task" /\ \A e \in Depths : e # d => pc'[e] = pc[e]
  BY DEF RunTask, TypeOK, PC
<1>2. task' \in [Depths -> Task \union {NoTask}] /\ task'[d] = t /\ task'[d] # NoTask
      /\ \A e \in Depths : e # d => task'[e] = task[e]
  BY NoTaskAssumption DEF RunTask, TypeOK
<1>3. from' \in [Depths -> Method] /\ did_work' = did_work
  BY DEF RunTask, TypeOK
<1> QED
  BY <1>1, <1>2, <1>3 DEF RunTask

\* Swapping the queues loses nothing, and leaves the flag only if there was something.
LEMMA SwapQueuesFacts ==
  ASSUME TypeOK, SwapQueues
  PROVE  /\ work_queue' \in Seq(Task) /\ incoming_queue' \in Seq(Task)
         /\ message_loop_scheduled' \in BOOLEAN
         /\ incoming_queue = <<>> => /\ UNCHANGED <<work_queue, incoming_queue>>
                                     /\ ~message_loop_scheduled'
         /\ incoming_queue # <<>> => /\ work_queue' = incoming_queue /\ incoming_queue' = work_queue
                                     /\ message_loop_scheduled' = message_loop_scheduled
<1>1. message_loop_scheduled' \in BOOLEAN
  BY DEF SwapQueues
<1> QED
  BY <1>1 DEF SwapQueues, TypeOK

------------------------------------------------------------------------------
(* Types *)

\* Every frame below the innermost runs a task, and only those.
Frames == \A d \in Depths : (task[d] # NoTask <=> pc[d] = "task") /\ (pc[d] = "none" <=> d > depth)

\* A method that returns keeps the types of the pump's frame.
LEMMA ReturnedType ==
  ASSUME TypeOK, NEW d \in Depths, NEW m \in Method, NEW r \in BOOLEAN,
         Returned(d, m, r, keep_running), PumpAt(d, m), UNCHANGED <<task, depth>>
  PROVE  pc' \in [Depths -> PC] /\ did_work' \in [Depths -> BOOLEAN] /\ Frames'
<1>1. keep_running \in BOOLEAN /\ Frames
  BY DEF TypeOK, Frames
<1>2. pc[d] # "task" /\ pc[d] # "none"
  BY DEF PumpAt, Method
<1>3. /\ pc' \in [Depths -> PC] /\ did_work' \in [Depths -> BOOLEAN]
      /\ \A e \in Depths : e # d => pc'[e] = pc[e]
      /\ pc'[d] \in {"AfterRun", "DoWork", "DoDelayedWork", "DoIdleWork", "Wait"}
  BY <1>1, ReturnedFacts
<1> QED
  BY <1>1, <1>2, <1>3 DEF Frames

\* Steps outside the loops keep the types.
LEMMA OutsideType ==
  ASSUME TypeOK,
         \/ Tick \/ (\E delay \in Delays, nestable \in BOOLEAN : Post(delay, nestable))
         \/ BindToCurrentThread \/ Destroy \/ DestroyStep
  PROVE  TypeOK'
<1> USE DEF incomingVars, lifeVars, queueVars, pumpVars, frameVars, quitVars
<1>1. CASE Tick
  <2>1. now' \in 1..MaxTime
    BY <1>1, BoundsAssumption DEF Tick, TypeOK
  <2> QED
    BY <1>1, <2>1 DEF Tick, TypeOK
<1>2. ASSUME NEW delay \in Delays, NEW nestable \in BOOLEAN, Post(delay, nestable)
      PROVE  TypeOK'
  <2> DEFINE t == [seq |-> next_sequence_num, time |-> CalculateDelayedRuntime(delay),
                   nestable |-> nestable]
  <2>1. CalculateDelayedRuntime(delay) \in Nat /\ next_sequence_num \in Nat
    BY BoundsAssumption DEF CalculateDelayedRuntime, TypeOK, Null
  <2>2. t \in Task
    BY <2>1 DEF Task
  <2>3. incoming_queue' \in Seq(Task)
    BY <1>2, <2>2 DEF Post, TypeOK
  <2>4. next_sequence_num' \in 0..MaxTasks
    BY <1>2, BoundsAssumption DEF Post, TypeOK
  <2>5. event' \in BOOLEAN /\ message_loop_scheduled' \in BOOLEAN
    BY <1>2 DEF Post
  <2> QED
    BY <1>2, <2>3, <2>4, <2>5 DEF Post, TypeOK
<1>3. CASE BindToCurrentThread
  <2>1. event' \in BOOLEAN /\ message_loop_scheduled' \in BOOLEAN /\ is_ready_for_scheduling' \in BOOLEAN
    BY <1>3 DEF BindToCurrentThread
  <2> QED
    BY <1>3, <2>1 DEF BindToCurrentThread, TypeOK, Phase
<1>4. CASE Destroy
  BY <1>4 DEF Destroy, TypeOK, Phase
<1>5. CASE DeletePendingTasks
  <2>1. phase' \in {"delete", "reload", "unhook"} /\ phase' \in Phase
    BY <1>5 DEF DeletePendingTasks, Phase
  <2>2. passes' \in 0..MaxPasses
    BY <1>5, BoundsAssumption DEF DeletePendingTasks, TypeOK
  <2>3. gone' \in SUBSET Nat
    <3>1. \A q \in Seq(Task) : Seqs(q) \subseteq Nat
      <4>1. ASSUME NEW q \in Seq(Task), NEW i \in 1..Len(q) PROVE q[i].seq \in Nat
        <5>1. q[i] \in Task
          BY <4>1
        <5> QED
          BY <5>1 DEF Task
      <4> QED
        BY <4>1 DEF Seqs
    <3>2. Seqs(work_queue) \subseteq Nat /\ Seqs(deferred) \subseteq Nat
      BY <3>1 DEF TypeOK
    <3>3. {t.seq : t \in delayed_work_queue} \subseteq Nat
      BY DEF TypeOK, Task
    <3> QED
      BY <1>5, <3>2, <3>3 DEF DeletePendingTasks, TypeOK
  <2>4. work_queue' \in Seq(Task) /\ deferred' \in Seq(Task) /\ delayed_work_queue' \in SUBSET Task
    BY <1>5 DEF DeletePendingTasks
  <2> QED
    BY <1>5, <2>1, <2>2, <2>3, <2>4 DEF DeletePendingTasks, TypeOK
<1>6. CASE DestroyReload
  BY <1>6, SwapQueuesFacts DEF DestroyReload, TypeOK, Phase
<1>7. CASE WillDestroyCurrentMessageLoop
  BY <1>7 DEF WillDestroyCurrentMessageLoop, TypeOK, Phase
<1> QED
  BY <1>1, <1>2, <1>3, <1>4, <1>5, <1>6, <1>7 DEF DestroyStep

\* The head of a queue of tasks is a task.
LEMMA HeadIsTask ==
  ASSUME NEW q \in Seq(Task), q # <<>>
  PROVE  Head(q) \in Task /\ Tail(q) \in Seq(Task)
OBVIOUS

\* The steps of DoWork keep the types.
LEMMA DoWorkType ==
  ASSUME TypeOK, NEW d \in Depths,
         DoWorkRefused(d) \/ DoWorkReload(d) \/ DoWorkDelayed(d) \/ DoWorkImmediate(d)
  PROVE  TypeOK'
<1> USE DEF incomingVars, lifeVars, queueVars, pumpVars, frameVars, quitVars
<1>0. "DoWork" \in Method /\ keep_running \in BOOLEAN /\ PumpAt(d, "DoWork") /\ depth = d
  BY DEF Method, TypeOK, DoWorkRefused, DoWorkReload, DoWorkDelayed, DoWorkImmediate, PumpAt
<1>1. CASE DoWorkRefused(d)
  <2>1. pc' \in [Depths -> PC] /\ did_work' \in [Depths -> BOOLEAN] /\ Frames'
    BY <1>0, <1>1, ReturnedType DEF DoWorkRefused
  <2> QED
    BY <1>1, <2>1 DEF DoWorkRefused, TypeOK, Frames
<1>2. CASE DoWorkReload(d)
  <2>1. /\ work_queue' \in Seq(Task) /\ incoming_queue' \in Seq(Task)
        /\ message_loop_scheduled' \in BOOLEAN
    BY <1>2, SwapQueuesFacts DEF DoWorkReload
  <2>2. CASE Returned(d, "DoWork", FALSE, keep_running)
    <3>1. pc' \in [Depths -> PC] /\ did_work' \in [Depths -> BOOLEAN] /\ Frames'
      BY <1>0, <1>2, <2>2, ReturnedType DEF DoWorkReload
    <3> QED
      BY <1>2, <2>1, <3>1 DEF DoWorkReload, TypeOK, Frames
  <2>3. CASE UNCHANGED <<pc, did_work>>
    BY <1>2, <2>1, <2>3 DEF DoWorkReload, TypeOK
  <2> QED
    BY <1>2, <2>2, <2>3 DEF DoWorkReload
<1>3. CASE DoWorkDelayed(d)
  <2>1. Head(work_queue) \in Task /\ work_queue' \in Seq(Task)
    BY <1>3, HeadIsTask DEF DoWorkDelayed, TypeOK
  <2>2. delayed_work_queue' \in SUBSET Task /\ delayed_work_time' \in Nat
    BY <1>3, <2>1 DEF DoWorkDelayed, TypeOK, Task
  <2> QED
    BY <1>3, <2>1, <2>2 DEF DoWorkDelayed, TypeOK
<1>4. CASE DoWorkImmediate(d)
  <2> DEFINE t == Head(work_queue)
  <2>1. t \in Task /\ work_queue' \in Seq(Task)
    BY <1>4, HeadIsTask DEF DoWorkImmediate, TypeOK
  <2>2. CASE RunTask(d, "DoWork", t) /\ UNCHANGED deferred
    BY <1>0, <1>4, <2>1, <2>2, RunTaskFacts DEF DoWorkImmediate, PumpAt, TypeOK
  <2>3. CASE Defer(t) /\ UNCHANGED <<frameVars, nestable_tasks_allowed>>
    <3>1. deferred' \in Seq(Task)
      BY <2>1, <2>3 DEF Defer, TypeOK
    <3> QED
      BY <1>4, <2>1, <2>3, <3>1 DEF DoWorkImmediate, TypeOK
  <2> QED
    BY <1>4, <2>2, <2>3 DEF DoWorkImmediate
<1> QED
  BY <1>1, <1>2, <1>3, <1>4

\* The steps of DoDelayedWork keep the types.
LEMMA DoDelayedWorkType ==
  ASSUME TypeOK, NEW d \in Depths,
         DoDelayedWorkNothing(d) \/ DoDelayedWorkEarly(d) \/ DoDelayedWorkDue(d)
  PROVE  TypeOK'
<1> USE DEF incomingVars, lifeVars, queueVars, pumpVars, frameVars, quitVars
<1>0. "DoDelayedWork" \in Method /\ keep_running \in BOOLEAN /\ PumpAt(d, "DoDelayedWork")
  BY DEF Method, TypeOK, DoDelayedWorkNothing, DoDelayedWorkEarly, DoDelayedWorkDue
<1>1. CASE DoDelayedWorkNothing(d)
  <2>1. pc' \in [Depths -> PC] /\ did_work' \in [Depths -> BOOLEAN] /\ Frames'
    BY <1>0, <1>1, ReturnedType DEF DoDelayedWorkNothing
  <2> QED
    BY <1>1, <2>1 DEF DoDelayedWorkNothing, TypeOK, Frames, Null
<1>2. CASE DoDelayedWorkEarly(d)
  <2>1. recent_time' \in Nat /\ delayed_work_time' \in Nat
    BY <1>2, BoundsAssumption DEF DoDelayedWorkEarly, RecentTime, TypeOK, Task
  <2> QED
    <3>1. pc' \in [Depths -> PC] /\ did_work' \in [Depths -> BOOLEAN] /\ Frames'
      BY <1>0, <1>2, ReturnedType DEF DoDelayedWorkEarly
    <3> QED
      BY <1>2, <2>1, <3>1 DEF DoDelayedWorkEarly, TypeOK, Frames
<1>3. CASE DoDelayedWorkDue(d)
  <2>1. PICK t \in delayed_work_queue :
          /\ recent_time' = RecentTime(t)
          /\ delayed_work_queue' = delayed_work_queue \ {t}
          /\ \/ UNCHANGED delayed_work_time
             \/ \E u \in delayed_work_queue' : delayed_work_time' = u.time
          /\ \/ RunTask(d, "DoDelayedWork", t) /\ UNCHANGED deferred
             \/ /\ Defer(t) /\ Returned(d, "DoDelayedWork", FALSE, keep_running)
                /\ UNCHANGED <<nestable_tasks_allowed, task, from>>
    BY <1>3 DEF DoDelayedWorkDue
  <2>2. t \in Task /\ delayed_work_queue' \in SUBSET Task
    BY <2>1 DEF TypeOK
  <2>3. recent_time' \in Nat /\ delayed_work_time' \in Nat
    BY <2>1, <2>2, BoundsAssumption DEF RecentTime, TypeOK, Task
  <2>4. CASE RunTask(d, "DoDelayedWork", t) /\ UNCHANGED deferred
    BY <1>0, <1>3, <2>2, <2>3, <2>4, RunTaskFacts DEF DoDelayedWorkDue, PumpAt, TypeOK
  <2>5. CASE /\ Defer(t) /\ Returned(d, "DoDelayedWork", FALSE, keep_running)
             /\ UNCHANGED <<nestable_tasks_allowed, task, from>>
    <3>1. deferred' \in Seq(Task)
      BY <2>2, <2>5 DEF Defer, TypeOK
    <3> QED
      <4>1. pc' \in [Depths -> PC] /\ did_work' \in [Depths -> BOOLEAN] /\ Frames'
        BY <1>0, <1>3, <2>5, ReturnedType DEF DoDelayedWorkDue
      <4> QED
        BY <1>3, <2>2, <2>3, <2>5, <3>1, <4>1 DEF DoDelayedWorkDue, TypeOK, Frames
  <2> QED
    BY <2>1, <2>4, <2>5
<1> QED
  BY <1>1, <1>2, <1>3

\* The other steps of the pump keep the types.
LEMMA PumpType ==
  ASSUME TypeOK, NEW d \in Depths,
         DoIdleWorkDeferred(d) \/ DoIdleWorkIdle(d) \/ Wait(d) \/ Wake(d) \/ AfterRun(d)
  PROVE  TypeOK'
<1> USE DEF incomingVars, lifeVars, queueVars, pumpVars, frameVars, quitVars
<1>0. "DoIdleWork" \in Method
  BY DEF Method
<1>1. CASE DoIdleWorkDeferred(d)
  <2>1. Head(deferred) \in Task /\ deferred' \in Seq(Task)
    BY <1>1, HeadIsTask DEF DoIdleWorkDeferred, TypeOK
  <2> QED
    BY <1>0, <1>1, <2>1, RunTaskFacts DEF DoIdleWorkDeferred, PumpAt, TypeOK
<1>2. CASE DoIdleWorkIdle(d)
  <2>1. keep_running' \in BOOLEAN
    BY <1>2 DEF DoIdleWorkIdle
  <2> QED
    BY <1>0, <1>2, <2>1, ReturnedFacts DEF DoIdleWorkIdle, PumpAt, TypeOK
<1>3. CASE Wait(d)
  <2>1. PICK to \in {"DoWork", "asleep"} : pc' = [pc EXCEPT ![d] = to]
    BY <1>3 DEF Wait
  <2>2. delayed_work_time' \in Nat
    BY <1>3 DEF Wait, TypeOK, Null
  <2>3. pc' \in [Depths -> PC]
    BY <2>1 DEF TypeOK, PC, Method
  <2> QED
    BY <1>3, <2>1, <2>2, <2>3 DEF Wait, PumpAt, TypeOK
<1>4. CASE Wake(d)
  <2>1. event' \in BOOLEAN
    BY <1>4 DEF Wake, TypeOK
  <2>2. pc' \in [Depths -> PC]
    BY <1>4 DEF Wake, TypeOK, PC, Method
  <2> QED
    BY <1>4, <2>1, <2>2 DEF Wake, PumpAt, TypeOK
<1>5. CASE AfterRun(d)
  <2>1. keep_running' \in BOOLEAN
    BY <1>5 DEF AfterRun, KeepOuterRunning
  <2>2. depth' \in 0..MaxDepth /\ depth = d /\ depth' = d - 1 /\ d \in Nat
    BY <1>5, BoundsAssumption DEF AfterRun, PopRunLoop, PumpAt, TypeOK, Depths
  <2>3. pc' \in [Depths -> PC]
    BY <1>5 DEF AfterRun, TypeOK, PC
  <2>4. /\ did_work' \in [Depths -> BOOLEAN] /\ quit_called' \in [Depths -> BOOLEAN]
        /\ quit_when_idle' \in [Depths -> BOOLEAN] /\ asked' \in [Depths -> BOOLEAN]
        /\ lost' \in SUBSET Depths /\ inherited' \in BOOLEAN
    BY <1>5 DEF AfterRun, TypeOK
  <2>5. Frames'
    <3>1. \A e \in Depths : e \in Int /\ (e # d => (e > d <=> e > d - 1))
      BY DEF Depths
    <3>2. task'[d] = NoTask /\ pc'[d] = "none" /\ d > depth'
      BY <1>5, <2>2 DEF AfterRun, PumpAt, TypeOK
    <3>3. \A e \in Depths : e # d => pc'[e] = pc[e] /\ task'[e] = task[e]
      BY <1>5 DEF AfterRun, TypeOK
    <3>4. \A e \in Depths : e # d => (e > depth' <=> e > depth)
      BY <2>2, <3>1
    <3>5. Frames
      BY DEF TypeOK, Frames
    <3> QED
      BY <3>2, <3>3, <3>4, <3>5 DEF Frames
  <2> QED
    BY <1>5, <2>1, <2>2, <2>3, <2>4, <2>5 DEF AfterRun, TypeOK, Frames
<1> QED
  BY <1>1, <1>2, <1>3, <1>4, <1>5

\* What a task does keeps the types.
LEMMA TaskType ==
  ASSUME TypeOK,
         \/ QuitNow \/ QuitWhenIdle \/ (\E allowed \in BOOLEAN : SetNestableTasksAllowed(allowed))
         \/ \E d \in Depths : FinishTask(d) \/ Quit(d)
         \/ \E d \in Depths, untilIdle \in BOOLEAN : Run(d, untilIdle)
  PROVE  TypeOK'
<1> USE DEF incomingVars, lifeVars, queueVars, pumpVars, frameVars, quitVars
<1>1. CASE QuitNow
  <2>1. keep_running' \in BOOLEAN
    BY <1>1 DEF QuitNow
  <2>2. asked' \in [Depths -> BOOLEAN] /\ lost' \in SUBSET Depths
    BY <1>1 DEF QuitNow, TypeOK
  <2> QED
    BY <1>1, <2>1, <2>2 DEF QuitNow, TypeOK
<1>2. CASE QuitWhenIdle
  <2>1. asked' \in [Depths -> BOOLEAN] /\ lost' \in SUBSET Depths /\ quit_when_idle' \in [Depths -> BOOLEAN]
    BY <1>2 DEF QuitWhenIdle, TypeOK
  <2> QED
    BY <1>2, <2>1 DEF QuitWhenIdle, TypeOK
<1>3. ASSUME NEW allowed \in BOOLEAN, SetNestableTasksAllowed(allowed)
      PROVE  TypeOK'
  <2>1. event' \in BOOLEAN /\ nestable_tasks_allowed' \in BOOLEAN
    BY <1>3 DEF SetNestableTasksAllowed
  <2> QED
    BY <1>3, <2>1 DEF SetNestableTasksAllowed, TypeOK
<1>4. ASSUME NEW d \in Depths, FinishTask(d)
      PROVE  TypeOK'
  <2>1. task[d] \in Task /\ pc[d] = "task" /\ depth = d
    BY <1>4 DEF FinishTask, PumpAt, TypeOK
  <2>2. gone' \in SUBSET Nat
    BY <1>4, <2>1 DEF FinishTask, TypeOK, Task
  <2>3. nestable_tasks_allowed' \in BOOLEAN /\ TRUE \in BOOLEAN /\ keep_running \in BOOLEAN
    BY <1>4 DEF FinishTask, TypeOK
  <2>4. from[d] \in Method /\ task' = [task EXCEPT ![d] = NoTask]
    BY <1>4 DEF FinishTask, TypeOK
  <2>5. /\ task' \in [Depths -> Task \union {NoTask}] /\ task'[d] = NoTask
        /\ \A e \in Depths : e # d => task'[e] = task[e]
    BY <2>4 DEF TypeOK
  <2>6. /\ pc' \in [Depths -> PC] /\ did_work' \in [Depths -> BOOLEAN]
        /\ \A e \in Depths : e # d => pc'[e] = pc[e]
        /\ pc'[d] \in {"AfterRun", "DoWork", "DoDelayedWork", "DoIdleWork", "Wait"}
    BY <1>4, <2>3, <2>4, ReturnedFacts DEF FinishTask
  <2>7. Frames'
    BY <1>4, <2>1, <2>5, <2>6 DEF FinishTask, TypeOK, Frames
  <2> QED
    BY <1>4, <2>2, <2>3, <2>5, <2>6, <2>7 DEF FinishTask, TypeOK, Frames
<1>5. ASSUME NEW d \in Depths, Quit(d)
      PROVE  TypeOK'
  <2>1. keep_running' \in BOOLEAN
    BY <1>5 DEF Quit
  <2>2. asked' \in [Depths -> BOOLEAN] /\ lost' \in SUBSET Depths /\ quit_called' \in [Depths -> BOOLEAN]
    BY <1>5 DEF Quit, TypeOK
  <2> QED
    BY <1>5, <2>1, <2>2 DEF Quit, TypeOK
<1>6. ASSUME NEW d \in Depths, NEW untilIdle \in BOOLEAN, Run(d, untilIdle)
      PROVE  TypeOK'
  <2>1. depth' \in 0..MaxDepth /\ d = depth + 1 /\ depth' = d /\ depth \in Nat
    BY <1>6, BoundsAssumption DEF Run, TypeOK, Depths
  <2>2. pc' \in [Depths -> PC] /\ pc'[d] = "DoWork" /\ \A e \in Depths : e # d => pc'[e] = pc[e]
    BY <1>6 DEF Run, TypeOK, PC, Method
  <2>3. quit_when_idle' \in [Depths -> BOOLEAN]
    BY <1>6 DEF Run, TypeOK
  <2>4. asked' \in [Depths -> BOOLEAN] /\ lost' \in SUBSET Depths /\ inherited' \in BOOLEAN
    BY <1>6 DEF Run, TypeOK
  <2>5. Frames'
    <3>1. \A e \in Depths : e \in Int /\ (e # d => (e > depth' <=> e > depth))
      BY <2>1 DEF Depths
    <3>2. pc[d] = "none" /\ task'[d] = NoTask /\ task' = task /\ ~(d > depth')
      BY <1>6, <2>1 DEF Run, TypeOK, Depths
    <3> QED
      BY <2>2, <3>1, <3>2 DEF TypeOK, Frames
  <2> QED
    BY <1>6, <2>1, <2>2, <2>3, <2>4, <2>5 DEF Run, TypeOK, Frames
<1> QED
  BY <1>1, <1>2, <1>3, <1>4, <1>5, <1>6

\* Every step keeps the types.
LEMMA TypeStep == TypeOK /\ [Next]_vars => TypeOK'
<1> SUFFICES ASSUME TypeOK, [Next]_vars PROVE TypeOK'
  OBVIOUS
<1>1. CASE UNCHANGED vars
  BY <1>1 DEF vars, incomingVars, lifeVars, queueVars, pumpVars, frameVars, quitVars, TypeOK
<1>2. ASSUME NEW d \in Depths, LoopStep(d)
      PROVE  TypeOK'
  BY <1>2, DoWorkType, DoDelayedWorkType, PumpType DEF LoopStep
<1> QED
  BY <1>1, <1>2, OutsideType, TaskType DEF Next

------------------------------------------------------------------------------
(* Nesting *)

\* A step of a pump that goes on concerns its own frame only, and it neither allows nor
\* forbids nested tasks unless it runs one.
LEMMA LoopStepFrame ==
  ASSUME TypeOK, NEW d \in Depths, LoopStep(d), ~AfterRun(d)
  PROVE  /\ depth = d /\ d > 0 /\ pc[d] \notin {"task", "none", "AfterRun"}
         /\ UNCHANGED <<depth, phase, is_ready_for_scheduling, quit_called, quit_when_idle, asked, lost, inherited>>
         /\ \A e \in Depths : e # d => pc'[e] = pc[e]
         /\ UNCHANGED nestable_tasks_allowed \/ pc'[d] = "task"
<1> USE DEF incomingVars, lifeVars, queueVars, pumpVars, frameVars, quitVars, PumpAt
<1>1. d > 0 /\ {"DoWork", "DoDelayedWork", "DoIdleWork"} \subseteq Method
  BY DEF Depths, Method
<1>2. CASE DoWorkRefused(d) \/ DoWorkReload(d) \/ DoDelayedWorkNothing(d) \/ DoDelayedWorkEarly(d)
           \/ DoIdleWorkIdle(d)
  BY <1>1, <1>2 DEF DoWorkRefused, DoWorkReload, DoDelayedWorkNothing, DoDelayedWorkEarly, DoIdleWorkIdle,
                    Returned, TypeOK
<1>3. CASE DoWorkDelayed(d) \/ DoWorkImmediate(d)
  BY <1>1, <1>3 DEF DoWorkDelayed, DoWorkImmediate, RunTask, TypeOK
<1>4. CASE DoDelayedWorkDue(d) \/ DoIdleWorkDeferred(d)
  BY <1>1, <1>4 DEF DoDelayedWorkDue, DoIdleWorkDeferred, Returned, RunTask, TypeOK
<1>5. CASE Wait(d) \/ Wake(d)
  BY <1>1, <1>5 DEF Wait, Wake, TypeOK
<1> QED
  BY <1>2, <1>3, <1>4, <1>5 DEF LoopStep

\* The same for the end of a loop, which gives the thread back to the task that ran it.
LEMMA AfterRunFrame ==
  ASSUME TypeOK, Nesting, NEW d \in Depths, AfterRun(d)
  PROVE  /\ depth = d /\ depth' = d - 1 /\ d \in Nat /\ d > 0 /\ pc[d] = "AfterRun"
         /\ d > 1 => d - 1 \in Depths /\ pc[d - 1] = "task" /\ pc'[d - 1] = "task"
         /\ \A e \in Depths : e # d => pc'[e] = pc[e]
         /\ UNCHANGED <<phase, is_ready_for_scheduling, nestable_tasks_allowed>>
<1>1. depth = d /\ depth' = d - 1 /\ d \in Nat /\ d > 0 /\ pc[d] = "AfterRun"
  BY DEF AfterRun, PopRunLoop, PumpAt, Depths
<1>2. \A e \in Depths : e # d => pc'[e] = pc[e]
  BY DEF AfterRun, TypeOK
<1>3. d > 1 => d - 1 \in Depths /\ d - 1 # d /\ pc[d - 1] = "task"
  BY <1>1, BoundsAssumption DEF Nesting, Depths
<1> QED
  BY <1>1, <1>2, <1>3 DEF AfterRun, incomingVars, lifeVars

\* Where the innermost loop is a task.
LEMMA InTaskFacts ==
  ASSUME TypeOK, InTask
  PROVE  depth \in Depths /\ depth > 0 /\ pc[depth] = "task"
BY BoundsAssumption DEF TypeOK, InTask, Depths

\* What the end of a task leaves.
LEMMA FinishTaskFrame ==
  ASSUME TypeOK, NEW d \in Depths, FinishTask(d)
  PROVE  /\ depth = d /\ d > 0 /\ pc[d] = "task"
         /\ UNCHANGED <<incomingVars, lifeVars, queueVars, recent_time, pumpVars, depth, quitVars, now>>
         /\ \A e \in Depths : e # d => pc'[e] = pc[e]
         /\ nestable_tasks_allowed'
         /\ pc'[d] \in {"AfterRun", "DoWork", "DoDelayedWork"}
         /\ pc'[d] = "AfterRun" <=> ~keep_running
         /\ pc'[d] = "DoDelayedWork" => did_work'[d]
<1>1. keep_running \in BOOLEAN /\ TRUE \in BOOLEAN /\ from[d] \in Method
  BY DEF TypeOK
<1>2. Returned(d, from[d], TRUE, keep_running) /\ depth = d /\ pc[d] = "task"
  BY DEF FinishTask, PumpAt
<1>4. d > 0
  BY DEF Depths
<1>3. /\ \A e \in Depths : e # d => pc'[e] = pc[e]
      /\ pc'[d] \in {"AfterRun", "DoWork", "DoDelayedWork"}
      /\ pc'[d] = "AfterRun" <=> ~keep_running
      /\ pc'[d] = "DoDelayedWork" => did_work'[d]
  BY <1>1, <1>2, ReturnedFacts
<1> QED
  BY <1>2, <1>3, <1>4 DEF FinishTask

\* Every step keeps Nesting.
LEMMA NestingStep == TypeOK /\ Nesting /\ [Next]_vars => Nesting'
<1> SUFFICES ASSUME TypeOK, Nesting, [Next]_vars PROVE Nesting'
  OBVIOUS
<1> USE DEF incomingVars, lifeVars, queueVars, pumpVars, frameVars, quitVars
<1>1. depth \in Nat /\ \A d \in Depths : d \in Nat
  BY DEF TypeOK, Depths
<1>2. ASSUME UNCHANGED <<depth, pc, nestable_tasks_allowed, phase, is_ready_for_scheduling>>
      PROVE  Nesting'
  BY <1>2 DEF Nesting, InTask
<1>3. CASE \/ UNCHANGED vars \/ Tick \/ (\E delay \in Delays, nestable \in BOOLEAN : Post(delay, nestable))
           \/ QuitNow \/ QuitWhenIdle \/ (\E d \in Depths : Quit(d))
  BY <1>2, <1>3 DEF vars, Tick, Post, QuitNow, QuitWhenIdle, Quit
<1>4. CASE BindToCurrentThread
  BY <1>1, <1>4 DEF BindToCurrentThread, Nesting, InTask
<1>5. CASE Destroy
  BY <1>1, <1>5 DEF Destroy, Nesting, InTask
<1>6. CASE DestroyStep
  <2>1. /\ phase # "bound" /\ phase' # "bound" /\ UNCHANGED <<depth, pc, nestable_tasks_allowed>>
    BY <1>6 DEF DestroyStep, DeletePendingTasks, DestroyReload, WillDestroyCurrentMessageLoop
  <2> QED
    BY <2>1 DEF Nesting, InTask
<1>7. ASSUME NEW d \in Depths, LoopStep(d), ~AfterRun(d)
      PROVE  Nesting'
  <2>1. \A e \in 1..(depth - 1) : e \in Depths /\ e # d
    BY <1>1, <1>7, LoopStepFrame, BoundsAssumption DEF Depths
  <2>2. \A e \in 1..(depth' - 1) : pc'[e] = "task"
    BY <1>7, <2>1, LoopStepFrame DEF Nesting
  <2>3. depth' <= 1 /\ ~InTask' => nestable_tasks_allowed'
    BY <1>7, LoopStepFrame DEF Nesting, InTask
  <2> QED
    BY <1>7, <2>2, <2>3, LoopStepFrame DEF Nesting
<1>8. ASSUME NEW d \in Depths, AfterRun(d)
      PROVE  Nesting'
  <2>1. \A e \in 1..(depth' - 1) : e \in 1..(depth - 1) /\ e \in Depths /\ e # d
    BY <1>1, <1>8, AfterRunFrame, BoundsAssumption DEF Depths
  <2>2. \A e \in 1..(depth' - 1) : pc'[e] = "task"
    BY <1>8, <2>1, AfterRunFrame DEF Nesting
  <2>3. depth' > 0 => phase' = "bound"
    BY <1>8, AfterRunFrame DEF Nesting
  <2>4. depth' <= 1 /\ ~InTask' => nestable_tasks_allowed'
    <3>1. CASE d = 1
      BY <1>8, <3>1, AfterRunFrame DEF Nesting, InTask
    <3>2. CASE d # 1
      <4>1. InTask'
        BY <1>8, <3>2, AfterRunFrame DEF InTask
      <4> QED
        BY <4>1
    <3> QED
      BY <3>1, <3>2
  <2> QED
    BY <1>8, <2>2, <2>3, <2>4, AfterRunFrame DEF Nesting
<1>9. ASSUME NEW d \in Depths, FinishTask(d)
      PROVE  Nesting'
  <2>1. \A e \in 1..(depth - 1) : e \in Depths /\ e # d
    BY <1>1, <1>9, FinishTaskFrame, BoundsAssumption DEF Depths
  <2>2. \A e \in 1..(depth' - 1) : pc'[e] = "task"
    BY <1>9, <2>1, FinishTaskFrame DEF Nesting
  <2> QED
    BY <1>9, <2>2, FinishTaskFrame DEF Nesting
<1>10. ASSUME NEW d \in Depths, NEW untilIdle \in BOOLEAN, Run(d, untilIdle)
       PROVE  Nesting'
  <2>1. /\ d = depth + 1 /\ depth' = d /\ phase = "bound" /\ phase' = phase
        /\ UNCHANGED <<is_ready_for_scheduling, nestable_tasks_allowed>>
        /\ depth > 0 => pc[depth] = "task"
        /\ \A e \in Depths : e # d => pc'[e] = pc[e]
    BY <1>10 DEF Run, TypeOK
  <2>2. \A e \in 1..(depth' - 1) : (e \in 1..(depth - 1) \/ (e = depth /\ depth > 0)) /\ e \in Depths /\ e # d
    BY <1>1, <2>1, BoundsAssumption DEF Depths
  <2>3. \A e \in 1..(depth' - 1) : pc'[e] = "task"
    BY <2>1, <2>2 DEF Nesting
  <2>4. depth' <= 1 => depth = 0
    BY <1>1, <2>1
  <2> QED
    BY <1>1, <2>1, <2>3, <2>4 DEF Nesting, InTask
<1>11. ASSUME NEW allowed \in BOOLEAN, SetNestableTasksAllowed(allowed)
       PROVE  Nesting'
  BY <1>11 DEF SetNestableTasksAllowed, Nesting, InTask
<1> QED
  BY <1>3, <1>4, <1>5, <1>6, <1>7, <1>8, <1>9, <1>10, <1>11 DEF Next

------------------------------------------------------------------------------
(* Posts and the event *)

\* Every step keeps Scheduling: no post is missed between the pump's last look at the
\* queues and its sleep.
LEMMA SchedulingStep == TypeOK /\ Nesting /\ Scheduling /\ [Next]_vars => Scheduling'
<1> SUFFICES ASSUME TypeOK, Nesting, Scheduling, [Next]_vars PROVE Scheduling'
  OBVIOUS
<1> USE DEF incomingVars, lifeVars, queueVars, pumpVars, frameVars, quitVars
<1>1. depth \in Nat /\ {"DoWork", "DoDelayedWork", "DoIdleWork"} \subseteq Method /\ FALSE \in BOOLEAN
      /\ keep_running \in BOOLEAN
  BY DEF TypeOK, Method
<1>2. ASSUME UNCHANGED <<phase, incoming_queue, message_loop_scheduled, work_queue>>,
             event => event',
             PastDoWork' /\ nestable_tasks_allowed' => PastDoWork /\ nestable_tasks_allowed
      PROVE  Scheduling'
  BY <1>2 DEF Scheduling
<1>3. CASE UNCHANGED vars \/ Tick \/ QuitNow \/ QuitWhenIdle \/ (\E d \in Depths : Quit(d))
  BY <1>2, <1>3 DEF vars, Tick, QuitNow, QuitWhenIdle, Quit, PastDoWork
<1>4. ASSUME NEW delay \in Delays, NEW nestable \in BOOLEAN, Post(delay, nestable)
      PROVE  Scheduling'
  <2> DEFINE schedules == /\ is_ready_for_scheduling
                          /\ ~message_loop_scheduled
                          /\ incoming_queue = <<>>
  <2>1. /\ event' = (event \/ schedules) /\ message_loop_scheduled' = (message_loop_scheduled \/ schedules)
        /\ UNCHANGED <<phase, work_queue, depth, pc, did_work, nestable_tasks_allowed>>
    BY <1>4 DEF Post
  <2> HIDE DEF schedules
  <2>2. PastDoWork' <=> PastDoWork
    BY <2>1 DEF PastDoWork
  <2>3. phase = "bound" => message_loop_scheduled'
    BY <2>1 DEF Nesting, Scheduling, schedules
  <2>4. (message_loop_scheduled => event) => (message_loop_scheduled' => event')
    BY <2>1
  <2> QED
    BY <2>1, <2>2, <2>3, <2>4 DEF Scheduling
<1>5. CASE BindToCurrentThread
  <2>1. depth = 0 /\ depth' = 0
    BY <1>1, <1>5 DEF BindToCurrentThread, Nesting
  <2>2. incoming_queue' # <<>> => message_loop_scheduled'
    BY <1>5 DEF BindToCurrentThread
  <2> QED
    BY <2>1, <2>2 DEF Scheduling, PastDoWork
<1>6. CASE Destroy \/ DestroyStep
  <2>1. phase' # "bound" /\ depth' = depth /\ depth = 0
    BY <1>1, <1>6 DEF Destroy, DestroyStep, DeletePendingTasks, DestroyReload,
                      WillDestroyCurrentMessageLoop, Nesting
  <2> QED
    BY <2>1 DEF Scheduling, PastDoWork
<1>7. ASSUME NEW d \in Depths, LoopStep(d)
      PROVE  Scheduling'
  <2>1. CASE DoWorkRefused(d)
    BY <1>2, <2>1 DEF DoWorkRefused
  <2>2. CASE DoWorkReload(d)
    <3>1. /\ work_queue = <<>> /\ SwapQueues /\ UNCHANGED <<phase, event, depth, nestable_tasks_allowed>>
          /\ depth = d /\ pc[d] = "DoWork"
      BY <2>2 DEF DoWorkReload, MayReload, PumpAt
    <3>2. phase' = "bound" /\ incoming_queue' # <<>> => message_loop_scheduled'
      BY <3>1, SwapQueuesFacts DEF Scheduling
    <3>3. CASE work_queue' = <<>>
      <4>1. incoming_queue = <<>> /\ ~message_loop_scheduled'
        BY <3>1, <3>3, SwapQueuesFacts
      <4> QED
        BY <3>2, <3>3, <4>1 DEF Scheduling
    <3>4. CASE work_queue' # <<>>
      <4>1. UNCHANGED pc
        BY <2>2, <3>4 DEF DoWorkReload
      <4>2. ~PastDoWork'
        BY <3>1, <4>1 DEF PastDoWork
      <4> QED
        BY <3>2, <4>2 DEF Scheduling
    <3> QED
      BY <3>3, <3>4
  <2>3. CASE DoWorkDelayed(d) \/ DoWorkImmediate(d)
    <3>1. UNCHANGED <<phase, incoming_queue, message_loop_scheduled, depth>> /\ depth = d
      BY <2>3 DEF DoWorkDelayed, DoWorkImmediate, PumpAt
    <3>2. pc'[d] \in {"DoWork", "task"}
      BY <2>3 DEF DoWorkDelayed, DoWorkImmediate, PumpAt, RunTask, TypeOK
    <3> QED
      BY <3>1, <3>2 DEF Scheduling, PastDoWork
  <2>4. CASE DoDelayedWorkNothing(d) \/ DoDelayedWorkEarly(d) \/ DoDelayedWorkDue(d)
    <3>1. /\ UNCHANGED <<phase, incoming_queue, message_loop_scheduled, work_queue, event, depth>>
          /\ depth = d /\ pc[d] = "DoDelayedWork"
      BY <2>4 DEF DoDelayedWorkNothing, DoDelayedWorkEarly, DoDelayedWorkDue, PumpAt
    <3>2. CASE Returned(d, "DoDelayedWork", FALSE, keep_running) /\ UNCHANGED nestable_tasks_allowed
      <4>1. PastDoWork' => PastDoWork
        <5>1. PastDoWork' => pc'[d] = "DoIdleWork" /\ d > 0
          BY <1>1, <3>1, <3>2, ReturnedFacts DEF PastDoWork
        <5>2. pc'[d] = "DoIdleWork" => ~did_work[d]
          BY <1>1, <3>2, ReturnedFacts
        <5> QED
          BY <3>1, <5>1, <5>2 DEF PastDoWork
      <4> QED
        BY <1>2, <3>1, <3>2, <4>1
    <3>3. CASE pc'[d] = "task"
      BY <1>2, <3>1, <3>3 DEF PastDoWork
    <3>4. \/ Returned(d, "DoDelayedWork", FALSE, keep_running) /\ UNCHANGED nestable_tasks_allowed
          \/ pc'[d] = "task"
      BY <2>4 DEF DoDelayedWorkNothing, DoDelayedWorkEarly, DoDelayedWorkDue, RunTask, TypeOK
    <3> QED
      BY <3>2, <3>3, <3>4
  <2>5. CASE DoIdleWorkDeferred(d)
    <3>1. /\ UNCHANGED <<phase, incoming_queue, message_loop_scheduled, work_queue, event, depth>>
          /\ depth = d
      BY <2>5 DEF DoIdleWorkDeferred, PumpAt
    <3>2. pc'[d] = "task"
      BY <2>5 DEF DoIdleWorkDeferred, RunTask, TypeOK
    <3> QED
      BY <1>2, <3>1, <3>2 DEF PastDoWork
  <2>6. CASE DoIdleWorkIdle(d)
    BY <1>2, <2>6 DEF DoIdleWorkIdle, PumpAt, PastDoWork
  <2>7. CASE Wait(d)
    BY <1>2, <2>7 DEF Wait, PumpAt, PastDoWork
  <2>8. CASE Wake(d)
    <3>1. /\ UNCHANGED <<phase, incoming_queue, message_loop_scheduled, depth>> /\ depth = d
          /\ pc'[d] = "DoWork"
      BY <2>8 DEF Wake, PumpAt, TypeOK
    <3> QED
      BY <3>1 DEF Scheduling, PastDoWork
  <2>9. CASE AfterRun(d)
    <3>1. UNCHANGED <<phase, incoming_queue, message_loop_scheduled, work_queue, event>>
      BY <2>9 DEF AfterRun
    <3>2. ~PastDoWork'
      BY <2>9, AfterRunFrame DEF PastDoWork
    <3> QED
      BY <1>2, <3>1, <3>2
  <2> QED
    BY <1>7, <2>1, <2>2, <2>3, <2>4, <2>5, <2>6, <2>7, <2>8, <2>9 DEF LoopStep
<1>8. ASSUME NEW d \in Depths, FinishTask(d)
      PROVE  Scheduling'
  <2>1. ~PastDoWork' /\ UNCHANGED <<phase, incoming_queue, message_loop_scheduled, work_queue, event>>
    BY <1>8, FinishTaskFrame DEF PastDoWork
  <2> QED
    BY <1>2, <2>1
<1>9. ASSUME NEW d \in Depths, NEW untilIdle \in BOOLEAN, Run(d, untilIdle)
      PROVE  Scheduling'
  <2>1. depth' = d /\ pc'[d] = "DoWork" /\ UNCHANGED <<phase, incoming_queue, message_loop_scheduled, work_queue, event>>
    BY <1>9 DEF Run, TypeOK
  <2> QED
    BY <1>2, <2>1 DEF PastDoWork
<1>10. ASSUME NEW allowed \in BOOLEAN, SetNestableTasksAllowed(allowed)
       PROVE  Scheduling'
  <2>1. /\ UNCHANGED <<phase, incoming_queue, message_loop_scheduled, work_queue, depth, pc>>
        /\ pc[depth] = "task"
    BY <1>10 DEF SetNestableTasksAllowed, InTask
  <2>2. ~PastDoWork'
    BY <2>1 DEF PastDoWork
  <2> QED
    BY <2>1, <2>2 DEF Scheduling
<1> QED
  BY <1>3, <1>4, <1>5, <1>6, <1>7, <1>8, <1>9, <1>10 DEF Next

------------------------------------------------------------------------------
(* Delayed tasks *)

\* The top of the delayed queue is due first.
LEMMA TopIsFirst ==
  ASSUME NEW Q \in SUBSET Task, NEW t \in Q, IsTop(t, Q)
  PROVE  \A u \in Q : t.time <= u.time
<1>1. \A u \in Q : u.time \in Nat
  BY DEF Task
<1> QED
  BY <1>1 DEF IsTop

\* Every step keeps DelayedWork: whoever sets delayed_work_time_ sets it to the time of
\* the first delayed task before the pump sleeps.
LEMMA DelayedWorkStep == TypeOK /\ Nesting /\ DelayedWork /\ [Next]_vars => DelayedWork'
<1> SUFFICES ASSUME TypeOK, Nesting, DelayedWork, [Next]_vars PROVE DelayedWork'
  OBVIOUS
<1> USE DEF incomingVars, lifeVars, queueVars, pumpVars, frameVars, quitVars
<1>1. depth \in Nat /\ {"DoWork", "DoDelayedWork", "DoIdleWork"} \subseteq Method /\ FALSE \in BOOLEAN
      /\ keep_running \in BOOLEAN
  BY DEF TypeOK, Method
<1>2. ASSUME UNCHANGED <<delayed_work_queue, delayed_work_time>>,
             PastDoDelayedWork' /\ nestable_tasks_allowed' => PastDoDelayedWork /\ nestable_tasks_allowed
      PROVE  DelayedWork'
  BY <1>2 DEF DelayedWork
<1>3. ASSUME delayed_work_queue' \subseteq delayed_work_queue, ~PastDoDelayedWork'
      PROVE  DelayedWork'
  BY <1>3 DEF DelayedWork
<1>4. CASE \/ UNCHANGED vars \/ Tick \/ QuitNow \/ QuitWhenIdle \/ (\E d \in Depths : Quit(d))
           \/ (\E delay \in Delays, nestable \in BOOLEAN : Post(delay, nestable))
           \/ BindToCurrentThread \/ Destroy
  <2>1. UNCHANGED <<delayed_work_queue, delayed_work_time, depth, pc, nestable_tasks_allowed>>
    BY <1>4 DEF vars, Tick, QuitNow, QuitWhenIdle, Quit, Post, BindToCurrentThread, Destroy
  <2> QED
    BY <1>2, <2>1 DEF PastDoDelayedWork
<1>5. CASE DestroyStep
  <2>1. depth = 0 /\ depth' = 0
    BY <1>1, <1>5 DEF DestroyStep, DeletePendingTasks, DestroyReload, WillDestroyCurrentMessageLoop, Nesting
  <2>2. delayed_work_queue' \subseteq delayed_work_queue
    BY <1>5 DEF DestroyStep, DeletePendingTasks, DestroyReload, WillDestroyCurrentMessageLoop
  <2> QED
    BY <1>3, <2>1, <2>2 DEF PastDoDelayedWork
<1>6. ASSUME NEW d \in Depths, LoopStep(d)
      PROVE  DelayedWork'
  <2>1. CASE DoWorkRefused(d) \/ DoWorkReload(d) \/ DoWorkImmediate(d) \/ DoIdleWorkDeferred(d) \/ Wake(d)
    <3>1. UNCHANGED <<delayed_work_queue, depth>> /\ depth = d
      BY <2>1 DEF DoWorkRefused, DoWorkReload, DoWorkImmediate, DoIdleWorkDeferred, Wake, PumpAt
    <3>2. CASE Returned(d, "DoWork", FALSE, keep_running)
      <4>1. pc'[d] \notin {"DoIdleWork", "Wait", "asleep"}
        BY <1>1, <3>2, ReturnedFacts
      <4> QED
        BY <1>3, <3>1, <4>1 DEF PastDoDelayedWork
    <3>3. CASE pc'[d] \in {"DoWork", "task"}
      BY <1>3, <3>1, <3>3 DEF PastDoDelayedWork
    <3>4. Returned(d, "DoWork", FALSE, keep_running) \/ pc'[d] \in {"DoWork", "task"}
      BY <2>1 DEF DoWorkRefused, DoWorkReload, DoWorkImmediate, DoIdleWorkDeferred, Wake, PumpAt, RunTask, TypeOK
    <3> QED
      BY <3>2, <3>3, <3>4
  <2>2. CASE DoWorkDelayed(d)
    <3>1. /\ UNCHANGED <<depth, pc>> /\ depth = d /\ pc[d] = "DoWork"
          /\ delayed_work_queue' = delayed_work_queue \union {Head(work_queue)}
          /\ Head(work_queue).time # Null
      BY <2>2 DEF DoWorkDelayed, PumpAt
    <3> QED
      BY <3>1 DEF DelayedWork, PastDoDelayedWork
  <2>3. CASE DoDelayedWorkNothing(d)
    <3>1. CASE nestable_tasks_allowed
      BY <2>3, <3>1 DEF DoDelayedWorkNothing, DelayedWork
    <3>2. CASE ~nestable_tasks_allowed
      BY <2>3, <3>2 DEF DoDelayedWorkNothing, DelayedWork
    <3> QED
      BY <3>1, <3>2
  <2>4. CASE DoDelayedWorkEarly(d)
    <3>1. PICK t \in delayed_work_queue : IsTop(t, delayed_work_queue) /\ delayed_work_time' = t.time
      BY <2>4 DEF DoDelayedWorkEarly
    <3>2. \A u \in delayed_work_queue : t.time <= u.time
      BY <3>1, TopIsFirst DEF TypeOK
    <3> QED
      BY <2>4, <3>1, <3>2 DEF DoDelayedWorkEarly, DelayedWork
  <2>5. CASE DoDelayedWorkDue(d)
    <3>1. /\ delayed_work_queue' \subseteq delayed_work_queue
          /\ \/ delayed_work_queue' = {}
             \/ \E u \in delayed_work_queue' : IsTop(u, delayed_work_queue') /\ delayed_work_time' = u.time
      BY <2>5 DEF DoDelayedWorkDue
    <3>2. CASE delayed_work_queue' = {}
      BY <3>2 DEF DelayedWork
    <3>3. ASSUME NEW u \in delayed_work_queue', IsTop(u, delayed_work_queue'), delayed_work_time' = u.time
          PROVE  DelayedWork'
      <4>1. \A t \in delayed_work_queue' : u.time <= t.time
        <5>1. delayed_work_queue' \in SUBSET Task
          BY <3>1 DEF TypeOK
        <5> QED
          BY <3>3, <5>1, TopIsFirst
      <4> QED
        BY <3>1, <3>3, <4>1 DEF DelayedWork
    <3> QED
      BY <3>1, <3>2, <3>3
  <2>6. CASE DoIdleWorkIdle(d)
    BY <1>2, <2>6 DEF DoIdleWorkIdle, PumpAt, PastDoDelayedWork
  <2>7. CASE Wait(d)
    <3>1. UNCHANGED <<delayed_work_queue, depth, nestable_tasks_allowed>> /\ depth = d /\ pc[d] = "Wait"
      BY <2>7 DEF Wait, PumpAt
    <3>2. CASE UNCHANGED delayed_work_time
      BY <1>2, <3>1, <3>2 DEF PastDoDelayedWork
    <3>3. CASE pc'[d] = "DoWork"
      BY <1>3, <3>1, <3>3 DEF PastDoDelayedWork
    <3> QED
      BY <2>7, <3>2, <3>3 DEF Wait, TypeOK
  <2>8. CASE AfterRun(d)
    <3>1. UNCHANGED <<delayed_work_queue, delayed_work_time>>
      BY <2>8 DEF AfterRun
    <3>2. ~PastDoDelayedWork'
      BY <2>8, AfterRunFrame DEF PastDoDelayedWork
    <3> QED
      BY <1>2, <3>1, <3>2
  <2> QED
    BY <1>6, <2>1, <2>2, <2>3, <2>4, <2>5, <2>6, <2>7, <2>8 DEF LoopStep
<1>7. ASSUME NEW d \in Depths, FinishTask(d)
      PROVE  DelayedWork'
  <2>1. ~PastDoDelayedWork' /\ UNCHANGED delayed_work_queue
    BY <1>7, FinishTaskFrame DEF PastDoDelayedWork
  <2> QED
    BY <1>3, <2>1
<1>8. ASSUME NEW d \in Depths, NEW untilIdle \in BOOLEAN, Run(d, untilIdle)
      PROVE  DelayedWork'
  <2>1. depth' = d /\ pc'[d] = "DoWork" /\ UNCHANGED delayed_work_queue
    BY <1>8 DEF Run, TypeOK
  <2> QED
    BY <1>3, <2>1 DEF PastDoDelayedWork
<1>9. ASSUME NEW allowed \in BOOLEAN, SetNestableTasksAllowed(allowed)
      PROVE  DelayedWork'
  <2>1. UNCHANGED <<delayed_work_queue, depth, pc>> /\ pc[depth] = "task"
    BY <1>9 DEF SetNestableTasksAllowed, InTask
  <2> QED
    BY <1>3, <2>1 DEF PastDoDelayedWork
<1> QED
  BY <1>4, <1>5, <1>6, <1>7, <1>8, <1>9 DEF Next

------------------------------------------------------------------------------
(* Requests to quit *)

\* What the innermost loop was asked, and what all loops were.
InnermostQuits ==
  depth > 0 =>
    /\ ~keep_running => depth \in Heard \/ inherited
    /\ depth \in Heard /\ keep_running => quit_when_idle[depth]
    /\ pc[depth] \in {"DoDelayedWork", "DoIdleWork", "Wait", "asleep"} => keep_running
    /\ pc[depth] \in {"Wait", "asleep"} => ~quit_when_idle[depth]
    /\ pc[depth] = "AfterRun" => ~keep_running

QuitFlags(d) ==
  /\ d > depth => ~quit_called[d] /\ d \notin lost
  /\ d <= depth /\ (quit_called[d] \/ quit_when_idle[d]) => d \in Heard
  /\ d < depth /\ d \in Heard => quit_called[d] \/ quit_when_idle[d]

\* Every step keeps Quitting, although one keep_running_ serves all loops.
LEMMA QuittingStep == TypeOK /\ Nesting /\ Quitting /\ [Next]_vars => Quitting'
<1> SUFFICES ASSUME TypeOK, Nesting, Quitting, [Next]_vars PROVE Quitting'
  OBVIOUS
<1> USE DEF incomingVars, lifeVars, queueVars, pumpVars, frameVars, quitVars
<1>1. /\ depth \in Nat /\ \A d \in Depths : d \in Nat
      /\ {"DoWork", "DoDelayedWork", "DoIdleWork"} \subseteq Method
      /\ FALSE \in BOOLEAN /\ keep_running \in BOOLEAN
  BY DEF TypeOK, Method, Depths
<1>2. InnermostQuits /\ \A d \in Depths : QuitFlags(d)
  BY DEF Quitting, InnermostQuits, QuitFlags
<1>3. SUFFICES InnermostQuits' /\ \A d \in Depths : QuitFlags(d)'
  BY DEF Quitting, InnermostQuits, QuitFlags
<1>4. ASSUME UNCHANGED <<depth, pc, keep_running, quit_called, quit_when_idle, asked, lost, inherited>>
      PROVE  InnermostQuits' /\ \A d \in Depths : QuitFlags(d)'
  <2>1. Heard' = Heard
    BY <1>4 DEF Heard, IsAsked
  <2> QED
    BY <1>2, <1>4, <2>1 DEF InnermostQuits, QuitFlags
<1>5. CASE \/ UNCHANGED vars \/ Tick \/ (\E delay \in Delays, nestable \in BOOLEAN : Post(delay, nestable))
           \/ BindToCurrentThread \/ Destroy \/ DestroyStep
           \/ (\E allowed \in BOOLEAN : SetNestableTasksAllowed(allowed))
  BY <1>4, <1>5 DEF vars, Tick, Post, BindToCurrentThread, Destroy, DestroyStep, DeletePendingTasks,
                    DestroyReload, WillDestroyCurrentMessageLoop, SetNestableTasksAllowed
<1>6. ASSUME NEW d \in Depths, LoopStep(d), ~AfterRun(d)
      PROVE  InnermostQuits' /\ \A e \in Depths : QuitFlags(e)'
  <2>1. /\ depth = d /\ d > 0 /\ pc[d] \notin {"task", "none", "AfterRun"}
        /\ UNCHANGED <<depth, quit_called, quit_when_idle, lost, inherited, Heard>>
    BY <1>6, LoopStepFrame DEF Heard, IsAsked
  <2>2. \A e \in Depths : QuitFlags(e)'
    BY <1>2, <2>1 DEF QuitFlags
  <2>3. /\ ~keep_running => d \in Heard \/ inherited
        /\ d \in Heard /\ keep_running => quit_when_idle[d]
        /\ pc[d] \in {"DoDelayedWork", "DoIdleWork", "Wait", "asleep"} => keep_running
        /\ pc[d] \in {"Wait", "asleep"} => ~quit_when_idle[d]
    BY <1>2, <2>1 DEF InnermostQuits
  <2>4. SUFFICES /\ ~keep_running' => d \in Heard \/ inherited
                 /\ d \in Heard /\ keep_running' => quit_when_idle[d]
                 /\ pc'[d] \in {"DoDelayedWork", "DoIdleWork", "Wait", "asleep"} => keep_running'
                 /\ pc'[d] \in {"Wait", "asleep"} => ~quit_when_idle[d]
                 /\ pc'[d] = "AfterRun" => ~keep_running'
    BY <2>1, <2>2 DEF InnermostQuits
  <2>5. CASE UNCHANGED keep_running /\ pc'[d] \in {"DoWork", "task"}
    BY <2>3, <2>5
  <2>6. ASSUME NEW m \in {"DoWork", "DoDelayedWork"},
               Returned(d, m, FALSE, keep_running), UNCHANGED keep_running
        PROVE  /\ ~keep_running' => d \in Heard \/ inherited
               /\ d \in Heard /\ keep_running' => quit_when_idle[d]
               /\ pc'[d] \in {"DoDelayedWork", "DoIdleWork", "Wait", "asleep"} => keep_running'
               /\ pc'[d] \in {"Wait", "asleep"} => ~quit_when_idle[d]
               /\ pc'[d] = "AfterRun" => ~keep_running'
    <3>1. /\ pc'[d] \in {"AfterRun", "DoWork", "DoDelayedWork", "DoIdleWork"}
          /\ pc'[d] = "AfterRun" <=> ~keep_running
      BY <1>1, <2>6, ReturnedFacts
    <3> QED
      BY <2>3, <2>6, <3>1
  <2>7. CASE DoWorkRefused(d) \/ DoWorkReload(d) \/ DoWorkDelayed(d) \/ DoWorkImmediate(d)
    <3>1. UNCHANGED keep_running
      BY <2>7 DEF DoWorkRefused, DoWorkReload, DoWorkDelayed, DoWorkImmediate
    <3>2. pc'[d] \in {"DoWork", "task"} \/ Returned(d, "DoWork", FALSE, keep_running)
      BY <2>7 DEF DoWorkRefused, DoWorkReload, DoWorkDelayed, DoWorkImmediate, PumpAt, RunTask, TypeOK
    <3> QED
      BY <2>5, <2>6, <3>1, <3>2
  <2>8. CASE DoDelayedWorkNothing(d) \/ DoDelayedWorkEarly(d) \/ DoDelayedWorkDue(d)
    <3>1. UNCHANGED keep_running
      BY <2>8 DEF DoDelayedWorkNothing, DoDelayedWorkEarly, DoDelayedWorkDue
    <3>2. pc'[d] \in {"DoWork", "task"} \/ Returned(d, "DoDelayedWork", FALSE, keep_running)
      BY <2>8 DEF DoDelayedWorkNothing, DoDelayedWorkEarly, DoDelayedWorkDue, RunTask, TypeOK
    <3> QED
      BY <2>5, <2>6, <3>1, <3>2
  <2>9. CASE DoIdleWorkDeferred(d) \/ Wake(d)
    <3>1. UNCHANGED keep_running /\ pc'[d] \in {"DoWork", "task"}
      BY <2>9 DEF DoIdleWorkDeferred, Wake, RunTask, TypeOK
    <3> QED
      BY <2>5, <3>1
  <2>10. CASE DoIdleWorkIdle(d)
    <3>1. /\ keep_running' = (keep_running /\ ~quit_when_idle[d]) /\ pc[d] = "DoIdleWork"
          /\ Returned(d, "DoIdleWork", FALSE, keep_running') /\ keep_running' \in BOOLEAN
      BY <2>10 DEF DoIdleWorkIdle, PumpAt
    <3>2. pc'[d] \in {"AfterRun", "Wait"} /\ (pc'[d] = "AfterRun" <=> ~keep_running')
      <4>1. /\ pc'[d] \in {"AfterRun", "DoWork", "DoDelayedWork", "DoIdleWork", "Wait"}
            /\ pc'[d] = "AfterRun" <=> ~keep_running'
            /\ pc'[d] # "DoDelayedWork" /\ pc'[d] # "DoIdleWork"
        BY <1>1, <3>1, ReturnedFacts
      <4>2. pc'[d] # "DoWork"
        BY <3>1 DEF Returned, TypeOK
      <4> QED
        BY <4>1, <4>2
    <3>3. quit_when_idle[d] => d \in Heard
      <4>1. d <= depth
        BY <1>1, <2>1
      <4> QED
        BY <1>2, <4>1 DEF QuitFlags
    <3>4. keep_running /\ (keep_running' <=> ~quit_when_idle[d])
      BY <2>3, <3>1
    <3> QED
      BY <2>3, <3>2, <3>3, <3>4
  <2>11. CASE Wait(d)
    <3>1. UNCHANGED keep_running /\ pc'[d] \in {"DoWork", "asleep"} /\ pc[d] = "Wait"
      BY <2>11 DEF Wait, PumpAt, TypeOK
    <3> QED
      BY <2>3, <3>1
  <2> QED
    BY <1>6, <2>7, <2>8, <2>9, <2>10, <2>11 DEF LoopStep
<1>7. ASSUME NEW d \in Depths, AfterRun(d)
      PROVE  InnermostQuits' /\ \A e \in Depths : QuitFlags(e)'
  <2>1. /\ depth = d /\ depth' = d - 1 /\ d \in Nat /\ d > 0
        /\ d > 1 => d - 1 \in Depths /\ pc'[d - 1] = "task"
    BY <1>7, AfterRunFrame
  <2>2. /\ ~quit_called'[d] /\ d \notin lost'
        /\ \A e \in Depths : e # d =>
             UNCHANGED <<quit_called[e], quit_when_idle[e]>> /\ (e \in lost' <=> e \in lost)
        /\ \A e \in Depths : e # d => (e \in Heard' <=> e \in Heard)
    BY <1>7 DEF AfterRun, TypeOK, Heard, IsAsked
  <2>3. \A e \in Depths : QuitFlags(e)'
    <3>1. ASSUME NEW e \in Depths PROVE QuitFlags(e)'
      <4>1. CASE e = d
        BY <2>1, <2>2, <4>1 DEF QuitFlags
      <4>2. CASE e # d
        <5>1. /\ e > depth' => e > depth
              /\ e <= depth' => e <= depth
              /\ e < depth' => e < depth
          BY <1>1, <2>1, <4>2
        <5> QED
          BY <1>2, <2>2, <4>2, <5>1 DEF QuitFlags
      <4> QED
        BY <4>1, <4>2
    <3> QED
      BY <3>1
  <2>4. InnermostQuits'
    <3>1. CASE d = 1
      BY <2>1, <3>1 DEF InnermostQuits
    <3>2. CASE d # 1
      <4>1. d - 1 \in Depths /\ d - 1 # d /\ pc'[d - 1] = "task" /\ d - 1 < depth
        BY <2>1, <3>2
      <4>2. QuitFlags(d - 1)
        BY <1>2, <4>1
      <4>3. /\ quit_called[d - 1] => d - 1 \in Heard
            /\ d - 1 \in Heard => quit_called[d - 1] \/ quit_when_idle[d - 1]
        BY <2>1, <4>1, <4>2 DEF QuitFlags
      <4>4. keep_running' = ~quit_called[d - 1]
        <5>1. d > 1
          BY <2>1, <3>2
        <5> QED
          BY <1>7, <5>1 DEF AfterRun, KeepOuterRunning
      <4>5. UNCHANGED <<quit_called[d - 1], quit_when_idle[d - 1]>> /\ (d - 1 \in Heard' <=> d - 1 \in Heard)
        BY <2>2, <4>1
      <4> QED
        BY <2>1, <4>1, <4>3, <4>4, <4>5 DEF InnermostQuits
    <3> QED
      BY <3>1, <3>2
  <2> QED
    BY <2>3, <2>4
<1>8. ASSUME NEW d \in Depths, FinishTask(d)
      PROVE  InnermostQuits' /\ \A e \in Depths : QuitFlags(e)'
  <2>1. /\ depth = d /\ UNCHANGED <<depth, keep_running, quit_called, quit_when_idle, asked, lost, inherited>>
        /\ pc'[d] \in {"AfterRun", "DoWork", "DoDelayedWork"}
        /\ pc'[d] = "AfterRun" <=> ~keep_running
    BY <1>8, FinishTaskFrame DEF FinishTask
  <2>2. Heard' = Heard
    BY <2>1 DEF Heard, IsAsked
  <2> QED
    BY <1>2, <2>1, <2>2 DEF InnermostQuits, QuitFlags
<1>9. ASSUME NEW d \in Depths, NEW untilIdle \in BOOLEAN, Run(d, untilIdle)
      PROVE  InnermostQuits' /\ \A e \in Depths : QuitFlags(e)'
  <2>1. /\ d = depth + 1 /\ depth' = d /\ UNCHANGED <<keep_running, quit_called>>
        /\ pc'[d] = "DoWork"
        /\ quit_when_idle' = [quit_when_idle EXCEPT ![d] = untilIdle]
    BY <1>9 DEF Run, TypeOK
  <2>2. /\ quit_when_idle'[d] = untilIdle /\ inherited' = ~keep_running
        /\ \A e \in Depths : e # d => quit_when_idle'[e] = quit_when_idle[e]
    BY <1>9, <2>1 DEF Run, TypeOK
  <2>3. ~quit_called[d] /\ d \notin lost /\ d > 0 /\ d # depth
    BY <1>1, <1>2, <2>1 DEF QuitFlags
  <2>4. /\ d \in Heard' <=> untilIdle
        /\ d \notin lost'
        /\ \A e \in Depths : e \in lost' => e \in lost \/ e = depth
        /\ \A e \in Depths : e # d => (e \in Heard' <=> e \in Heard /\ ~OnlyByQuitNow(e))
    <3>1. lost' = lost \union {e \in Depths : OnlyByQuitNow(e)} /\ asked' = [asked EXCEPT ![d] = untilIdle]
      BY <1>9 DEF Run
    <3>2. asked'[d] = untilIdle /\ \A e \in Depths : e # d => asked'[e] = asked[e]
      BY <3>1 DEF TypeOK
    <3>3. \A e \in Depths : OnlyByQuitNow(e) => e = depth
      BY DEF OnlyByQuitNow
    <3>4. d \notin lost' /\ \A e \in Depths : e \in lost' <=> e \in lost \/ OnlyByQuitNow(e)
      BY <2>3, <3>1, <3>3
    <3>5. \A e \in Depths : e \in Heard' <=> asked'[e] /\ e \notin lost'
      BY DEF Heard, IsAsked
    <3>6. \A e \in Depths : e \in Heard <=> asked[e] /\ e \notin lost
      BY DEF Heard, IsAsked
    <3> QED
      BY <3>2, <3>3, <3>4, <3>5, <3>6
  <2>5. InnermostQuits'
    BY <2>1, <2>2, <2>4 DEF InnermostQuits
  <2>6. ASSUME NEW e \in Depths PROVE QuitFlags(e)'
    <3>1. CASE e = d
      BY <1>1, <2>1, <2>2, <2>3, <2>4, <3>1 DEF QuitFlags
    <3>2. CASE e # d
      <4>1. e > depth' => e > depth
        BY <1>1, <2>1
      <4>2. e <= depth' => e <= depth
        BY <1>1, <2>1, <3>2
      <4>3. QuitFlags(e)
        BY <1>2
      <4>4. e > depth' => ~quit_called'[e] /\ e \notin lost'
        <5>1. e > depth' => e # depth
          BY <1>1, <2>1
        <5> QED
          BY <2>1, <2>4, <4>1, <4>3, <5>1 DEF QuitFlags
      <4>5. e <= depth' /\ (quit_called'[e] \/ quit_when_idle'[e]) => e \in Heard'
        BY <2>1, <2>2, <2>4, <3>2, <4>2, <4>3 DEF QuitFlags, OnlyByQuitNow
      <4>6. e < depth' /\ e \in Heard' => quit_called'[e] \/ quit_when_idle'[e]
        <5>1. CASE e = depth
          <6>1. depth > 0 /\ (e \in Heard /\ keep_running => quit_when_idle[e])
            BY <1>1, <1>2, <5>1 DEF InnermostQuits, Depths
          <6>2. e \in Heard => asked[e]
            BY DEF Heard, IsAsked
          <6> QED
            BY <2>1, <2>2, <2>4, <3>2, <5>1, <6>1, <6>2 DEF OnlyByQuitNow
        <5>2. CASE e # depth
          <6>1. e < depth' => e < depth
            BY <1>1, <2>1, <5>2
          <6> QED
            BY <2>1, <2>2, <2>4, <3>2, <4>3, <5>2, <6>1 DEF QuitFlags
        <5> QED
          BY <5>1, <5>2
      <4> QED
        BY <4>4, <4>5, <4>6 DEF QuitFlags
    <3> QED
      BY <3>1, <3>2
  <2> QED
    BY <2>5, <2>6
<1>10. ASSUME NEW d \in Depths, Quit(d)
       PROVE  InnermostQuits' /\ \A e \in Depths : QuitFlags(e)'
  <2>1. /\ UNCHANGED <<depth, pc, quit_when_idle>> /\ d <= depth /\ pc[depth] = "task"
        /\ depth \in Depths
    BY <1>1, <1>10, InTaskFacts DEF Quit
  <2>2. /\ quit_called'[d] /\ d \in Heard' /\ d \notin lost' /\ UNCHANGED inherited
        /\ \A e \in Depths : e # d => UNCHANGED quit_called[e] /\ (e \in lost' <=> e \in lost)
        /\ \A e \in Depths : e # d => (e \in Heard' <=> e \in Heard)
    BY <1>10 DEF Quit, TypeOK, Heard, IsAsked
  <2>3. keep_running' = (keep_running /\ d # depth)
    BY <1>10 DEF Quit
  <2>4. ASSUME NEW e \in Depths PROVE QuitFlags(e)'
    <3>1. CASE e = d
      <4>1. ~(e > depth)
        BY <1>1, <2>1, <3>1
      <4> QED
        BY <2>1, <2>2, <3>1, <4>1 DEF QuitFlags
    <3>2. CASE e # d
      BY <1>2, <2>1, <2>2, <3>2 DEF QuitFlags
    <3> QED
      BY <3>1, <3>2
  <2>5. InnermostQuits'
    BY <1>2, <2>1, <2>2, <2>3 DEF InnermostQuits
  <2> QED
    BY <2>4, <2>5
<1>11. CASE QuitNow
  <2>1. /\ UNCHANGED <<depth, pc, quit_called, quit_when_idle>> /\ pc[depth] = "task" /\ depth \in Depths
    BY <1>11, InTaskFacts DEF QuitNow
  <2>2. /\ depth \in Heard' /\ depth \notin lost'
        /\ \A e \in Depths : e # depth => (e \in Heard' <=> e \in Heard) /\ (e \in lost' <=> e \in lost)
    BY <1>11, <2>1 DEF QuitNow, TypeOK, Heard, IsAsked
  <2>3. ~keep_running'
    BY <1>11 DEF QuitNow
  <2>4. ASSUME NEW e \in Depths PROVE QuitFlags(e)'
    <3>1. CASE e = depth
      BY <1>1, <1>2, <2>1, <2>2, <3>1 DEF QuitFlags
    <3>2. CASE e # depth
      BY <1>2, <2>1, <2>2, <3>2 DEF QuitFlags
    <3> QED
      BY <3>1, <3>2
  <2>5. InnermostQuits'
    BY <2>1, <2>2, <2>3 DEF InnermostQuits
  <2> QED
    BY <2>4, <2>5
<1>12. CASE QuitWhenIdle
  <2>1. /\ UNCHANGED <<depth, pc, quit_called, keep_running>> /\ pc[depth] = "task" /\ depth \in Depths
    BY <1>12, InTaskFacts DEF QuitWhenIdle
  <2>2. /\ depth \in Heard' /\ depth \notin lost' /\ quit_when_idle'[depth]
        /\ \A e \in Depths : e # depth => UNCHANGED quit_when_idle[e] /\ (e \in lost' <=> e \in lost)
        /\ \A e \in Depths : e # depth => (e \in Heard' <=> e \in Heard)
    BY <1>12, <2>1 DEF QuitWhenIdle, TypeOK, Heard, IsAsked
  <2>3. ASSUME NEW e \in Depths PROVE QuitFlags(e)'
    <3>1. CASE e = depth
      BY <1>1, <1>2, <2>1, <2>2, <3>1 DEF QuitFlags
    <3>2. CASE e # depth
      BY <1>2, <2>1, <2>2, <3>2 DEF QuitFlags
    <3> QED
      BY <3>1, <3>2
  <2>4. InnermostQuits'
    BY <2>1, <2>2 DEF InnermostQuits
  <2> QED
    BY <2>3, <2>4
<1> QED
  BY <1>5, <1>6, <1>7, <1>8, <1>9, <1>10, <1>11, <1>12 DEF Next

------------------------------------------------------------------------------
(* The theorems *)

\* An unbound loop has no task and runs nothing.
LEMMA InitInv == Init => IInv
<1> SUFFICES ASSUME Init PROVE IInv
  OBVIOUS
<1> USE DEF Init
<1>1. /\ next_sequence_num \in 0..MaxTasks /\ passes \in 0..MaxPasses /\ depth \in 0..MaxDepth
      /\ now \in 1..MaxTime /\ recent_time \in Nat /\ delayed_work_time \in Nat
  BY BoundsAssumption DEF Null
<1>2. /\ message_loop_scheduled \in BOOLEAN /\ is_ready_for_scheduling \in BOOLEAN
      /\ nestable_tasks_allowed \in BOOLEAN /\ event \in BOOLEAN /\ keep_running \in BOOLEAN
  OBVIOUS
<1>3. /\ did_work \in [Depths -> BOOLEAN] /\ quit_called \in [Depths -> BOOLEAN]
      /\ quit_when_idle \in [Depths -> BOOLEAN] /\ asked \in [Depths -> BOOLEAN]
      /\ lost \in SUBSET Depths /\ inherited \in BOOLEAN
  OBVIOUS
<1>4. incoming_queue \in Seq(Task) /\ work_queue \in Seq(Task) /\ deferred \in Seq(Task)
  OBVIOUS
<1>5. Frames
  BY DEF Frames, Depths
<1>6. pc \in [Depths -> PC] /\ from \in [Depths -> Method] /\ phase \in Phase
  BY DEF PC, Method, Phase
<1>7. TypeOK
  BY <1>1, <1>2, <1>3, <1>4, <1>5, <1>6 DEF TypeOK, Frames
<1>8. Nesting
  BY DEF Nesting
<1>9. Scheduling /\ DelayedWork
  BY DEF Scheduling, PastDoWork, DelayedWork, PastDoDelayedWork
<1>10. Quitting
  <2>1. \A d \in Depths : ~quit_called[d] /\ ~quit_when_idle[d] /\ d \notin Heard /\ d \notin lost
    BY DEF Heard, IsAsked
  <2>2. depth = 0
    OBVIOUS
  <2> QED
    BY <2>1, <2>2 DEF Quitting
<1> QED
  BY <1>7, <1>8, <1>9, <1>10 DEF IInv

\* The inductive invariant holds throughout: how loops nest, who will look at a posted
\* task, when the pump wakes and what keep_running_ stands for.
THEOREM Invariance == Spec => []IInv
<1>1. IInv /\ [Next]_vars => IInv'
  BY TypeStep, NestingStep, SchedulingStep, DelayedWorkStep, QuittingStep DEF IInv
<1> QED
  BY <1>1, InitInv, PTL DEF Spec

\* Every variable of the loop, its queues, its pump and its RunLoops keeps its type.
THEOREM TypeCorrect == Spec => []TypeOK
<1>1. IInv => TypeOK
  BY DEF IInv
<1> QED
  BY <1>1, Invariance, PTL

\* No pump sleeps through a post or past the time of a delayed task, however many loops
\* are nested (IncomingTaskQueue::PostPendingTask, MessagePumpDefault::Run).
THEOREM NoWakeupIsLost == Spec => []NoLostWakeup
<1>1. IInv => NoLostWakeup
  <2> SUFFICES ASSUME IInv, Asleep, nestable_tasks_allowed
               PROVE  /\ ~event => incoming_queue = <<>> /\ work_queue = <<>>
                      /\ \A t \in delayed_work_queue : delayed_work_time # Null /\ delayed_work_time <= t.time
    BY DEF NoLostWakeup
  <2>1. PastDoWork /\ PastDoDelayedWork
    BY DEF Asleep, PastDoWork, PastDoDelayedWork
  <2>2. phase = "bound"
    BY DEF IInv, Nesting, Asleep
  <2> QED
    BY <2>1, <2>2 DEF IInv, Scheduling, DelayedWork
<1> QED
  BY <1>1, Invariance, PTL

\* A loop ends only if it was asked to or was run by a task that had quit its own, and
\* the innermost one does not sleep once it was asked to, unless by a QuitNow that was
\* lost to a nested loop (RunLoop::Quit, AfterRun, MessageLoop::DoIdleWork).
THEOREM QuitsAreHeeded == Spec => []EndsWhenAsked
<1>1. IInv => EndsWhenAsked
  <2> SUFFICES ASSUME IInv PROVE EndsWhenAsked
    OBVIOUS
  <2>1. depth \in 0..MaxDepth
    BY DEF IInv, TypeOK
  <2>2. ASSUME Asleep PROVE ~IsAsked(depth)
    <3>1. depth > 0 /\ depth \in Depths
      BY <2>1, <2>2 DEF Asleep, Depths
    <3>2. depth \notin Heard
      BY <2>2, <3>1 DEF IInv, Quitting, Asleep
    <3> QED
      BY <3>1, <3>2 DEF Heard
  <2>3. ASSUME NEW d \in 1..depth, pc[d] = "AfterRun" PROVE IsAsked(d) \/ inherited
    <3>1. depth \in Nat /\ d \in Nat /\ depth > 0
      BY <2>1
    <3>2. d = depth
      BY <2>3, <3>1 DEF IInv, Nesting
    <3>3. d \in Heard \/ inherited
      BY <2>3, <3>1, <3>2 DEF IInv, Quitting
    <3> QED
      BY <3>3 DEF Heard
  <2> QED
    BY <2>2, <2>3 DEF EndsWhenAsked
<1> QED
  BY <1>1, Invariance, PTL
==============================================================================
