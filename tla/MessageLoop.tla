----------------------------- MODULE MessageLoop -----------------------------
(***************************************************************************)
(* A base::MessageLoop: the queue other threads post to                    *)
(* (incoming_task_queue.cc), the loop's own queues and its DoWork,         *)
(* DoDelayedWork and DoIdleWork (message_loop.cc), the pump that calls     *)
(* them (message_pump_default.cc) and the stack of RunLoops (run_loop.cc). *)
(*                                                                         *)
(* Only the incoming queue, the pump's event and the clock are shared with *)
(* other threads; each step of the loop's thread touches them at most      *)
(* once, under the queue's lock.  The event is a token, as EventContract   *)
(* promises.  A RunLoop is named by its depth.  A task does anything a     *)
(* closure may do on this thread, any number of times: post, quit a loop,  *)
(* allow nested tasks, run a nested loop, return.                          *)
(***************************************************************************)
EXTENDS Integers, Sequences, FiniteSets

CONSTANTS MaxTasks,   \* bound on the number of accepted tasks
          MaxDepth,   \* bound on the nesting of RunLoops
          MaxTime,    \* bound on the clock
          Delays,     \* the delays tasks are posted with; 0 is an immediate task
          MaxPasses,  \* passes of ~MessageLoop over the queues; 100 in the code
          NoTask      \* no task

ASSUME BoundsAssumption ==
  /\ MaxTasks \in Nat /\ MaxDepth \in Nat \ {0} /\ MaxTime \in Nat \ {0}
  /\ Delays \subseteq Nat
  /\ MaxPasses \in Nat \ {0}

\* A null TimeTicks.  The clock starts after it.
Null == 0

\* A PendingTask: sequence_num, delayed_run_time, nestable.
Task == [seq : Nat, time : Nat, nestable : BOOLEAN]

ASSUME NoTaskAssumption == NoTask \notin Task

VARIABLES
  \* IncomingTaskQueue, guarded by incoming_queue_lock_
  incoming_queue, next_sequence_num, message_loop_scheduled, is_ready_for_scheduling,
  \* MessageLoop
  phase,       \* "unbound", "bound", then the stages of ~MessageLoop
  passes,      \* passes ~MessageLoop has made
  work_queue, delayed_work_queue, deferred, nestable_tasks_allowed, recent_time,
  \* MessagePumpDefault
  event, keep_running, delayed_work_time,
  \* the RunLoops on the stack: run_depth_ of the innermost and, for each depth,
  \* where its pump is, the pump's did_work, the task it is running and the
  \* delegate method that runs it
  depth, pc, did_work, task, from, quit_called, quit_when_idle,
  \* the clock
  now,
  \* history: tasks that have ended or were deleted
  gone,
  asked,      \* loops asked to end
  lost,       \* of those, the ones whose QuitNow was lost to a nested loop
  inherited   \* was keep_running_ already false when the innermost loop was run?

incomingVars == <<incoming_queue, next_sequence_num, message_loop_scheduled, is_ready_for_scheduling>>
lifeVars == <<phase, passes>>
queueVars == <<work_queue, delayed_work_queue, deferred>>
pumpVars == <<event, keep_running, delayed_work_time>>
frameVars == <<pc, did_work, task, from>>
quitVars == <<quit_called, quit_when_idle, asked, lost, inherited>>
vars == <<incomingVars, lifeVars, queueVars, nestable_tasks_allowed, recent_time,
          pumpVars, depth, frameVars, quitVars, now, gone>>

Phase == {"unbound", "bound", "delete", "reload", "deleteAgain", "unhook", "dead"}
Method == {"DoWork", "DoDelayedWork", "DoIdleWork"}
\* "none": no RunLoop at this depth.
PC == Method \union {"none", "Wait", "asleep", "task", "AfterRun"}
Depths == 1..MaxDepth

TypeOK ==
  /\ incoming_queue \in Seq(Task)
  /\ next_sequence_num \in 0..MaxTasks
  /\ message_loop_scheduled \in BOOLEAN
  /\ is_ready_for_scheduling \in BOOLEAN
  /\ phase \in Phase
  /\ passes \in 0..MaxPasses
  /\ work_queue \in Seq(Task)
  /\ delayed_work_queue \in SUBSET Task
  /\ deferred \in Seq(Task)
  /\ nestable_tasks_allowed \in BOOLEAN
  /\ recent_time \in Nat
  /\ event \in BOOLEAN
  /\ keep_running \in BOOLEAN
  /\ delayed_work_time \in Nat
  /\ depth \in 0..MaxDepth
  /\ pc \in [Depths -> PC]
  /\ did_work \in [Depths -> BOOLEAN]
  /\ task \in [Depths -> Task \union {NoTask}]
  /\ from \in [Depths -> Method]
  /\ quit_called \in [Depths -> BOOLEAN]
  /\ quit_when_idle \in [Depths -> BOOLEAN]
  /\ asked \in [Depths -> BOOLEAN]
  /\ lost \in SUBSET Depths
  /\ inherited \in BOOLEAN
  /\ now \in 1..MaxTime
  /\ gone \in SUBSET Nat
  /\ \A d \in Depths : (task[d] # NoTask <=> pc[d] = "task") /\ (pc[d] = "none" <=> d > depth)

\* MessageLoop::CreateUnbound.
Init ==
  /\ incoming_queue = <<>> /\ next_sequence_num = 0
  /\ message_loop_scheduled = FALSE /\ is_ready_for_scheduling = FALSE
  /\ phase = "unbound" /\ passes = 0
  /\ work_queue = <<>> /\ delayed_work_queue = {} /\ deferred = <<>>
  /\ nestable_tasks_allowed = TRUE
  /\ recent_time = Null
  /\ event = FALSE /\ keep_running = TRUE /\ delayed_work_time = Null
  /\ depth = 0
  /\ pc = [d \in Depths |-> "none"]
  /\ did_work = [d \in Depths |-> FALSE]
  /\ task = [d \in Depths |-> NoTask]
  /\ from = [d \in Depths |-> "DoWork"]
  /\ quit_called = [d \in Depths |-> FALSE]
  /\ quit_when_idle = [d \in Depths |-> FALSE]
  /\ asked = [d \in Depths |-> FALSE]
  /\ lost = {} /\ inherited = FALSE
  /\ now = 1
  /\ gone = {}

------------------------------------------------------------------------------
(* The incoming queue: any thread, the loop's own included *)

\* CalculateDelayedRuntime.
CalculateDelayedRuntime(delay) == IF delay > 0 THEN now + delay ELSE Null

\* PostPendingTask of a loop that is still there.  Of a destroyed one it refuses
\* the task and changes nothing.
Post(delay, nestable) ==
  /\ phase # "dead"
  /\ next_sequence_num < MaxTasks
  /\ now + delay <= MaxTime
  /\ incoming_queue' = Append(incoming_queue,
       [seq |-> next_sequence_num, time |-> CalculateDelayedRuntime(delay), nestable |-> nestable])
  /\ next_sequence_num' = next_sequence_num + 1
  /\ LET schedules == /\ is_ready_for_scheduling
                      /\ ~message_loop_scheduled
                      /\ incoming_queue = <<>>
     IN  /\ event' = (event \/ schedules)
         /\ message_loop_scheduled' = (message_loop_scheduled \/ schedules)
  /\ UNCHANGED <<is_ready_for_scheduling, lifeVars, queueVars, nestable_tasks_allowed,
                 recent_time, keep_running, delayed_work_time, depth, frameVars, quitVars, now, gone>>

SwapKeepsScheduled ==
  /\ work_queue' = incoming_queue
  /\ incoming_queue' = work_queue
  /\ UNCHANGED message_loop_scheduled

\* IncomingTaskQueue::ReloadWorkQueue.
SwapQueues ==
  /\ work_queue' = IF incoming_queue = <<>> THEN work_queue ELSE incoming_queue
  /\ incoming_queue' = IF incoming_queue = <<>> THEN incoming_queue ELSE work_queue
  /\ message_loop_scheduled' = (message_loop_scheduled /\ incoming_queue # <<>>)

\* BindToCurrentThread and StartScheduling.
BindToCurrentThread ==
  /\ phase = "unbound"
  /\ phase' = "bound"
  /\ is_ready_for_scheduling' = TRUE
  /\ event' = (incoming_queue # <<>>)
  /\ message_loop_scheduled' = (incoming_queue # <<>>)
  /\ UNCHANGED <<incoming_queue, next_sequence_num, passes, queueVars, nestable_tasks_allowed,
                 recent_time, keep_running, delayed_work_time, depth, frameVars, quitVars, now, gone>>

Tick ==
  /\ now < MaxTime
  /\ now' = now + 1
  /\ UNCHANGED <<incomingVars, lifeVars, queueVars, nestable_tasks_allowed, recent_time,
                 pumpVars, depth, frameVars, quitVars, gone>>

------------------------------------------------------------------------------
(* The pump *)

PumpAt(d, where) == depth = d /\ pc[d] = where

\* The pump's loop after the delegate method m returned r: every call is followed
\* by a look at keep_running_.
Returned(d, m, r, keep) ==
  /\ pc' = [pc EXCEPT ![d] =
       CASE ~keep -> "AfterRun"
         [] keep /\ m = "DoWork" -> "DoDelayedWork"
         [] keep /\ m = "DoDelayedWork" -> IF did_work[d] \/ r THEN "DoWork" ELSE "DoIdleWork"
         [] keep /\ m = "DoIdleWork" -> IF r THEN "DoWork" ELSE "Wait"]
  /\ did_work' = [did_work EXCEPT ![d] = (m = "DoWork" /\ r)]

\* RunTask: up to the call of the closure.
RunTask(d, m, t) ==
  /\ pc' = [pc EXCEPT ![d] = "task"]
  /\ task' = [task EXCEPT ![d] = t]
  /\ from' = [from EXCEPT ![d] = m]
  /\ nestable_tasks_allowed' = FALSE
  /\ UNCHANGED did_work

\* Every wait of the pump ends because of a signal, which it consumes, or because
\* delayed_work_time_ has come.
Wake(d) ==
  /\ PumpAt(d, "asleep")
  /\ \/ event /\ event' = FALSE
     \/ delayed_work_time # Null /\ delayed_work_time <= now /\ UNCHANGED event
  /\ pc' = [pc EXCEPT ![d] = "DoWork"]
  /\ UNCHANGED <<incomingVars, lifeVars, queueVars, nestable_tasks_allowed, recent_time,
                 keep_running, delayed_work_time, depth, did_work, task, from, quitVars, now, gone>>

\* The last part of the pump's loop: sleep, unless a delayed task is already due.
Wait(d) ==
  /\ PumpAt(d, "Wait")
  /\ LET due == delayed_work_time # Null /\ delayed_work_time <= now IN
       /\ pc' = [pc EXCEPT ![d] = IF due THEN "DoWork" ELSE "asleep"]
       /\ delayed_work_time' = IF due THEN Null ELSE delayed_work_time
  /\ UNCHANGED <<incomingVars, lifeVars, queueVars, nestable_tasks_allowed, recent_time,
                 event, keep_running, depth, did_work, task, from, quitVars, now, gone>>

------------------------------------------------------------------------------
(* MessageLoop::DoWork *)

\* The tasks may not be nested in the running one: DoWork returns false.
DoWorkRefused(d) ==
  /\ PumpAt(d, "DoWork") /\ ~nestable_tasks_allowed
  /\ Returned(d, "DoWork", FALSE, keep_running)
  /\ UNCHANGED <<incomingVars, lifeVars, queueVars, nestable_tasks_allowed, recent_time,
                 pumpVars, depth, task, from, quitVars, now, gone>>

ReloadsEarly == TRUE

\* MessageLoop::ReloadWorkQueue only reloads an empty queue.
MayReload == work_queue = <<>>

\* Reload; when there is nothing to reload, DoWork returns false.
DoWorkReload(d) ==
  /\ PumpAt(d, "DoWork") /\ nestable_tasks_allowed
  /\ MayReload
  /\ SwapQueues
  /\ \/ work_queue' = <<>> /\ Returned(d, "DoWork", FALSE, keep_running)
     \/ work_queue' # <<>> /\ UNCHANGED <<pc, did_work>>
  /\ UNCHANGED <<next_sequence_num, is_ready_for_scheduling, lifeVars, delayed_work_queue, deferred,
                 nestable_tasks_allowed, recent_time, pumpVars, depth, task, from, quitVars, now, gone>>

LatestOnTop(t, Q) == t \in Q /\ \A u \in Q : t.time >= u.time

\* PendingTask::operator<, inverted: t is at the top of the priority queue Q.
IsTop(t, Q) ==
  /\ t \in Q
  /\ \A u \in Q : t.time < u.time \/ (t.time = u.time /\ t.seq <= u.seq)

\* A delayed task moves to the delayed queue.  The pump is told of it when its
\* closure is also the closure at the top: the task itself, or another post of
\* the same closure.
DoWorkDelayed(d) ==
  /\ PumpAt(d, "DoWork") /\ nestable_tasks_allowed
  /\ work_queue # <<>>
  /\ LET t == Head(work_queue) IN
       /\ t.time # Null
       /\ delayed_work_queue' = delayed_work_queue \union {t}
       /\ \/ delayed_work_time' = t.time
          \/ ~IsTop(t, delayed_work_queue \union {t}) /\ UNCHANGED delayed_work_time
  /\ work_queue' = Tail(work_queue)
  /\ UNCHANGED <<incomingVars, lifeVars, deferred, nestable_tasks_allowed, recent_time,
                 event, keep_running, depth, frameVars, quitVars, now, gone>>

RunsAlways(t, d) == TRUE

\* DeferOrRunPendingTask runs t at depth d rather than put it off.
RunsNow(t, d) == t.nestable \/ d = 1

DeferForgets(t) == UNCHANGED deferred

\* deferred_non_nestable_work_queue_.push.
Defer(t) == deferred' = Append(deferred, t)

\* An immediate task: run it, and DoWork returns true; or put it off and go on.
DoWorkImmediate(d) ==
  /\ PumpAt(d, "DoWork") /\ nestable_tasks_allowed
  /\ work_queue # <<>>
  /\ LET t == Head(work_queue) IN
       /\ t.time = Null
       /\ \/ RunsNow(t, d) /\ RunTask(d, "DoWork", t) /\ UNCHANGED deferred
          \/ ~RunsNow(t, d) /\ Defer(t) /\ UNCHANGED <<frameVars, nestable_tasks_allowed>>
  /\ work_queue' = Tail(work_queue)
  /\ UNCHANGED <<incomingVars, lifeVars, delayed_work_queue, recent_time,
                 pumpVars, depth, quitVars, now, gone>>

------------------------------------------------------------------------------
(* MessageLoop::DoDelayedWork.  It sets the pump's delayed_work_time_. *)

DoDelayedWorkNothing(d) ==
  /\ PumpAt(d, "DoDelayedWork")
  /\ ~nestable_tasks_allowed \/ delayed_work_queue = {}
  /\ recent_time' = Null
  /\ delayed_work_time' = Null
  /\ Returned(d, "DoDelayedWork", FALSE, keep_running)
  /\ UNCHANGED <<incomingVars, lifeVars, queueVars, nestable_tasks_allowed,
                 event, keep_running, depth, task, from, quitVars, now, gone>>

\* The clock is read again only if t is not due by the last reading.
RecentTime(t) == IF t.time > recent_time THEN now ELSE recent_time

\* The first delayed task is not due yet.
DoDelayedWorkEarly(d) ==
  /\ PumpAt(d, "DoDelayedWork") /\ nestable_tasks_allowed
  /\ \E t \in delayed_work_queue :
       /\ IsTop(t, delayed_work_queue)
       /\ t.time > RecentTime(t)
       /\ recent_time' = RecentTime(t)
       /\ delayed_work_time' = t.time
  /\ Returned(d, "DoDelayedWork", FALSE, keep_running)
  /\ UNCHANGED <<incomingVars, lifeVars, queueVars, nestable_tasks_allowed,
                 event, keep_running, depth, task, from, quitVars, now, gone>>

\* The first delayed task is due: run it or put it off.  delayed_work_time_ is
\* set to the next one, and left as it is if there is none.
DoDelayedWorkDue(d) ==
  /\ PumpAt(d, "DoDelayedWork") /\ nestable_tasks_allowed
  /\ \E t \in delayed_work_queue :
       /\ IsTop(t, delayed_work_queue)
       /\ t.time <= RecentTime(t)
       /\ recent_time' = RecentTime(t)
       /\ delayed_work_queue' = delayed_work_queue \ {t}
       /\ \/ delayed_work_queue' = {} /\ UNCHANGED delayed_work_time
          \/ \E u \in delayed_work_queue' : IsTop(u, delayed_work_queue') /\ delayed_work_time' = u.time
       /\ \/ RunsNow(t, d) /\ RunTask(d, "DoDelayedWork", t) /\ UNCHANGED deferred
          \/ /\ ~RunsNow(t, d)
             /\ Defer(t)
             /\ Returned(d, "DoDelayedWork", FALSE, keep_running)
             /\ UNCHANGED <<nestable_tasks_allowed, task, from>>
  /\ UNCHANGED <<incomingVars, lifeVars, work_queue, event, keep_running, depth, quitVars, now, gone>>

------------------------------------------------------------------------------
(* MessageLoop::DoIdleWork *)

\* ProcessNextDelayedNonNestableTask.
DoIdleWorkDeferred(d) ==
  /\ PumpAt(d, "DoIdleWork") /\ d = 1
  /\ deferred # <<>>
  /\ RunTask(d, "DoIdleWork", Head(deferred))
  /\ deferred' = Tail(deferred)
  /\ UNCHANGED <<incomingVars, lifeVars, work_queue, delayed_work_queue, recent_time,
                 pumpVars, depth, quitVars, now, gone>>

DoIdleWorkIdle(d) ==
  /\ PumpAt(d, "DoIdleWork")
  /\ d # 1 \/ deferred = <<>>
  /\ keep_running' = (keep_running /\ ~quit_when_idle[d])
  /\ Returned(d, "DoIdleWork", FALSE, keep_running')
  /\ UNCHANGED <<incomingVars, lifeVars, queueVars, nestable_tasks_allowed, recent_time,
                 event, delayed_work_time, depth, task, from, quitVars, now, gone>>

------------------------------------------------------------------------------
(* RunLoop *)

\* What ends the loop e is keep_running_ alone: it was asked by QuitNow.
OnlyByQuitNow(e) == e = depth /\ asked[e] /\ ~keep_running /\ ~quit_called[e] /\ ~quit_when_idle[e]

\* RunLoop::Run and RunUntilIdle, outside any loop or in a task: BeforeRun pushes
\* the loop.  A loop that was told to quit before it is run is not run at all.  One
\* keep_running_ serves all loops: run by a task that has quit its own loop, a
\* nested one starts with it false.  MessagePumpDefault::Run has a DCHECK against
\* that; where it is compiled out the nested loop inherits the request and ends after
\* one DoWork, and its end sets keep_running_ again, so that a QuitNow of the outer
\* loop is lost.
Run(d, untilIdle) ==
  /\ d = depth + 1 /\ d <= MaxDepth
  /\ phase = "bound"
  /\ depth > 0 => pc[depth] = "task"
  /\ depth' = d
  /\ pc' = [pc EXCEPT ![d] = "DoWork"]
  /\ quit_when_idle' = [quit_when_idle EXCEPT ![d] = untilIdle]
  /\ asked' = [asked EXCEPT ![d] = untilIdle]
  /\ inherited' = ~keep_running
  /\ lost' = lost \union {e \in Depths : OnlyByQuitNow(e)}
  /\ UNCHANGED <<incomingVars, lifeVars, queueVars, nestable_tasks_allowed, recent_time,
                 pumpVars, did_work, task, from, quit_called, now, gone>>

ForgetsOuterQuit(d) == TRUE
QuitsOuterAlways(d) == d = 1

\* RunLoop::AfterRun: a Quit of the outer loop that came while the inner one ran
\* is carried out now.
KeepOuterRunning(d) == ~(d > 1 /\ quit_called[d - 1])

PopForgotten(d) == UNCHANGED depth

\* run_loop_ is the loop that ran this one.
PopRunLoop(d) == depth' = d - 1

\* The end of MessagePumpDefault::Run, and RunLoop::AfterRun.
AfterRun(d) ==
  /\ PumpAt(d, "AfterRun")
  /\ keep_running' = KeepOuterRunning(d)
  /\ PopRunLoop(d)
  /\ pc' = [pc EXCEPT ![d] = "none"]
  /\ did_work' = [did_work EXCEPT ![d] = FALSE]
  /\ quit_called' = [quit_called EXCEPT ![d] = FALSE]
  /\ quit_when_idle' = [quit_when_idle EXCEPT ![d] = FALSE]
  /\ asked' = [asked EXCEPT ![d] = FALSE]
  /\ lost' = lost \ {d} /\ inherited' = FALSE
  /\ UNCHANGED <<incomingVars, lifeVars, queueVars, nestable_tasks_allowed, recent_time,
                 event, delayed_work_time, task, from, now, gone>>

------------------------------------------------------------------------------
(* What a task may do, besides Post and Run *)

InTask == depth > 0 /\ pc[depth] = "task"

\* RunLoop::Quit of the loop at depth d; only the innermost stops its pump.
Quit(d) ==
  /\ InTask /\ d \in 1..depth
  /\ quit_called' = [quit_called EXCEPT ![d] = TRUE]
  /\ asked' = [asked EXCEPT ![d] = TRUE] /\ lost' = lost \ {d}
  /\ keep_running' = (keep_running /\ d # depth)
  /\ UNCHANGED <<incomingVars, lifeVars, queueVars, nestable_tasks_allowed, recent_time,
                 event, delayed_work_time, depth, frameVars, quit_when_idle, inherited, now, gone>>

\* MessageLoop::QuitNow.
QuitNow ==
  /\ InTask
  /\ keep_running' = FALSE
  /\ asked' = [asked EXCEPT ![depth] = TRUE] /\ lost' = lost \ {depth}
  /\ UNCHANGED <<incomingVars, lifeVars, queueVars, nestable_tasks_allowed, recent_time,
                 event, delayed_work_time, depth, frameVars, quit_called, quit_when_idle, inherited, now, gone>>

\* MessageLoop::QuitWhenIdle.
QuitWhenIdle ==
  /\ InTask
  /\ quit_when_idle' = [quit_when_idle EXCEPT ![depth] = TRUE]
  /\ asked' = [asked EXCEPT ![depth] = TRUE] /\ lost' = lost \ {depth}
  /\ UNCHANGED <<incomingVars, lifeVars, queueVars, nestable_tasks_allowed, recent_time,
                 pumpVars, depth, frameVars, quit_called, inherited, now, gone>>

SetNestableTasksAllowed(allowed) ==
  /\ InTask
  /\ nestable_tasks_allowed' = allowed
  /\ event' = (event \/ allowed)
  /\ UNCHANGED <<incomingVars, lifeVars, queueVars, recent_time, keep_running, delayed_work_time,
                 depth, frameVars, quitVars, now, gone>>

\* The closure returns: the end of RunTask, and the method that called it returns
\* true.
FinishTask(d) ==
  /\ PumpAt(d, "task")
  /\ gone' = gone \union {task[d].seq}
  /\ task' = [task EXCEPT ![d] = NoTask]
  /\ nestable_tasks_allowed' = TRUE
  /\ Returned(d, from[d], TRUE, keep_running)
  /\ UNCHANGED <<incomingVars, lifeVars, queueVars, recent_time, pumpVars, depth, from, quitVars, now>>

------------------------------------------------------------------------------
(* MessageLoop::~MessageLoop.  The destructors of deleted tasks may post. *)

Seqs(q) == {q[i].seq : i \in 1..Len(q)}

Destroy ==
  /\ phase \in {"unbound", "bound"} /\ depth = 0
  /\ phase' = "delete"
  /\ UNCHANGED <<incomingVars, passes, queueVars, nestable_tasks_allowed, recent_time,
                 pumpVars, depth, frameVars, quitVars, now, gone>>

\* DeletePendingTasks, twice in each pass; the second one that finds nothing, or
\* the last pass, ends the loop.
DeletePendingTasks ==
  /\ phase \in {"delete", "deleteAgain"}
  /\ LET didWork == work_queue # <<>> \/ deferred # <<>> \/ delayed_work_queue # {} IN
       /\ phase' = IF phase = "delete" THEN "reload"
                   ELSE IF didWork /\ passes + 1 < MaxPasses THEN "delete" ELSE "unhook"
       /\ passes' = IF phase = "deleteAgain" /\ phase' = "delete" THEN passes + 1 ELSE passes
  /\ gone' = gone \union Seqs(work_queue) \union Seqs(deferred)
                  \union {t.seq : t \in delayed_work_queue}
  /\ work_queue' = <<>> /\ deferred' = <<>> /\ delayed_work_queue' = {}
  /\ UNCHANGED <<incomingVars, nestable_tasks_allowed, recent_time, pumpVars, depth, frameVars,
                 quitVars, now>>

DestroyReload ==
  /\ phase = "reload"
  /\ phase' = "deleteAgain"
  /\ SwapQueues
  /\ UNCHANGED <<next_sequence_num, is_ready_for_scheduling, passes, delayed_work_queue, deferred,
                 nestable_tasks_allowed, recent_time, pumpVars, depth, frameVars, quitVars, now, gone>>

\* Posts made up to here, by the observers of the destruction for example, are
\* accepted.
WillDestroyCurrentMessageLoop ==
  /\ phase = "unhook"
  /\ phase' = "dead"
  /\ UNCHANGED <<incomingVars, passes, queueVars, nestable_tasks_allowed, recent_time,
                 pumpVars, depth, frameVars, quitVars, now, gone>>

------------------------------------------------------------------------------

\* The steps of the loop's thread outside the tasks it runs.
LoopStep(d) ==
  \/ DoWorkRefused(d) \/ DoWorkReload(d) \/ DoWorkDelayed(d) \/ DoWorkImmediate(d)
  \/ DoDelayedWorkNothing(d) \/ DoDelayedWorkEarly(d) \/ DoDelayedWorkDue(d)
  \/ DoIdleWorkDeferred(d) \/ DoIdleWorkIdle(d)
  \/ Wait(d) \/ Wake(d) \/ AfterRun(d)

DestroyStep == DeletePendingTasks \/ DestroyReload \/ WillDestroyCurrentMessageLoop

Next ==
  \/ Tick
  \/ \E delay \in Delays, nestable \in BOOLEAN : Post(delay, nestable)
  \/ BindToCurrentThread
  \/ \E d \in Depths : LoopStep(d) \/ FinishTask(d) \/ Quit(d)
  \/ \E d \in Depths, untilIdle \in BOOLEAN : Run(d, untilIdle)
  \/ QuitNow \/ QuitWhenIdle
  \/ \E allowed \in BOOLEAN : SetNestableTasksAllowed(allowed)
  \/ Destroy \/ DestroyStep

Spec == Init /\ [][Next]_vars

\* The loop's thread keeps running, time passes, and a task that is given the
\* thread again and again returns in the end.  Nothing is assumed of the posts,
\* of the calls that quit a loop or of those that run one.
Fairness ==
  /\ WF_vars(Tick)
  /\ WF_vars(DestroyStep)
  /\ \A d \in Depths : WF_vars(LoopStep(d)) /\ SF_vars(FinishTask(d))

FairSpec == Spec /\ Fairness

------------------------------------------------------------------------------
(* Properties *)

Asleep == depth > 0 /\ pc[depth] = "asleep"

\* A pump that sleeps with no signal to wake it has no task to run: every post
\* that finds the loop past its last look at the queue signals the event.  And it
\* wakes no later than its first delayed task, although nested loops share
\* delayed_work_time_ and DoDelayedWork may leave it stale.
NoLostWakeup ==
  Asleep /\ nestable_tasks_allowed =>
    /\ ~event => incoming_queue = <<>> /\ work_queue = <<>>
    /\ \A t \in delayed_work_queue : delayed_work_time # Null /\ delayed_work_time <= t.time

\* Where the accepted task n is.
Places(n) ==
  {<<"incoming", i>> : i \in {j \in 1..Len(incoming_queue) : incoming_queue[j].seq = n}}
  \union {<<"work", i>> : i \in {j \in 1..Len(work_queue) : work_queue[j].seq = n}}
  \union {<<"deferred", i>> : i \in {j \in 1..Len(deferred) : deferred[j].seq = n}}
  \union {<<"delayed", t.time>> : t \in {u \in delayed_work_queue : u.seq = n}}
  \union {<<"running", d>> : d \in {e \in 1..depth : task[e] # NoTask /\ task[e].seq = n}}
  \union {<<"gone", i>> : i \in {j \in gone : j = n}}

\* No task is lost or held twice while it moves between the queues, and none that
\* ended or was deleted comes back.
TaskConservation ==
  \A n \in 0..(next_sequence_num - 1) : Cardinality(Places(n)) = 1

\* Loop d was asked to end, and not by a QuitNow that is lost.
IsAsked(d) == asked[d] /\ d \notin lost

\* The pump's loop ends only for a loop that somebody asked to end, and the innermost
\* one never sleeps once it was asked to, whichever way was used, even if it was asked
\* while a nested loop ran, whose end resets keep_running_.  Two exceptions follow from
\* running a nested loop in a task that has quit its own: the nested one ends unasked,
\* and a QuitNow of the outer one is lost.
EndsWhenAsked ==
  /\ \A d \in 1..depth : pc[d] = "AfterRun" => IsAsked(d) \/ inherited
  /\ Asleep => ~IsAsked(depth)

\* What run_loop.h says without exceptions, "Quitting one RunLoop has no bearing on the
\* others": a loop ends only if it was asked to itself.  It fails for a loop that is run
\* by a task after it has quit its own.
QuitHasNoBearing == \A d \in 1..depth : pc[d] = "AfterRun" => asked[d]

Running == {task[d] : d \in Depths} \ {NoTask}
TasksIn(q) == {q[i] : i \in 1..Len(q)}
Waiting == TasksIn(incoming_queue) \union TasksIn(work_queue) \union delayed_work_queue
Starts(t) == t \in Running' /\ t \notin Running

\* The pairs of tasks sequenced_task_runner.h orders: t2 must start after t1.
Ordered(t1, t2) ==
  t1.seq < t2.seq /\ t1.time <= t2.time /\ (~t2.nestable \/ t1.nestable)

\* That guarantee, except for a non-nestable t1 that a nested loop has put off.
OrderUnlessDeferred ==
  [][\A t2 \in TasksIn(work_queue) \union delayed_work_queue \union TasksIn(deferred) :
       Starts(t2) => \A t1 \in Waiting : ~Ordered(t1, t2)]_vars

\* A task starts no earlier than its delay says, a non-nestable one never inside
\* another task, and (the DCHECK of RunTask) none while the running task forbids it.
StartsAreLegal ==
  [][\A t \in TasksIn(work_queue) \union delayed_work_queue \union TasksIn(deferred) :
       Starts(t) => /\ t.time <= now
                    /\ t.nestable \/ Running = {}
                    /\ nestable_tasks_allowed]_vars

IsWaiting(n) == \E t \in Waiting : t.seq = n

\* An accepted task is started or, if it may not be nested, put off, unless the
\* loop ends or a nested loop runs that may run no tasks.
TasksAreServed ==
  \A n \in 0..(MaxTasks - 1) :
    IsWaiting(n) ~> (~IsWaiting(n) \/ depth = 0 \/ (Asleep /\ ~nestable_tasks_allowed))

\* RunLoop::Quit ends the loop it names, at the latest when the loops nested in it
\* have ended; those are free to sleep for ever (run_loop.h warns of it).
QuitEndsLoop ==
  \A d \in Depths :
    (d <= depth /\ quit_called[d]) ~> (depth < d \/ (Asleep /\ depth > d))
==============================================================================
