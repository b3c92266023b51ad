-------------------------------- MODULE Timer --------------------------------
(***************************************************************************)
(* base::OneShotTimer (base/timer/timer.cc): runs a task of its user once, *)
(* a delay after Start.  The timer posts a delayed task to its thread's    *)
(* loop.  Stop does not take it back, and a later Start uses it again: the *)
(* posted task, when it runs too early, posts another one for the rest of  *)
(* the time.                                                               *)
(*                                                                         *)
(* Times are kept as the time left until them, and 0 once they have        *)
(* passed: the code only asks whether a time is in the future, and which   *)
(* of two future times is later.  An abandoned task, which does nothing    *)
(* when it runs, is not represented.                                       *)
(***************************************************************************)
EXTENDS Naturals

VARIABLES
  is_running,
  scheduled_task,      \* scheduled_task_ is not null: a task is in the loop's queue
  scheduled_run_time,  \* the time left until that task is due
  desired_run_time     \* the time left until the user's task shall run

timerVars == <<is_running, scheduled_task, scheduled_run_time, desired_run_time>>

TimerTypeOK ==
  /\ is_running \in BOOLEAN /\ scheduled_task \in BOOLEAN
  /\ scheduled_run_time \in Nat /\ desired_run_time \in Nat

TimerInit ==
  /\ is_running = FALSE /\ scheduled_task = FALSE
  /\ scheduled_run_time = 0 /\ desired_run_time = 0

PostNewScheduledTask(delay) ==
  /\ is_running' = TRUE
  /\ scheduled_task' = TRUE
  /\ scheduled_run_time' = delay /\ desired_run_time' = delay

\* The posted task is used again if it arrives before the new time, and abandoned
\* for a new one otherwise.
Reset(delay) ==
  IF scheduled_task /\ delay >= scheduled_run_time
    THEN /\ desired_run_time' = delay
         /\ is_running' = TRUE
         /\ UNCHANGED <<scheduled_task, scheduled_run_time>>
    ELSE PostNewScheduledTask(delay)

Stop ==
  /\ is_running' = FALSE
  /\ UNCHANGED <<scheduled_task, scheduled_run_time, desired_run_time>>

\* The loop may run the posted task, late or in time.
TaskIsDue == scheduled_task /\ scheduled_run_time = 0

\* The mutant of RunTooEarly: the task is dropped without a continuation.
NoContinuation ==
  /\ TaskIsDue
  /\ ~is_running \/ desired_run_time > 0
  /\ scheduled_task' = FALSE /\ UNCHANGED <<is_running, scheduled_run_time, desired_run_time>>

\* BaseTimerTaskInternal::Run of a timer that was stopped, or was started again and
\* is not yet due: a continuation is posted for the remaining time.
RunTooEarly ==
  /\ TaskIsDue
  /\ ~is_running \/ desired_run_time > 0
  /\ IF is_running
       THEN PostNewScheduledTask(desired_run_time)
       ELSE scheduled_task' = FALSE /\ UNCHANGED <<is_running, scheduled_run_time, desired_run_time>>

\* RunScheduledTask of a timer that is due: it is stopped and then the user's task
\* runs, which may start it again.
Fires == TaskIsDue /\ is_running /\ desired_run_time = 0

\* One unit of time passes.
TimePasses ==
  /\ scheduled_run_time' = IF scheduled_run_time > 0 THEN scheduled_run_time - 1 ELSE 0
  /\ desired_run_time' = IF desired_run_time > 0 THEN desired_run_time - 1 ELSE 0
  /\ UNCHANGED <<is_running, scheduled_task>>
==============================================================================
