------------------------- MODULE ImportantFileWriter -------------------------
(***************************************************************************)
(* base::ImportantFileWriter (base/files/important_file_writer.cc) with    *)
(* its timer, its file thread and the relay of PostTaskAndReply, over a    *)
(* file system that loses power.                                           *)
(*                                                                         *)
(* The owner, on one thread, asks for its data to be saved, at once or     *)
(* after the commit interval; a sequenced task runner on another thread    *)
(* writes it to a temporary file, flushes that and renames it over the     *)
(* target.  The n-th request is about version n of the data: the           *)
(* serializer passed to ScheduleWrite yields the version it was passed     *)
(* for, which is the most that "the most recent |serializer| will be used" *)
(* can ask of the order of writes.                                         *)
(*                                                                         *)
(* The file system is external: contents and names are cached and reach    *)
(* the disk on their own, in any order, unless flushed.                    *)
(***************************************************************************)
EXTENDS Integers, Sequences, Timer

CONSTANTS Interval,     \* commit_interval_
          MaxVersions,  \* bound on the number of requests
          ClosesBusy    \* may the task runner refuse a task while it still runs others?

ASSUME WriterAssumption ==
  /\ Interval \in Nat \ {0}
  /\ MaxVersions \in Nat
  /\ ClosesBusy \in BOOLEAN

Versions == 0..MaxVersions
Null == -1      \* no serializer
Partial == -2   \* contents that are no version, the empty file included
Contents == Versions \union {Partial}

\* A file: what a reader sees and what of it is on the disk.
File == [data : Contents, disk : Contents]
NoFile == [data |-> Partial, disk |-> Partial]

\* WriteFileAtomically runs on the file thread, and on the owner's if posting fails.
Actors == {"file", "owner"}

VARIABLES
  serializer,  \* serializer_: the version it will yield
  callback,    \* on_next_successful_write_ is set
  exists,      \* the writer has not been destroyed
  accepting,   \* the task runner accepts tasks
  queue,       \* the write tasks posted to it
  replies,     \* the replies posted to the owner's loop
  pc,          \* where each actor is in WriteFileAtomically
  job,         \* the write it is at
  tmp,         \* its temporary file
  target,      \* the file at path_
  disk,        \* what path_ names on the disk
  latest,      \* the number of requests
  lost         \* history: the newest version that failed to be saved

writerVars == <<serializer, callback, exists>>
runnerVars == <<accepting, queue, replies>>
threadVars == <<pc, job, tmp>>
fileVars == <<target, disk>>
vars == <<timerVars, writerVars, runnerVars, threadVars, fileVars, latest, lost>>

Job == [version : Versions, reply : BOOLEAN]
Reply == [version : Versions, result : BOOLEAN]
NoJob == [version |-> 0, reply |-> FALSE]

TypeOK ==
  /\ TimerTypeOK
  /\ serializer \in Versions \union {Null}
  /\ callback \in BOOLEAN /\ exists \in BOOLEAN /\ accepting \in BOOLEAN
  /\ queue \in Seq(Job) /\ replies \in Seq(Reply)
  /\ pc \in [Actors -> {"idle", "create", "open", "write", "flush", "rename"}]
  /\ job \in [Actors -> Job]
  /\ tmp \in [Actors -> File]
  /\ target \in File /\ disk \in Contents
  /\ latest \in Versions /\ lost \in Versions

Init ==
  /\ TimerInit
  /\ serializer = Null /\ callback = FALSE /\ exists = TRUE
  /\ accepting = TRUE /\ queue = <<>> /\ replies = <<>>
  /\ pc = [a \in Actors |-> "idle"]
  /\ job = [a \in Actors |-> NoJob]
  /\ tmp = [a \in Actors |-> NoFile]
  /\ target = [data |-> 0, disk |-> 0] /\ disk = 0
  /\ latest = 0 /\ lost = 0

OwnerIsFree == exists /\ pc["owner"] = "idle"

------------------------------------------------------------------------------
(* The owner's thread *)

\* A version that will not be saved.
Lose(v) == lost' = IF v > lost THEN v ELSE lost

HasPendingWrite == is_running

\* The mutant of StopsTimer: a write cancels no scheduled one.
LeavesTimer == UNCHANGED timerVars

StopsTimer == IF HasPendingWrite THEN Stop ELSE UNCHANGED timerVars

\* PostTaskAndReplyWithResult if a callback is registered, PostTask otherwise.  If
\* the post fails the write is made on the owner's thread and nobody is told.
PostWriteTask(v) ==
  IF accepting
    THEN /\ queue' = Append(queue, [version |-> v, reply |-> callback])
         /\ UNCHANGED threadVars
    ELSE /\ pc' = [pc EXCEPT !["owner"] = "create"]
         /\ job' = [job EXCEPT !["owner"] = [version |-> v, reply |-> FALSE]]
         /\ UNCHANGED <<queue, tmp>>

WriteNow ==
  /\ OwnerIsFree /\ latest < MaxVersions
  /\ latest' = latest + 1
  /\ StopsTimer
  /\ PostWriteTask(latest')
  /\ UNCHANGED <<writerVars, accepting, replies, fileVars, lost>>

ScheduleWrite ==
  /\ OwnerIsFree /\ latest < MaxVersions
  /\ latest' = latest + 1
  /\ serializer' = latest'
  /\ IF HasPendingWrite THEN UNCHANGED timerVars ELSE Reset(Interval)
  /\ UNCHANGED <<callback, exists, runnerVars, threadVars, fileVars, lost>>

\* The mutant of SerializedData: serializer_ is cleared before it is used.
SerializedTooLate == serializer'

\* What SerializeData yields.
SerializedData == serializer

\* DoScheduledWrite, called by the owner to commit a pending write before its time.
\* If SerializeData fails the timer keeps running.
CommitPendingWrite ==
  /\ OwnerIsFree /\ HasPendingWrite /\ serializer # Null
  /\ serializer' = Null
  /\ \/ StopsTimer /\ PostWriteTask(SerializedData) /\ UNCHANGED lost
     \/ UNCHANGED <<timerVars, queue, threadVars>> /\ Lose(SerializedData)
  /\ UNCHANGED <<callback, exists, accepting, replies, fileVars, latest>>

\* The same, called by the timer, which is stopped by then.
DoScheduledWrite ==
  /\ OwnerIsFree /\ Fires /\ serializer # Null
  /\ is_running' = FALSE /\ scheduled_task' = FALSE
  /\ serializer' = Null
  /\ \/ PostWriteTask(SerializedData) /\ UNCHANGED lost
     \/ UNCHANGED <<queue, threadVars>> /\ Lose(SerializedData)
  /\ UNCHANGED <<scheduled_run_time, desired_run_time, callback, exists, accepting, replies,
                 fileVars, latest>>

RunScheduledTaskEarly ==
  /\ OwnerIsFree
  /\ RunTooEarly
  /\ UNCHANGED <<writerVars, runnerVars, threadVars, fileVars, latest, lost>>

RegisterOnNextSuccessfulWriteCallback ==
  /\ OwnerIsFree /\ ~callback
  /\ callback' = TRUE
  /\ UNCHANGED <<timerVars, serializer, exists, runnerVars, threadVars, fileVars, latest, lost>>

\* RunReplyAndSelfDestruct and ForwardSuccessfulWrite, whose weak pointer is null
\* once the writer is destroyed.
RunReply ==
  /\ pc["owner"] = "idle" /\ replies # <<>>
  /\ replies' = Tail(replies)
  /\ callback' = (callback /\ ~(exists /\ Head(replies).result))
  /\ UNCHANGED <<timerVars, serializer, exists, accepting, queue, threadVars, fileVars, latest, lost>>

\* ~ImportantFileWriter with no write pending, and ~Timer, which abandons its task.
Destroy ==
  /\ OwnerIsFree /\ ~HasPendingWrite
  /\ exists' = FALSE
  /\ scheduled_task' = FALSE
  /\ UNCHANGED <<is_running, scheduled_run_time, desired_run_time, serializer, callback, runnerVars,
                 threadVars, fileVars, latest, lost>>

Tick ==
  /\ scheduled_run_time > 0 \/ desired_run_time > 0
  /\ TimePasses
  /\ UNCHANGED <<writerVars, runnerVars, threadVars, fileVars, latest, lost>>

------------------------------------------------------------------------------
(* The task runner and WriteFileAtomically *)

\* The runner is shut down.  One that closes only when it has nothing left to do is
\* a thread whose loop has ended; one that closes busy is a pool in Shutdown.
Close ==
  /\ accepting
  /\ ClosesBusy \/ (queue = <<>> /\ pc["file"] = "idle")
  /\ accepting' = FALSE
  /\ UNCHANGED <<timerVars, writerVars, queue, replies, threadVars, fileVars, latest, lost>>

\* The file thread takes the next task: PostTaskAndReplyRelay::Run, or the write alone.
TakeTask ==
  /\ pc["file"] = "idle" /\ queue # <<>>
  /\ queue' = Tail(queue)
  /\ job' = [job EXCEPT !["file"] = Head(queue)]
  /\ pc' = [pc EXCEPT !["file"] = "create"]
  /\ UNCHANGED <<timerVars, writerVars, accepting, replies, tmp, fileVars, latest, lost>>

At(a, where) == pc[a] = where
Goes(a, where) == pc' = [pc EXCEPT ![a] = where]

\* WriteFileAtomically returns; the relay posts the reply with the result.
Returns(a, result) ==
  /\ Goes(a, "idle")
  /\ job' = [job EXCEPT ![a] = NoJob]
  /\ replies' = IF job[a].reply THEN Append(replies, [version |-> job[a].version, result |-> result])
                                ELSE replies
  /\ IF result THEN UNCHANGED lost ELSE Lose(job[a].version)

\* CreateTemporaryFileInDir
Create(a) ==
  /\ At(a, "create")
  /\ tmp' = [tmp EXCEPT ![a] = NoFile]
  /\ \/ Goes(a, "open") /\ UNCHANGED <<job, replies, lost>>
     \/ Returns(a, FALSE)
  /\ UNCHANGED <<timerVars, writerVars, accepting, queue, fileVars, latest>>

\* A temporary file that cannot be opened is left behind.
Open(a) ==
  /\ At(a, "open")
  /\ \/ Goes(a, "write") /\ UNCHANGED <<job, replies, lost>>
     \/ Returns(a, FALSE)
  /\ UNCHANGED <<timerVars, writerVars, accepting, queue, tmp, fileVars, latest>>

\* All of the data, or less.
Write(a) ==
  /\ At(a, "write")
  /\ \E written \in {job[a].version, Partial} : tmp' = [tmp EXCEPT ![a].data = written]
  /\ Goes(a, "flush")
  /\ UNCHANGED <<timerVars, writerVars, runnerVars, job, fileVars, latest, lost>>

\* The mutant of MayRename: the result of the flush is ignored.
RenamesUnflushed(a, flushed) == tmp[a].data = job[a].version

\* bytes_written == data_length and flush_success
MayRename(a, flushed) == tmp[a].data = job[a].version /\ flushed

\* Flush, Close, and the two checks; a file that fails one is deleted.
Flush(a) ==
  /\ At(a, "flush")
  /\ \E flushed \in BOOLEAN :
       IF MayRename(a, flushed)
         THEN /\ tmp' = [tmp EXCEPT ![a].disk = IF flushed THEN tmp[a].data ELSE @]
              /\ Goes(a, "rename")
              /\ UNCHANGED <<job, replies, lost>>
         ELSE tmp' = [tmp EXCEPT ![a] = NoFile] /\ Returns(a, FALSE)
  /\ UNCHANGED <<timerVars, writerVars, accepting, queue, fileVars, latest>>

\* ReplaceFile, atomic for those who look at the file; on failure the temporary file
\* is deleted.
Rename(a) ==
  /\ At(a, "rename")
  /\ tmp' = [tmp EXCEPT ![a] = NoFile]
  /\ \/ target' = tmp[a] /\ Returns(a, TRUE)
     \/ Returns(a, FALSE) /\ UNCHANGED target
  /\ UNCHANGED <<timerVars, writerVars, accepting, queue, disk, latest>>

WriteFileAtomically(a) == Create(a) \/ Open(a) \/ Write(a) \/ Flush(a) \/ Rename(a)

------------------------------------------------------------------------------
(* The kernel and the crashes *)

\* The kernel writes the contents of a temporary file to the disk of its own accord.
WriteBack(a) ==
  /\ tmp[a].disk # tmp[a].data
  /\ tmp' = [tmp EXCEPT ![a].disk = tmp[a].data]
  /\ UNCHANGED <<timerVars, writerVars, runnerVars, pc, job, fileVars, latest, lost>>

\* The rename reaches the disk, whatever of the contents is there.
CommitName ==
  /\ disk # target.disk
  /\ disk' = target.disk
  /\ UNCHANGED <<timerVars, writerVars, runnerVars, threadVars, target, latest, lost>>

\* The process ends and is started again.
Restart ==
  /\ is_running' = FALSE /\ scheduled_task' = FALSE
  /\ scheduled_run_time' = 0 /\ desired_run_time' = 0
  /\ serializer' = Null /\ callback' = FALSE /\ exists' = TRUE
  /\ accepting' = TRUE /\ queue' = <<>> /\ replies' = <<>>
  /\ pc' = [a \in Actors |-> "idle"]
  /\ job' = [a \in Actors |-> NoJob]
  /\ tmp' = [a \in Actors |-> NoFile]
  /\ lost' = latest
  /\ UNCHANGED latest

\* It is killed at any moment, and the file system goes on.
Crash == Restart /\ UNCHANGED fileVars

\* The timer, or the owner that sees a pending write, calls DoScheduledWrite with no
\* serializer: DCHECK(serializer_), or a call through a null pointer.
NullSerializerCrash ==
  /\ OwnerIsFree /\ serializer = Null /\ (Fires \/ HasPendingWrite)
  /\ Restart /\ UNCHANGED fileVars

\* The machine loses its power: what was only cached is gone.
PowerLoss ==
  /\ Restart
  /\ target' = [data |-> disk, disk |-> disk]
  /\ UNCHANGED disk

------------------------------------------------------------------------------

Next ==
  \/ WriteNow \/ ScheduleWrite \/ CommitPendingWrite \/ RegisterOnNextSuccessfulWriteCallback
  \/ DoScheduledWrite \/ RunScheduledTaskEarly \/ RunReply \/ Destroy \/ Tick
  \/ Close \/ TakeTask
  \/ \E a \in Actors : WriteFileAtomically(a) \/ WriteBack(a)
  \/ CommitName \/ Crash \/ NullSerializerCrash \/ PowerLoss

Spec == Init /\ [][Next]_vars

\* Time passes, and both threads go on with what they have begun or been given.
\* Nothing is assumed of the requests, the crashes or the kernel's write-back.
Fairness ==
  /\ WF_vars(Tick)
  /\ WF_vars(DoScheduledWrite \/ RunScheduledTaskEarly)
  /\ WF_vars(TakeTask)
  /\ \A a \in Actors : WF_vars(WriteFileAtomically(a))

FairSpec == Spec /\ Fairness

------------------------------------------------------------------------------
(* Properties *)

\* A crash or a power loss at any moment finds a complete version at path_ ("Helper to
\* ensure that a file won't be corrupted by the write"), and the owner is told of a
\* success only once the file holds that version or a newer one.
FileIsSafe ==
  /\ target.data \in Versions /\ disk \in Versions
  /\ \A i \in 1..Len(replies) : replies[i].result => target.data >= replies[i].version

\* The file never returns to an older version, but to the one on the disk when the
\* power is lost; and that one never gets older either.
NeverGoesBack ==
  [][disk' >= disk /\ (target'.data >= target.data \/ target'.data = disk)]_vars

\* Every request ends in a file that holds its version or a newer one, unless saving
\* one that is as new has failed or the process has crashed.
EveryRequestSettles ==
  \A v \in 1..MaxVersions : (v <= latest) ~> (target.data >= v \/ lost >= v)

\* DoScheduledWrite, which the timer and an owner that sees a pending write call, finds
\* a serializer: DCHECK(serializer_).
SerializerIsSet == HasPendingWrite => serializer # Null
==============================================================================
