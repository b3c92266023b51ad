---------------------------- MODULE EventContract ----------------------------
(***************************************************************************)
(* What base::WaitableEvent promises its callers, without locks, wait      *)
(* lists or condition variables.  A signal of an auto-reset event is one   *)
(* token: it releases exactly one blocked thread or stays available until  *)
(* one thread takes it.  A manual-reset event, once raised, stays raised.  *)
(* A thread blocked on several events is released by exactly one of them,  *)
(* and a thread that gives up has absorbed nothing.                        *)
(***************************************************************************)
CONSTANTS Threads,      \* the threads that use the events
          Events,       \* the events
          ManualReset,  \* the events constructed with manual_reset = true
          NoEvent       \* "no event": not a member of Events

VARIABLES avail,    \* the events that are signaled
          waiting,  \* waiting[t]: the events thread t is blocked on
          got       \* got[t]: the event that satisfied t's last wait

cvars == <<avail, waiting, got>>

Init == /\ avail \in SUBSET Events
        /\ waiting = [t \in Threads |-> {}]
        /\ got = [t \in Threads |-> NoEvent]

\* A signal of e releases the blocked thread t.
Release(e, t) == /\ e \notin avail
                 /\ e \in waiting[t]
                 /\ waiting' = [waiting EXCEPT ![t] = {}]
                 /\ got' = [got EXCEPT ![t] = e]
                 /\ UNCHANGED avail

\* A signal of e that finds nobody to release leaves e signaled.
Raise(e) == /\ \A t \in Threads : e \notin waiting[t]
            /\ avail' = avail \union {e}
            /\ UNCHANGED <<waiting, got>>

Lower(e) == avail' = avail \ {e} /\ UNCHANGED <<waiting, got>>

\* A wait that finds e signaled returns at once.
Take(t, e) == /\ waiting[t] = {}
              /\ e \in avail
              /\ avail' = IF e \in ManualReset THEN avail ELSE avail \ {e}
              /\ got' = [got EXCEPT ![t] = e]
              /\ UNCHANGED waiting

Block(t, S) == /\ waiting[t] = {}
               /\ S \intersect avail = {}
               /\ waiting' = [waiting EXCEPT ![t] = S]
               /\ got' = [got EXCEPT ![t] = NoEvent]
               /\ UNCHANGED avail

GiveUp(t) == waiting' = [waiting EXCEPT ![t] = {}] /\ UNCHANGED <<avail, got>>

Next == \/ \E e \in Events : Raise(e) \/ Lower(e)
        \/ \E e \in Events, t \in Threads : Release(e, t) \/ Take(t, e)
        \/ \E t \in Threads : GiveUp(t)
        \/ \E t \in Threads, S \in SUBSET Events : Block(t, S)

Spec == Init /\ [][Next]_cvars
==============================================================================
