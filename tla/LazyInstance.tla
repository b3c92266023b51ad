---------------------------- MODULE LazyInstance ----------------------------
(***************************************************************************)
(* base::LazyInstance (base/lazy_instance.h, base/lazy_instance.cc): an    *)
(* object that the first of several threads to need it creates, without a  *)
(* lock, and that AtExitManager (base/at_exit.cc) destroys.                *)
(*                                                                         *)
(* The module that extends this one gives every thread's use of the        *)
(* object, from Acquire_Load to Uses, and decides when the process exits.  *)
(***************************************************************************)
EXTENDS Naturals

CONSTANT Threads    \* the threads that use the object

VARIABLES
  private_instance, \* 0, kLazyInstanceStateCreating, or the address of the object
  access,           \* where each thread is in Pointer()
  constructed,      \* how often the object was constructed
  at_exit           \* AtExitManager's stack holds OnExit

lazyVars == <<private_instance, access, constructed, at_exit>>

Accesses == {"out", "needs", "spins", "creates", "completes", "registers", "has"}

LazyTypeOK ==
  /\ private_instance \in {"none", "creating", "created"}
  /\ access \in [Threads -> Accesses]
  /\ constructed \in Nat /\ at_exit \in BOOLEAN

LazyInit ==
  /\ private_instance = "none" /\ constructed = 0 /\ at_exit = FALSE
  /\ access = [t \in Threads |-> "out"]

GoesTo(t, where) == access' = [access EXCEPT ![t] = where]

\* Pointer(): the fast path, and the beginning of the slow one.
Pointer(t) ==
  /\ access[t] = "out"
  /\ GoesTo(t, IF private_instance = "created" THEN "has" ELSE "needs")
  /\ UNCHANGED <<private_instance, constructed, at_exit>>

\* The mutant of Claims: whoever finds the object missing creates it.
ClaimsUnlessCreated == private_instance # "created"

\* The compare-and-swap succeeds.
Claims == private_instance = "none"

NeedsLazyInstance(t) ==
  /\ access[t] = "needs"
  /\ IF Claims
       THEN private_instance' = "creating" /\ GoesTo(t, "creates")
       ELSE GoesTo(t, "spins") /\ UNCHANGED private_instance
  /\ UNCHANGED <<constructed, at_exit>>

\* The end of the spinning; until then the thread yields.
StopsSpinning(t) ==
  /\ access[t] = "spins" /\ private_instance # "creating"
  /\ GoesTo(t, "has")
  /\ UNCHANGED <<private_instance, constructed, at_exit>>

\* Traits::New
New(t) ==
  /\ access[t] = "creates"
  /\ constructed' = constructed + 1
  /\ GoesTo(t, "completes")
  /\ UNCHANGED <<private_instance, at_exit>>

\* CompleteLazyInstance: the address is published before OnExit is registered.
CompleteLazyInstance(t) ==
  /\ access[t] = "completes"
  /\ private_instance' = "created"
  /\ GoesTo(t, "registers")
  /\ UNCHANGED <<constructed, at_exit>>

RegisterCallback(t) ==
  /\ access[t] = "registers"
  /\ at_exit' = TRUE
  /\ GoesTo(t, "has")
  /\ UNCHANGED <<private_instance, constructed>>

\* The rest of Pointer().
LazyStep(t) ==
  \/ NeedsLazyInstance(t) \/ StopsSpinning(t)
  \/ New(t) \/ CompleteLazyInstance(t) \/ RegisterCallback(t)

\* The thread uses the object and is through with it.
Uses(t) ==
  /\ access[t] = "has"
  /\ GoesTo(t, "out")
  /\ UNCHANGED <<private_instance, constructed, at_exit>>

\* ProcessCallbacksNow finds OnExit, which destroys the object, on its stack.  No
\* thread may use the object then, as lazy_instance.h demands.
MayExit == at_exit /\ \A t \in Threads : access[t] = "out"

\* The end of OnExit, once the object is destroyed, and of ProcessCallbacksNow.
OnExit ==
  /\ at_exit' = FALSE
  /\ private_instance' = "none"
  /\ UNCHANGED <<access, constructed>>

\* The object is constructed once, whoever uses it finds it constructed, and once
\* nobody is about to it is sure to be destroyed at exit.
InstanceIsBuiltOnce ==
  /\ constructed <= 1
  /\ \A t \in Threads : access[t] = "has" => constructed = 1 /\ private_instance = "created"
  /\ private_instance = "created" /\ (\A t \in Threads : access[t] # "registers") => at_exit
==============================================================================
