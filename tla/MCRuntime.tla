----------------------------- MODULE MCRuntime -----------------------------
(***************************************************************************)
(* The parts of the runtime that threads and tasks meet in, for TLC.  Every *)
(* part has its own variables; a behaviour exercises the one that scenario  *)
(* names, and the others keep their first values.                           *)
(***************************************************************************)
EXTENDS Channel, RuntimeMutex, AtomicInt, RuntimeBudget, Tasks, ContainedExports

VARIABLE scenario

runtime == <<scenario, vars, mutex_vars, atomic_vars, budget_vars, tasks_vars, exports_vars>>

\* A word of three values, so that both ends are one add away.
Least == -1
Steps == {-1, 1}

\* A channel that no thread of the scenario uses.
OneChannel ==
    /\ capacity = 1 /\ closed = FALSE
    /\ holders = {CHOOSE t \in Thread : TRUE}
    /\ arg = [t \in Thread |-> CHOOSE v \in Value : TRUE]

RuntimeInit ==
    /\ scenario \in {"channel", "mutex", "atomic", "budget", "tasks", "exports"}
    /\ Init /\ MutexInit /\ AtomicInit /\ BudgetInit /\ TasksInit /\ ExportsInit
    /\ scenario # "channel" => OneChannel

Only(part) ==
    /\ scenario = part
    /\ UNCHANGED scenario
    /\ part # "channel" => UNCHANGED vars
    /\ part # "mutex" => UNCHANGED mutex_vars
    /\ part # "atomic" => UNCHANGED atomic_vars
    /\ part # "budget" => UNCHANGED budget_vars
    /\ part # "tasks" => UNCHANGED tasks_vars
    /\ part # "exports" => UNCHANGED exports_vars

RuntimeNext ==
    \/ Only("channel") /\ Next
    \/ Only("mutex") /\ MutexNext
    \/ Only("atomic") /\ AtomicNext
    \/ Only("budget") /\ BudgetNext
    \/ Only("tasks") /\ TasksNext
    \/ Only("exports") /\ ExportsNext

\* The fairness of FairSpec of the channel and of FairMutexSpec.
RuntimeSpec ==
    /\ RuntimeInit /\ [][RuntimeNext]_runtime
    /\ \A t \in Thread : WF_vars(Resume(t))
    /\ \A t \in MutexThread : WF_mutex_vars(LockResumes(t)) /\ WF_mutex_vars(Unlock(t))

-----------------------------------------------------------------------------
\* The part a behaviour exercises stays within its types: the channel within its
\* capacity, the mutex within its recursion limit, an atomic within its word, the
\* budget, the tasks and the exports within their limits.
TypesOK ==
    /\ scenario = "channel" => TypeOK
    /\ scenario = "mutex" => MutexTypeOK
    /\ scenario = "atomic" => AtomicTypeOK
    /\ scenario = "budget" => BudgetTypeOK
    /\ scenario = "tasks" => TasksTypeOK
    /\ scenario = "exports" => ExportsTypeOK

\* RuntimeMutex: every call of lock returns, however the threads race for the
\* mutex.  The threads are interchangeable, so one of them is followed.
LockReturns == CallReturns("t1")
=============================================================================
