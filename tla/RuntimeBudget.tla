--------------------------- MODULE RuntimeBudget ---------------------------
(***************************************************************************)
(* RuntimeBudget and the structured threads that share it.  The root        *)
(* interpreter and every spawned thread charge the same counters: a charge  *)
(* is one atomic update, the two memory meters are guarded by memory_gate.  *)
(* A refused charge is a runtime fault: the frames unwind, which drops what *)
(* the worker owns and joins the threads whose handles it holds.            *)
(***************************************************************************)
EXTENDS Naturals, FiniteSets

CONSTANTS Worker,      \* interpreters: the root one and those of the threads
          Root,        \* the interpreter that runs main
          NoWorker,
          MaxThreads, MaxHandles, MaxMemory,   \* RuntimeLimits
          ObjectSize         \* sizes of Memory blocks and of retained object graphs

ASSUME BudgetAssumption ==
    /\ IsFiniteSet(Worker) /\ Root \in Worker /\ NoWorker \notin Worker
    /\ MaxThreads \in Nat /\ MaxHandles \in Nat /\ MaxMemory \in Nat
    /\ ObjectSize \subseteq Nat \ {0}

VARIABLES live_threads, live_handles, live_memory, live_object, \* the counters
          st,         \* where each worker is
          parent,     \* who owns the Thread handle of a worker
          handles,    \* permits inside the values a worker owns
          block_bytes,     \* bytes of the Memory blocks a worker owns
          pending,    \* bytes charged for a block not yet allocated
          accounted,  \* accounted_object_bytes of each interpreter
          failed      \* the thread ended with a diagnostic

counters == <<live_threads, live_handles, live_memory, live_object>>
budget_vars == <<counters, st, parent, handles, block_bytes, pending, accounted, failed>>

(* "spawn": charged for a thread, the system call is out; "alloc": charged  *)
(* for a block; "fault": unwinding; "returned": the body is over, the       *)
(* thread still holds its permit; "done": the result waits for join.        *)
State == {"absent", "run", "spawn", "alloc", "fault", "returned", "done"}
Bytes == 0 .. MaxMemory

BudgetTypeOK ==
    /\ live_threads \in 0 .. MaxThreads
    /\ live_handles \in 0 .. MaxHandles
    /\ live_memory \in Bytes /\ live_object \in Bytes
    /\ st \in [Worker -> State]
    /\ parent \in [Worker -> Worker \union {NoWorker}]
    /\ handles \in [Worker -> 0 .. MaxHandles]
    /\ block_bytes \in [Worker -> Bytes] /\ pending \in [Worker -> Bytes]
    /\ accounted \in [Worker -> Bytes]
    /\ failed \in [Worker -> BOOLEAN]

(* The permits or bytes that f counts for each worker, told apart.          *)
Units(f) == UNION {{w} \X (1 .. f[w]) : w \in Worker}
Total(f) == Cardinality(Units(f))
Nothing == [w \in Worker |-> 0]
Kids(w) == {c \in Worker : parent[c] = w}

BudgetInit ==
    /\ live_threads = 0 /\ live_handles = 0 /\ live_memory = 0 /\ live_object = 0
    /\ st = [w \in Worker |-> "absent"]
    /\ parent = [w \in Worker |-> NoWorker]
    /\ handles = Nothing /\ block_bytes = Nothing /\ pending = Nothing
    /\ accounted = Nothing
    /\ failed = [w \in Worker |-> FALSE]

-----------------------------------------------------------------------------

Goto(w, s) == st' = [st EXCEPT ![w] = s]

(* run_inner: the scopes are cleared, then every counter is stored zero.    *)
StartRun ==
    /\ st[Root] \in {"absent", "done"}
    /\ Goto(Root, "run")
    /\ live_threads' = 0 /\ live_handles' = 0 /\ live_memory' = 0 /\ live_object' = 0
    /\ accounted' = [accounted EXCEPT ![Root] = 0]
    /\ failed' = [failed EXCEPT ![Root] = FALSE]
    /\ UNCHANGED <<parent, handles, block_bytes, pending>>

AcquireHandle(w) ==
    /\ st[w] = "run"
    /\ IF live_handles + 1 <= MaxHandles
       THEN /\ live_handles' = live_handles + 1
            /\ handles' = [handles EXCEPT ![w] = @ + 1]
            /\ UNCHANGED st
       ELSE Goto(w, "fault") /\ UNCHANGED <<live_handles, handles>>
    /\ UNCHANGED <<live_threads, live_memory, live_object, parent, block_bytes, pending,
                   accounted, failed>>

(* Any other runtime error of the program.                                  *)
RuntimeError(w) ==
    /\ st[w] = "run"
    /\ Goto(w, "fault")
    /\ UNCHANGED <<counters, parent, handles, block_bytes, pending, accounted, failed>>

(* close() of a channel, socket or database, or the end of the value.       *)
DropHandle(w) ==
    /\ st[w] \in {"run", "fault"}
    /\ handles[w] > 0
    /\ live_handles' = live_handles - 1
    /\ handles' = [handles EXCEPT ![w] = @ - 1]
    /\ UNCHANGED <<live_threads, live_memory, live_object, st, parent, block_bytes, pending,
                   accounted, failed>>

ChargeMemory(w, n) ==
    /\ st[w] = "run"
    /\ IF live_memory + live_object + n <= MaxMemory
       THEN /\ live_memory' = live_memory + n
            /\ pending' = [pending EXCEPT ![w] = n]
            /\ Goto(w, "alloc")
       ELSE Goto(w, "fault") /\ UNCHANGED <<live_memory, pending>>
    /\ UNCHANGED <<live_threads, live_handles, live_object, parent, handles, block_bytes,
                   accounted, failed>>

Allocated(w) ==
    /\ st[w] = "alloc"
    /\ block_bytes' = [block_bytes EXCEPT ![w] = @ + pending[w]]
    /\ pending' = [pending EXCEPT ![w] = 0]
    /\ Goto(w, "run")
    /\ UNCHANGED <<counters, parent, handles, accounted, failed>>

(* The allocator refuses: the charge is taken back, the program gets Err.   *)
AllocationFailed(w) ==
    /\ st[w] = "alloc"
    /\ live_memory' = live_memory - pending[w]
    /\ pending' = [pending EXCEPT ![w] = 0]
    /\ Goto(w, "run")
    /\ UNCHANGED <<live_threads, live_handles, live_object, parent, handles, block_bytes,
                   accounted, failed>>

Free(w, n) ==
    /\ st[w] \in {"run", "fault"}
    /\ n <= block_bytes[w]
    /\ live_memory' = live_memory - n
    /\ block_bytes' = [block_bytes EXCEPT ![w] = @ - n]
    /\ UNCHANGED <<live_threads, live_handles, live_object, st, parent, handles, pending,
                   accounted, failed>>

(* After every statement and frame the retained graph is measured anew.     *)
Reconcile(w, n) ==
    /\ st[w] = "run"
    /\ n # accounted[w]
    /\ IF n > accounted[w] /\ live_memory + live_object + (n - accounted[w]) > MaxMemory
       THEN Goto(w, "fault") /\ UNCHANGED <<live_object, accounted>>
       ELSE /\ live_object' = (live_object + n) - accounted[w]
            /\ accounted' = [accounted EXCEPT ![w] = n]
            /\ UNCHANGED st
    /\ UNCHANGED <<live_threads, live_handles, live_memory, parent, handles, block_bytes,
                   pending, failed>>

(* spawn_task: the thread is charged and its permit made, then the system   *)
(* starts it with the moved arguments, or refuses and the permit is dropped.*)
ChargeThread(w) ==
    /\ st[w] = "run"
    /\ IF live_threads + 1 <= MaxThreads
       THEN live_threads' = live_threads + 1 /\ Goto(w, "spawn")
       ELSE Goto(w, "fault") /\ UNCHANGED live_threads
    /\ UNCHANGED <<live_handles, live_memory, live_object, parent, handles, block_bytes,
                   pending, accounted, failed>>

Started(w, c) ==
    /\ st[w] = "spawn" /\ c # Root /\ st[c] = "absent"
    /\ st' = [st EXCEPT ![w] = "run", ![c] = "run"]
    /\ parent' = [parent EXCEPT ![c] = w]
    /\ failed' = [failed EXCEPT ![c] = FALSE]
    /\ \E h \in 0 .. handles[w], m \in 0 .. block_bytes[w] :
          /\ handles' = [handles EXCEPT ![w] = @ - h, ![c] = h]
          /\ block_bytes' = [block_bytes EXCEPT ![w] = @ - m, ![c] = m]
    /\ UNCHANGED <<counters, pending, accounted>>

SpawnFailed(w) ==
    /\ st[w] = "spawn"
    /\ live_threads' = live_threads - 1
    /\ Goto(w, "fault")
    /\ UNCHANGED <<live_handles, live_memory, live_object, parent, handles, block_bytes,
                   pending, accounted, failed>>

(* The body is over: its scopes are popped and reconciled.  A fault has     *)
(* dropped every value and joined every thread; a result may carry both.    *)
Return(w) ==
    /\ w # Root
    /\ \/ st[w] = "run"
       \/ st[w] = "fault" /\ handles[w] = 0 /\ block_bytes[w] = 0 /\ Kids(w) = {}
    /\ live_object' = live_object - accounted[w]
    /\ accounted' = [accounted EXCEPT ![w] = 0]
    /\ failed' = [failed EXCEPT ![w] = st[w] = "fault"]
    /\ Goto(w, "returned")
    /\ UNCHANGED <<live_threads, live_handles, live_memory, parent, handles, block_bytes, pending>>

(* The closure of the thread ends and drops its permit.                     *)
Exit(w) ==
    /\ st[w] = "returned"
    /\ live_threads' = live_threads - 1
    /\ Goto(w, "done")
    /\ UNCHANGED <<live_handles, live_memory, live_object, parent, handles, block_bytes,
                   pending, accounted, failed>>

(* join: the result and the threads inside it move to the joiner, and a     *)
(* diagnostic of the thread becomes a fault of the joiner.                  *)
Join(w, c) ==
    /\ st[w] = "run" /\ parent[c] = w /\ st[c] = "done"
    /\ st' = [st EXCEPT ![c] = "absent", ![w] = IF failed[c] THEN "fault" ELSE "run"]
    /\ parent' = [x \in Worker |->
                    IF x = c THEN NoWorker ELSE IF parent[x] = c THEN w ELSE parent[x]]
    /\ handles' = [handles EXCEPT ![w] = @ + handles[c], ![c] = 0]
    /\ block_bytes' = [block_bytes EXCEPT ![w] = @ + block_bytes[c], ![c] = 0]
    /\ UNCHANGED <<counters, pending, accounted, failed>>

(* A fault: dropping a handle detaches the thread.                          *)
DropThreadDetached(w, c) ==
    /\ st[w] \in {"run", "fault"} /\ parent[c] = w
    /\ parent' = [parent EXCEPT ![c] = NoWorker]
    /\ UNCHANGED <<counters, st, handles, block_bytes, pending, accounted, failed>>

(* ThreadState::drop: the thread is joined and its result destroyed, with   *)
(* the threads inside the result next.                                      *)
DropThread(w, c) ==
    /\ st[w] \in {"run", "fault"} /\ parent[c] = w /\ st[c] = "done"
    /\ Goto(c, "absent")
    /\ parent' = [x \in Worker |->
                    IF x = c THEN NoWorker ELSE IF parent[x] = c THEN w ELSE parent[x]]
    /\ live_handles' = live_handles - handles[c]
    /\ live_memory' = live_memory - block_bytes[c]
    /\ handles' = [handles EXCEPT ![c] = 0]
    /\ block_bytes' = [block_bytes EXCEPT ![c] = 0]
    /\ UNCHANGED <<live_threads, live_object, pending, accounted, failed>>

(* main returns or its fault has unwound: all scopes are gone.              *)
EndRun ==
    /\ st[Root] \in {"run", "fault"}
    /\ handles[Root] = 0 /\ block_bytes[Root] = 0 /\ Kids(Root) = {}
    /\ live_object' = live_object - accounted[Root]
    /\ accounted' = [accounted EXCEPT ![Root] = 0]
    /\ Goto(Root, "done")
    /\ UNCHANGED <<live_threads, live_handles, live_memory, parent, handles, block_bytes,
                   pending, failed>>

BudgetNext ==
    \/ StartRun
    \/ EndRun
    \/ \E w \in Worker :
        \/ RuntimeError(w)
        \/ AcquireHandle(w)
        \/ DropHandle(w)
        \/ \E n \in ObjectSize : ChargeMemory(w, n)
        \/ Allocated(w)
        \/ AllocationFailed(w)
        \/ \E n \in ObjectSize : Free(w, n)
        \/ \E n \in ObjectSize \union {0} : Reconcile(w, n)
        \/ ChargeThread(w)
        \/ \E c \in Worker : Started(w, c)
        \/ SpawnFailed(w)
        \/ Return(w)
        \/ Exit(w)
        \/ \E c \in Worker : Join(w, c)
        \/ \E c \in Worker : DropThread(w, c)

BudgetSpec == BudgetInit /\ [][BudgetNext]_budget_vars

-----------------------------------------------------------------------------

(* Every counter is exactly what its permits add up to, whichever worker    *)
(* holds them and wherever a thread or an allocation is in its life: each   *)
(* permit is charged once and released once, and no counter can wrap below  *)
(* zero.                                                                    *)
CountersExact ==
    /\ live_threads = Cardinality({w \in Worker : st[w] = "spawn"})
                      + Cardinality({w \in Worker \ {Root} :
                            st[w] \in {"run", "spawn", "alloc", "fault", "returned"}})
    /\ live_handles = Total(handles)
    /\ live_memory = Total(block_bytes) + Total(pending)
    /\ live_object = Total(accounted)

(* Explicit blocks and retained objects share one ceiling.                  *)
MemoryCeiling == live_memory + live_object <= MaxMemory

(* A run that is over leaves nothing behind: no thread, no permit, and no   *)
(* byte survives it, so storing zero in the counters at the next run is     *)
(* right.                                                                   *)
NothingOutlivesRun ==
    st[Root] \in {"absent", "done"} =>
        /\ \A w \in Worker \ {Root} : st[w] = "absent"
        /\ live_threads = 0 /\ live_handles = 0 /\ live_memory = 0 /\ live_object = 0

(* The budget holds through every life of a thread, a block and a run.      *)
BudgetExact == CountersExact /\ MemoryCeiling /\ NothingOutlivesRun
=============================================================================
