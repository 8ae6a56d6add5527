---------------------------- MODULE RuntimeMutex ----------------------------
(***************************************************************************)
(* RuntimeMutex: the recursive Mutex<T> of the interpreter.  A gate (owner  *)
(* and depth) under a std mutex decides who may hold guards; a thread that  *)
(* finds another owner sleeps on the condition variable `available`.  The   *)
(* protected value has its own std mutex, so reading and writing through a  *)
(* guard are single steps.                                                  *)
(***************************************************************************)
EXTENDS Naturals, FiniteSets

CONSTANTS MutexThread,      \* the threads sharing the mutex
          NoThread,    \* no owner
          MaxLockDepth,  \* the largest recursion depth usize can hold
          MaxCalls     \* bound: calls of lock that may be made

ASSUME MutexAssumption ==
    /\ IsFiniteSet(MutexThread)
    /\ NoThread \notin MutexThread
    /\ MaxLockDepth \in Nat \ {0}
    /\ MaxCalls \in Nat

VARIABLES owner,   \* gate.owner
          depth,   \* gate.depth
          value,   \* the protected value, a counter
          lock_pc,      \* "run", asleep on `available`, or woken
          guards,  \* how many guards each thread owns
          local,   \* what a thread read under its guards: one value or none
          writes,  \* history: increments written
          calls    \* bound: calls of lock made so far

mutex_vars == <<owner, depth, value, lock_pc, guards, local, writes, calls>>

MutexTypeOK ==
    /\ owner \in MutexThread \union {NoThread}
    /\ depth \in 0 .. MaxLockDepth
    /\ value \in Nat
    /\ lock_pc \in [MutexThread -> {"run", "wait", "woken"}]
    /\ guards \in [MutexThread -> 0 .. MaxLockDepth]
    /\ local \in [MutexThread -> SUBSET Nat]
    /\ writes \in Nat
    /\ calls \in 0 .. MaxCalls

MutexInit ==
    /\ owner = NoThread
    /\ depth = 0
    /\ value = 0
    /\ lock_pc = [t \in MutexThread |-> "run"]
    /\ guards = [t \in MutexThread |-> 0]
    /\ local = [t \in MutexThread |-> {}]
    /\ writes = 0
    /\ calls = 0

-----------------------------------------------------------------------------

(* A fault: the recursion depth is not checked.                             *)
LockBodyUnchecked(t) ==
    /\ owner \in {NoThread, t}
    /\ lock_pc' = [lock_pc EXCEPT ![t] = "run"]
    /\ owner' = t
    /\ depth' = depth + 1
    /\ guards' = [guards EXCEPT ![t] = @ + 1]
    /\ UNCHANGED <<value, local, writes>>

(* The body of lock from the test of its loop: wait, overflow, or a guard.  *)
LockBody(t) ==
    /\ \/ /\ owner \notin {NoThread, t}
          /\ lock_pc' = [lock_pc EXCEPT ![t] = "wait"]
          /\ UNCHANGED <<owner, depth, guards>>
       \/ /\ owner \in {NoThread, t}
          /\ lock_pc' = [lock_pc EXCEPT ![t] = "run"]
          /\ owner' = t
          /\ IF depth = MaxLockDepth THEN UNCHANGED <<depth, guards>>
             ELSE /\ depth' = depth + 1
                  /\ guards' = [guards EXCEPT ![t] = @ + 1]
    /\ UNCHANGED <<value, local, writes>>

Lock(t) ==
    /\ lock_pc[t] = "run"
    /\ calls < MaxCalls
    /\ calls' = calls + 1
    /\ LockBody(t)

LockResumes(t) ==
    /\ lock_pc[t] = "woken"
    /\ LockBody(t)
    /\ UNCHANGED calls

LockSpurious(t) ==
    /\ lock_pc[t] = "wait"
    /\ lock_pc' = [lock_pc EXCEPT ![t] = "woken"]
    /\ UNCHANGED <<owner, depth, value, guards, local, writes, calls>>

LockNotify(p) ==
    LET sleeping == {t \in MutexThread : p[t] = "wait"}
    IN  IF sleeping = {} THEN {p}
        ELSE {[p EXCEPT ![t] = "woken"] : t \in sleeping}

(* A fault: every guard frees the mutex, whatever the depth.                *)
UnlockFreeing(t) ==
    /\ lock_pc[t] = "run"
    /\ guards[t] > 0
    /\ guards' = [guards EXCEPT ![t] = @ - 1]
    /\ depth' = 0
    /\ owner' = NoThread
    /\ lock_pc' \in LockNotify(lock_pc)
    /\ UNCHANGED <<value, local, writes, calls>>

(* A fault: the last guard frees the mutex and tells nobody.                *)
UnlockSilent(t) ==
    /\ lock_pc[t] = "run"
    /\ guards[t] > 0
    /\ guards' = [guards EXCEPT ![t] = @ - 1]
    /\ depth' = depth - 1
    /\ owner' = IF depth' = 0 THEN NoThread ELSE owner
    /\ local' = IF depth' = 0 THEN [local EXCEPT ![t] = {}] ELSE local
    /\ UNCHANGED <<value, lock_pc, writes, calls>>

(* The end of a guard (RuntimeMutexGuardState::drop).                       *)
Unlock(t) ==
    /\ lock_pc[t] = "run"
    /\ guards[t] > 0
    /\ guards' = [guards EXCEPT ![t] = @ - 1]
    /\ depth' = depth - 1
    /\ IF depth' = 0
       THEN /\ owner' = NoThread
            /\ lock_pc' \in LockNotify(lock_pc)
            /\ local' = [local EXCEPT ![t] = {}]
       ELSE UNCHANGED <<owner, lock_pc, local>>
    /\ UNCHANGED <<value, writes, calls>>

Read(t) ==
    /\ lock_pc[t] = "run"
    /\ guards[t] > 0
    /\ local' = [local EXCEPT ![t] = {value}]
    /\ UNCHANGED <<owner, depth, value, lock_pc, guards, writes, calls>>

(* The program writes back what it read under the same guard, plus one.     *)
Write(t) ==
    /\ lock_pc[t] = "run"
    /\ guards[t] > 0
    /\ writes < MaxCalls
    /\ \E seen \in local[t] : value' = seen + 1
    /\ local' = [local EXCEPT ![t] = {}]
    /\ writes' = writes + 1
    /\ UNCHANGED <<owner, depth, lock_pc, guards, calls>>

MutexNext ==
    \E t \in MutexThread :
        \/ Lock(t)
        \/ LockResumes(t)
        \/ LockSpurious(t)
        \/ Unlock(t)
        \/ Read(t)
        \/ Write(t)

MutexSpec == MutexInit /\ [][MutexNext]_mutex_vars

(* A woken thread is scheduled, and a thread that owns guards reaches the   *)
(* end of their scopes: guards are linear and unlock on every cleanup path. *)
FairMutexSpec == MutexSpec /\ \A t \in MutexThread : WF_mutex_vars(LockResumes(t)) /\ WF_mutex_vars(Unlock(t))

-----------------------------------------------------------------------------

(* Only the owner has guards, as many as the depth says: the mutex passes   *)
(* to another thread only after the last guard of the owner is gone.        *)
Exclusion ==
    \A t \in MutexThread : guards[t] = (IF owner = t THEN depth ELSE 0)

(* What a thread read under its guard is still the value when it writes:    *)
(* no increment made under the mutex is lost.                               *)
NoLostUpdate ==
    /\ value = writes
    /\ \A t \in MutexThread : local[t] \subseteq {value}

(* No notification is lost: a thread sleeps only while another one owns the *)
(* mutex or has been woken to take it.                                      *)
SleepersCovered ==
    (\E t \in MutexThread : lock_pc[t] = "wait") =>
        owner # NoThread \/ \E t \in MutexThread : lock_pc[t] = "woken"

(* The three together: a mutex that excludes, loses no update and no wakeup. *)
MutexSound == Exclusion /\ NoLostUpdate /\ SleepersCovered

(* A call of lock returns, however the threads race for the mutex, as long  *)
(* as no unbounded stream of other calls overtakes it.                      *)
CallReturns(t) == lock_pc[t] # "run" ~> lock_pc[t] = "run"

=============================================================================
