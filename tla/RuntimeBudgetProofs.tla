------------------------ MODULE RuntimeBudgetProofs ------------------------
(***************************************************************************)
(* The budget is exact for any number of workers and any limits.           *)
(* BudgetExact is not inductive: that a run's end leaves nothing behind     *)
(* rests on the shape of the tree of threads (Shape), above all on its      *)
(* being a tree (Rooted), because EndRun looks at the children of the root  *)
(* alone.                                                                   *)
(***************************************************************************)
EXTENDS RuntimeBudget, FiniteSetTheorems, FunctionTheorems, TLAPS

(* What a worker's place says of what it owns, and of the thread tree.      *)
Shape ==
    /\ parent[Root] = NoWorker /\ st[Root] # "returned"
    /\ \A w \in Worker \ {Root} : st[w] = "absent" <=> parent[w] = NoWorker
    /\ \A w \in Worker : parent[w] # NoWorker => st[parent[w]] # "absent"

(* A charge is pending only while its allocation is out, and a worker that  *)
(* is over has given back its object bytes, and its values once joined.     *)
Settled ==
    \A w \in Worker :
       /\ st[w] # "alloc" => pending[w] = 0
       /\ st[w] \in {"absent", "returned", "done"} => accounted[w] = 0
       /\ (st[w] = "absent" \/ (w = Root /\ st[w] = "done"))
             => (handles[w] = 0 /\ block_bytes[w] = 0)

(* No set of workers owns itself: the handles form a tree.                  *)
Rooted == \A S \in SUBSET Worker : S # {} => \E c \in S : parent[c] \notin S

BudgetInv == BudgetTypeOK /\ BudgetExact /\ Shape /\ Settled /\ Rooted

-----------------------------------------------------------------------------

(* The permits counted for some workers are finitely many.                  *)
LEMMA UnitsFinite ==
    ASSUME NEW f \in [Worker -> Nat]
    PROVE  IsFiniteSet(Units(f)) /\ Total(f) \in Nat
<1> DEFINE Of == [w \in Worker |-> {w} \X (1 .. f[w])]
           All == {{w} \X (1 .. f[w]) : w \in Worker}
<1>1. Of \in Surjection(Worker, All)
  BY Zenon DEF Surjection
<1>2. IsFiniteSet(All)
  BY <1>1, FS_Surjection, BudgetAssumption
<1>3. ASSUME NEW T \in All PROVE IsFiniteSet(T)
  <2>1. PICK w \in Worker : T = {w} \X (1 .. f[w])
    OBVIOUS
  <2>2. f[w] \in Nat
    OBVIOUS
  <2>3. IsFiniteSet(1 .. f[w]) /\ IsFiniteSet({w})
    <3>1. IsFiniteSet(1 .. f[w])
      BY <2>2, FS_Interval
    <3> QED BY Zenon, <3>1, FS_Singleton
  <2> QED BY <2>1, <2>3, FS_Product
<1>4. IsFiniteSet(UNION All)
  BY Zenon, <1>2, <1>3, FS_UNION
<1> QED BY <1>4, FS_CardinalityType DEF Units, Total

(* One worker's share is part of the total, and setting it changes the      *)
(* total by as much.                                                        *)
LEMMA TotalUpdate ==
    ASSUME NEW f \in [Worker -> Nat], NEW w \in Worker, NEW n \in Nat
    PROVE  /\ Total(f) \in Nat /\ f[w] <= Total(f)
           /\ Total([f EXCEPT ![w] = n]) \in Nat
           /\ Total([f EXCEPT ![w] = n]) = (Total(f) - f[w]) + n
<1> DEFINE g == [f EXCEPT ![w] = n]
           Rest == {u \in Units(f) : u[1] # w}
<1>0. g \in [Worker -> Nat] /\ g[w] = n /\ f[w] \in Nat
  OBVIOUS
<1>1. IsFiniteSet(Units(f)) /\ IsFiniteSet(Units(g))
  BY Zenon, <1>0, UnitsFinite
<1>2. IsFiniteSet(Rest) /\ Cardinality(Rest) \in Nat
  BY <1>1, FS_Subset, FS_CardinalityType
<1>3. ASSUME NEW k \in Nat
      PROVE  LET Own == {w} \X (1 .. k) IN
             Rest \cap Own = {} /\ Cardinality(Rest \union Own) = Cardinality(Rest) + k
  <2> DEFINE Own == {w} \X (1 .. k)
  <2>1. IsFiniteSet(Own) /\ Cardinality(Own) = 1 * k
    <3>1. IsFiniteSet({w}) /\ Cardinality({w}) = 1
      BY Zenon, FS_Singleton
    <3>2. IsFiniteSet(1 .. k) /\ Cardinality(1 .. k) = k
      BY FS_Interval
    <3> QED BY <3>1, <3>2, FS_Product
  <2>2. Rest \cap Own = {}
    OBVIOUS
  <2>3. Cardinality(Rest \union Own) = Cardinality(Rest) + Cardinality(Own) - Cardinality({})
    BY <1>2, <2>1, <2>2, FS_Union
  <2> QED BY <1>2, <2>1, <2>2, <2>3, FS_EmptySet
<1>4. Units(f) = Rest \union ({w} \X (1 .. f[w]))
  BY DEF Units
<1>5. Units(g) = Rest \union ({w} \X (1 .. n))
  BY <1>0 DEF Units
<1>6. Total(f) = Cardinality(Rest) + f[w] /\ Total(g) = Cardinality(Rest) + n
  BY Zenon, <1>0, <1>3, <1>4, <1>5 DEF Total
<1> QED BY <1>0, <1>2, <1>6

(* No permits add up to nothing, and only they do.                          *)
LEMMA TotalZero ==
    ASSUME NEW f \in [Worker -> Nat]
    PROVE  Total(f) = 0 <=> \A w \in Worker : f[w] = 0
<1>1. ASSUME \A w \in Worker : f[w] = 0 PROVE Total(f) = 0
  <2>1. Units(f) = {}
    BY <1>1 DEF Units
  <2> QED BY <2>1, FS_EmptySet DEF Total
<1>2. ASSUME Total(f) = 0, NEW w \in Worker PROVE f[w] = 0
  BY <1>2, TotalUpdate
<1> QED BY <1>1, <1>2

-----------------------------------------------------------------------------

(* The threads that hold a permit of the budget in the states s.            *)
Spawning(s) == {w \in Worker : s[w] = "spawn"}
Unfinished(s) == {w \in Worker \ {Root} :
                    s[w] \in {"run", "spawn", "alloc", "fault", "returned"}}
Threads(s) == Cardinality(Spawning(s)) + Cardinality(Unfinished(s))

(* The permits that a worker in state x accounts for.                       *)
Permits(w, x) ==
    (IF x = "spawn" THEN 1 ELSE 0)
    + (IF w # Root /\ x \in {"run", "spawn", "alloc", "fault", "returned"} THEN 1 ELSE 0)

(* Two finite sets that agree but for one element.                          *)
LEMMA OneApart ==
    ASSUME NEW A, NEW B, NEW x, IsFiniteSet(A), IsFiniteSet(B), A \ {x} = B \ {x}
    PROVE  /\ Cardinality(A) \in Nat /\ Cardinality(B) \in Nat
           /\ Cardinality(B) = (Cardinality(A) - (IF x \in A THEN 1 ELSE 0))
                               + (IF x \in B THEN 1 ELSE 0)
           /\ (IF x \in A THEN 1 ELSE 0) <= Cardinality(A)
<1>1. /\ Cardinality(A \ {x}) = IF x \in A THEN Cardinality(A) - 1 ELSE Cardinality(A)
      /\ Cardinality(B \ {x}) = IF x \in B THEN Cardinality(B) - 1 ELSE Cardinality(B)
      /\ IsFiniteSet(A \ {x})
  BY FS_RemoveElement
<1>2. Cardinality(A) \in Nat /\ Cardinality(B) \in Nat /\ Cardinality(A \ {x}) \in Nat
  BY <1>1, FS_CardinalityType
<1> QED BY <1>1, <1>2

(* A worker that moves to another state gives or takes its own permits.     *)
LEMMA ThreadsUpdate ==
    ASSUME NEW s \in [Worker -> State], NEW w \in Worker, NEW x \in State
    PROVE  /\ Threads(s) \in Nat /\ Permits(w, s[w]) \in Nat /\ Permits(w, x) \in Nat
           /\ Permits(w, s[w]) <= Threads(s)
           /\ Threads([s EXCEPT ![w] = x]) = (Threads(s) - Permits(w, s[w])) + Permits(w, x)
<1> DEFINE r == [s EXCEPT ![w] = x]
<1>1. /\ IsFiniteSet(Spawning(s)) /\ IsFiniteSet(Spawning(r))
      /\ IsFiniteSet(Unfinished(s)) /\ IsFiniteSet(Unfinished(r))
  BY FS_Subset, BudgetAssumption DEF Spawning, Unfinished
<1>2. Spawning(s) \ {w} = Spawning(r) \ {w} /\ Unfinished(s) \ {w} = Unfinished(r) \ {w}
  BY DEF Spawning, Unfinished
<1>3. /\ w \in Spawning(s) <=> s[w] = "spawn"
      /\ w \in Spawning(r) <=> x = "spawn"
      /\ w \in Unfinished(s) <=>
            (w # Root /\ s[w] \in {"run", "spawn", "alloc", "fault", "returned"})
      /\ w \in Unfinished(r) <=>
            (w # Root /\ x \in {"run", "spawn", "alloc", "fault", "returned"})
  BY DEF Spawning, Unfinished
<1>4. /\ Cardinality(Spawning(s)) \in Nat
      /\ Cardinality(Spawning(r)) =
            (Cardinality(Spawning(s)) - (IF w \in Spawning(s) THEN 1 ELSE 0))
            + (IF w \in Spawning(r) THEN 1 ELSE 0)
      /\ (IF w \in Spawning(s) THEN 1 ELSE 0) <= Cardinality(Spawning(s))
  BY Zenon, <1>1, <1>2, OneApart
<1>5. /\ Cardinality(Unfinished(s)) \in Nat
      /\ Cardinality(Unfinished(r)) =
            (Cardinality(Unfinished(s)) - (IF w \in Unfinished(s) THEN 1 ELSE 0))
            + (IF w \in Unfinished(r) THEN 1 ELSE 0)
      /\ (IF w \in Unfinished(s) THEN 1 ELSE 0) <= Cardinality(Unfinished(s))
  BY ZenonT(30), <1>1, <1>2, OneApart
<1> QED BY <1>3, <1>4, <1>5 DEF Threads, Permits

-----------------------------------------------------------------------------

(* What the invariant says of one worker, with the ranges widened.          *)
LEMMA Facts ==
    ASSUME BudgetInv, NEW w \in Worker
    PROVE  /\ st \in [Worker -> State] /\ parent \in [Worker -> Worker \union {NoWorker}]
           /\ handles \in [Worker -> Nat] /\ block_bytes \in [Worker -> Nat]
           /\ pending \in [Worker -> Nat] /\ accounted \in [Worker -> Nat]
           /\ handles[w] \in Nat /\ block_bytes[w] \in Nat
           /\ pending[w] \in Nat /\ accounted[w] \in Nat
           /\ live_threads \in Nat /\ live_handles \in Nat
           /\ live_memory \in Nat /\ live_object \in Nat
           /\ MaxThreads \in Nat /\ MaxHandles \in Nat /\ MaxMemory \in Nat
           /\ Total(block_bytes) \in Nat /\ Total(pending) \in Nat
           /\ live_threads <= MaxThreads /\ live_threads = Threads(st)
           /\ live_handles <= MaxHandles /\ live_handles = Total(handles)
           /\ live_memory + live_object <= MaxMemory
           /\ live_memory = Total(block_bytes) + Total(pending)
           /\ live_object = Total(accounted)
           /\ handles[w] <= live_handles /\ block_bytes[w] <= Total(block_bytes)
           /\ pending[w] <= Total(pending) /\ accounted[w] <= live_object
           /\ failed \in [Worker -> BOOLEAN] /\ handles \in [Worker -> 0 .. MaxHandles]
           /\ block_bytes \in [Worker -> Bytes] /\ pending \in [Worker -> Bytes]
           /\ accounted \in [Worker -> Bytes]
<1>1. /\ st \in [Worker -> State] /\ parent \in [Worker -> Worker \union {NoWorker}]
      /\ handles \in [Worker -> Nat] /\ block_bytes \in [Worker -> Nat]
      /\ pending \in [Worker -> Nat] /\ accounted \in [Worker -> Nat]
      /\ live_threads \in Nat /\ live_handles \in Nat
      /\ live_memory \in Nat /\ live_object \in Nat
      /\ MaxThreads \in Nat /\ MaxHandles \in Nat /\ MaxMemory \in Nat
      /\ live_threads <= MaxThreads /\ live_handles <= MaxHandles
      /\ live_memory + live_object <= MaxMemory
  BY BudgetAssumption DEF BudgetInv, BudgetTypeOK, Bytes, BudgetExact, MemoryCeiling
<1>2. /\ live_threads = Threads(st) /\ live_handles = Total(handles)
      /\ live_memory = Total(block_bytes) + Total(pending) /\ live_object = Total(accounted)
  BY DEF BudgetInv, BudgetExact, CountersExact, Threads, Spawning, Unfinished
<1>3. /\ Total(handles) \in Nat /\ handles[w] <= Total(handles)
      /\ Total(block_bytes) \in Nat /\ block_bytes[w] <= Total(block_bytes)
      /\ Total(pending) \in Nat /\ pending[w] <= Total(pending)
      /\ Total(accounted) \in Nat /\ accounted[w] <= Total(accounted)
  BY Zenon, <1>1, TotalUpdate
<1>4. handles[w] \in Nat /\ block_bytes[w] \in Nat /\ pending[w] \in Nat /\ accounted[w] \in Nat
  BY <1>1
<1>5. /\ failed \in [Worker -> BOOLEAN] /\ handles \in [Worker -> 0 .. MaxHandles]
      /\ block_bytes \in [Worker -> Bytes] /\ pending \in [Worker -> Bytes]
      /\ accounted \in [Worker -> Bytes]
  BY DEF BudgetInv, BudgetTypeOK
<1> QED BY <1>1, <1>2, <1>3, <1>4, <1>5

(* A worker that has a thread of its own moves on, and no handle changes    *)
(* hands: the tree stays, and the permits follow the worker's state.        *)
LEMMA LocalStep ==
    ASSUME BudgetInv, NEW w \in Worker, NEW x \in State,
           st[w] \in {"run", "spawn", "alloc", "fault", "returned"},
           x # "absent", x \in {"returned", "done"} => w # Root,
           st' = [st EXCEPT ![w] = x], parent' = parent,
           live_threads' = (live_threads - Permits(w, st[w])) + Permits(w, x),
           live_threads' <= MaxThreads
    PROVE  /\ Shape' /\ Rooted' /\ NothingOutlivesRun'
           /\ live_threads' = Threads(st') /\ live_threads' \in 0 .. MaxThreads
           /\ st' \in [Worker -> State] /\ parent' \in [Worker -> Worker \union {NoWorker}]
<1>1. st \in [Worker -> State] /\ parent \in [Worker -> Worker \union {NoWorker}]
  BY DEF BudgetInv, BudgetTypeOK
<1>2. Shape'
  BY <1>1, BudgetAssumption DEF BudgetInv, Shape
<1>3. Rooted'
  BY DEF BudgetInv, Rooted
<1>4. NothingOutlivesRun'
  <2>1. st[Root] \notin {"absent", "done"}
    BY BudgetAssumption DEF BudgetInv, BudgetExact, NothingOutlivesRun
  <2> QED BY <1>1, <2>1, BudgetAssumption DEF NothingOutlivesRun
<1>5. live_threads' = Threads(st') /\ live_threads' \in 0 .. MaxThreads
  <2>1. /\ Threads(st) \in Nat /\ Permits(w, st[w]) \in Nat /\ Permits(w, x) \in Nat
        /\ Permits(w, st[w]) <= Threads(st)
        /\ Threads(st') = (Threads(st) - Permits(w, st[w])) + Permits(w, x)
    BY Zenon, <1>1, ThreadsUpdate
  <2>2. live_threads = Threads(st) /\ MaxThreads \in Nat
    BY Facts
  <2> QED BY <2>1, <2>2
<1> QED BY <1>1, <1>2, <1>3, <1>4, <1>5

(* The parts of the invariant that a step can put together.                 *)
LEMMA Assembled ==
    ASSUME Shape', Rooted', NothingOutlivesRun', Settled',
           live_threads' = Threads(st'), live_threads' \in 0 .. MaxThreads,
           st' \in [Worker -> State], parent' \in [Worker -> Worker \union {NoWorker}],
           failed' \in [Worker -> BOOLEAN],
           handles' \in [Worker -> 0 .. MaxHandles], block_bytes' \in [Worker -> Bytes],
           pending' \in [Worker -> Bytes], accounted' \in [Worker -> Bytes],
           live_handles' \in Nat, live_handles' <= MaxHandles,
           live_memory' \in Nat, live_object' \in Nat,
           live_memory' + live_object' <= MaxMemory,
           live_handles' = Total(handles'),
           live_memory' = Total(block_bytes') + Total(pending'),
           live_object' = Total(accounted')
    PROVE  BudgetInv'
<1>1. BudgetTypeOK'
  BY BudgetAssumption DEF BudgetTypeOK, Bytes
<1>2. CountersExact'
  BY DEF CountersExact, Threads, Spawning, Unfinished
<1> QED BY <1>1, <1>2 DEF BudgetInv, BudgetExact, MemoryCeiling

-----------------------------------------------------------------------------
(* The steps that one worker takes alone.                                   *)

(* A step that leaves the threads' permits alone.                           *)
LEMMA QuietStep ==
    ASSUME BudgetInv, NEW w \in Worker, NEW x \in {"run", "alloc", "fault"},
           st[w] \in {"run", "alloc", "fault"}, st' = [st EXCEPT ![w] = x],
           parent' = parent, live_threads' = live_threads
    PROVE  /\ Shape' /\ Rooted' /\ NothingOutlivesRun'
           /\ live_threads' = Threads(st') /\ live_threads' \in 0 .. MaxThreads
           /\ st' \in [Worker -> State] /\ parent' \in [Worker -> Worker \union {NoWorker}]
<1>1. x \in State /\ live_threads \in Nat /\ live_threads <= MaxThreads
  BY Facts DEF State
<1>2. Permits(w, st[w]) = Permits(w, x) /\ Permits(w, x) \in Nat
  BY DEF Permits
<1>3. live_threads' = (live_threads - Permits(w, st[w])) + Permits(w, x)
  BY <1>1, <1>2
<1>4. st[w] \in {"run", "spawn", "alloc", "fault", "returned"} /\ x # "absent"
      /\ x \notin {"returned", "done"} /\ live_threads' <= MaxThreads
  BY <1>1
<1> QED BY Zenon, <1>1, <1>3, <1>4, LocalStep

(* A fault that leaves every counter alone.                                 *)
LEMMA FaultStep ==
    ASSUME BudgetInv, NEW w \in Worker, st[w] = "run", Goto(w, "fault"),
           UNCHANGED <<counters, parent, handles, block_bytes, pending, accounted, failed>>
    PROVE  BudgetInv'
<1> USE DEF counters
<1>1. /\ Shape' /\ Rooted' /\ NothingOutlivesRun'
      /\ live_threads' = Threads(st') /\ live_threads' \in 0 .. MaxThreads
      /\ st' \in [Worker -> State] /\ parent' \in [Worker -> Worker \union {NoWorker}]
  BY Zenon, QuietStep DEF Goto
<1>2. Settled'
  BY Facts DEF BudgetInv, Settled, Goto
<1> QED BY <1>1, <1>2, Facts, Assembled

(* AcquireHandle keeps the budget: the permit is the one the counter gained.*)
LEMMA AcquireStep ==
    ASSUME BudgetInv, NEW w \in Worker, AcquireHandle(w)
    PROVE  BudgetInv'
<1>1. CASE live_handles + 1 <= MaxHandles
  <2>1. /\ st' = [st EXCEPT ![w] = "run"] /\ parent' = parent /\ live_threads' = live_threads
        /\ live_handles' = live_handles + 1 /\ handles' = [handles EXCEPT ![w] = handles[w] + 1]
        /\ UNCHANGED <<live_memory, live_object, block_bytes, pending, accounted, failed>>
        /\ st[w] = "run"
    BY <1>1, Facts DEF AcquireHandle
  <2>2. /\ Shape' /\ Rooted' /\ NothingOutlivesRun'
        /\ live_threads' = Threads(st') /\ live_threads' \in 0 .. MaxThreads
        /\ st' \in [Worker -> State] /\ parent' \in [Worker -> Worker \union {NoWorker}]
    BY Zenon, <2>1, QuietStep
  <2>3. handles' \in [Worker -> 0 .. MaxHandles] /\ Total(handles') = live_handles + 1
    <3>0. handles \in [Worker -> Nat] /\ handles[w] + 1 \in Nat
      BY Facts
    <3>1. Total([handles EXCEPT ![w] = handles[w] + 1]) = (Total(handles) - handles[w]) + (handles[w] + 1)
      BY Zenon, <3>0, TotalUpdate
    <3> QED BY <1>1, <2>1, <3>1, Facts
  <2>4. Settled'
    BY <2>1, Facts DEF BudgetInv, Settled
  <2> QED BY <1>1, <2>1, <2>2, <2>3, <2>4, Facts, Assembled
<1>2. CASE ~(live_handles + 1 <= MaxHandles)
  BY <1>2, FaultStep DEF AcquireHandle, counters
<1> QED BY <1>1, <1>2

(* DropHandle keeps the budget: the counter loses the permit of the worker. *)
LEMMA DropHandleStep ==
    ASSUME BudgetInv, NEW w \in Worker, DropHandle(w)
    PROVE  BudgetInv'
<1>1. /\ st' = [st EXCEPT ![w] = st[w]] /\ parent' = parent /\ live_threads' = live_threads
      /\ live_handles' = live_handles - 1 /\ handles' = [handles EXCEPT ![w] = handles[w] - 1]
      /\ UNCHANGED <<live_memory, live_object, block_bytes, pending, accounted, failed>>
      /\ st[w] \in {"run", "fault"} /\ handles[w] > 0
  BY Facts DEF DropHandle
<1>2. /\ Shape' /\ Rooted' /\ NothingOutlivesRun'
      /\ live_threads' = Threads(st') /\ live_threads' \in 0 .. MaxThreads
      /\ st' \in [Worker -> State] /\ parent' \in [Worker -> Worker \union {NoWorker}]
  BY Zenon, <1>1, QuietStep
<1>3. handles' \in [Worker -> 0 .. MaxHandles] /\ Total(handles') = live_handles - 1
      /\ live_handles - 1 \in Nat
  <2>1. handles \in [Worker -> Nat] /\ handles[w] - 1 \in Nat
    BY <1>1, Facts
  <2>2. Total([handles EXCEPT ![w] = handles[w] - 1]) = (Total(handles) - handles[w]) + (handles[w] - 1)
    BY Zenon, <2>1, TotalUpdate
  <2> QED BY <1>1, <2>2, Facts
<1>4. Settled'
  BY <1>1, Facts DEF BudgetInv, Settled
<1> QED BY <1>1, <1>2, <1>3, <1>4, Facts, Assembled

(* ChargeMemory keeps the budget: the bytes are pending, below the ceiling. *)
LEMMA ChargeMemoryStep ==
    ASSUME BudgetInv, NEW w \in Worker, NEW n \in ObjectSize, ChargeMemory(w, n)
    PROVE  BudgetInv'
<1>0. n \in Nat
  BY BudgetAssumption
<1>1. CASE live_memory + live_object + n <= MaxMemory
  <2>1. /\ st' = [st EXCEPT ![w] = "alloc"] /\ parent' = parent /\ live_threads' = live_threads
        /\ live_memory' = live_memory + n /\ pending' = [pending EXCEPT ![w] = n]
        /\ UNCHANGED <<live_handles, live_object, handles, block_bytes, accounted, failed>>
        /\ st[w] = "run" /\ pending[w] = 0
    BY <1>1, Facts DEF ChargeMemory, Goto, BudgetInv, Settled
  <2>2. /\ Shape' /\ Rooted' /\ NothingOutlivesRun'
        /\ live_threads' = Threads(st') /\ live_threads' \in 0 .. MaxThreads
        /\ st' \in [Worker -> State] /\ parent' \in [Worker -> Worker \union {NoWorker}]
    BY Zenon, <2>1, QuietStep
  <2>3. pending' \in [Worker -> Bytes] /\ Total(pending') = Total(pending) + n
    <3>1. pending \in [Worker -> Nat]
      BY Facts
    <3>2. Total([pending EXCEPT ![w] = n]) = (Total(pending) - pending[w]) + n
      BY Zenon, <1>0, <3>1, TotalUpdate
    <3> QED BY <1>0, <1>1, <2>1, <3>2, Facts DEF Bytes
  <2>4. Settled'
    BY <2>1, Facts DEF BudgetInv, Settled
  <2>5. live_memory' \in Nat /\ live_memory' + live_object' <= MaxMemory
        /\ live_memory' = Total(block_bytes') + Total(pending')
    BY <1>0, <1>1, <2>1, <2>3, Facts
  <2> QED BY <2>1, <2>2, <2>3, <2>4, <2>5, Facts, Assembled
<1>2. CASE ~(live_memory + live_object + n <= MaxMemory)
  BY <1>2, FaultStep DEF ChargeMemory, counters
<1> QED BY <1>1, <1>2

(* Allocated keeps the budget: the pending bytes become the block's.        *)
LEMMA AllocatedStep ==
    ASSUME BudgetInv, NEW w \in Worker, Allocated(w)
    PROVE  BudgetInv'
<1>1. /\ st' = [st EXCEPT ![w] = "run"] /\ parent' = parent /\ live_threads' = live_threads
      /\ block_bytes' = [block_bytes EXCEPT ![w] = block_bytes[w] + pending[w]]
      /\ pending' = [pending EXCEPT ![w] = 0]
      /\ UNCHANGED <<live_memory, live_handles, live_object, handles, accounted, failed>>
      /\ st[w] = "alloc"
  BY Facts DEF Allocated, Goto, counters
<1>2. /\ Shape' /\ Rooted' /\ NothingOutlivesRun'
      /\ live_threads' = Threads(st') /\ live_threads' \in 0 .. MaxThreads
      /\ st' \in [Worker -> State] /\ parent' \in [Worker -> Worker \union {NoWorker}]
  BY Zenon, <1>1, QuietStep
<1>3. /\ Total(block_bytes') = Total(block_bytes) + pending[w]
      /\ Total(pending') = Total(pending) - pending[w]
      /\ block_bytes' \in [Worker -> Bytes] /\ pending' \in [Worker -> Bytes]
  <2>1. block_bytes \in [Worker -> Nat] /\ pending \in [Worker -> Nat] /\ block_bytes[w] + pending[w] \in Nat
    BY Facts
  <2>2. Total([block_bytes EXCEPT ![w] = block_bytes[w] + pending[w]])
           = (Total(block_bytes) - block_bytes[w]) + (block_bytes[w] + pending[w])
    BY Zenon, <2>1, TotalUpdate
  <2>3. Total([pending EXCEPT ![w] = 0]) = (Total(pending) - pending[w]) + 0
    BY Zenon, <2>1, TotalUpdate
  <2> QED BY <1>1, <2>2, <2>3, Facts DEF Bytes
<1>4. Settled'
  BY <1>1, Facts DEF BudgetInv, Settled
<1>5. live_memory' = Total(block_bytes') + Total(pending')
  BY <1>1, <1>3, Facts
<1> QED BY <1>1, <1>2, <1>3, <1>4, <1>5, Facts, Assembled

(* AllocationFailed keeps the budget: the charge is taken back whole.       *)
LEMMA AllocationFailedStep ==
    ASSUME BudgetInv, NEW w \in Worker, AllocationFailed(w)
    PROVE  BudgetInv'
<1>1. /\ st' = [st EXCEPT ![w] = "run"] /\ parent' = parent /\ live_threads' = live_threads
      /\ live_memory' = live_memory - pending[w] /\ pending' = [pending EXCEPT ![w] = 0]
      /\ UNCHANGED <<live_handles, live_object, handles, block_bytes, accounted, failed>>
      /\ st[w] = "alloc"
  BY Facts DEF AllocationFailed, Goto
<1>2. /\ Shape' /\ Rooted' /\ NothingOutlivesRun'
      /\ live_threads' = Threads(st') /\ live_threads' \in 0 .. MaxThreads
      /\ st' \in [Worker -> State] /\ parent' \in [Worker -> Worker \union {NoWorker}]
  BY Zenon, <1>1, QuietStep
<1>3. /\ Total(pending') = Total(pending) - pending[w] /\ pending' \in [Worker -> Bytes]
  <2>1. pending \in [Worker -> Nat]
    BY Facts
  <2>2. Total([pending EXCEPT ![w] = 0]) = (Total(pending) - pending[w]) + 0
    BY Zenon, <2>1, TotalUpdate
  <2> QED BY <1>1, <2>2, Facts DEF Bytes
<1>4. Settled'
  BY <1>1, Facts DEF BudgetInv, Settled
<1>5. /\ live_memory' = Total(block_bytes') + Total(pending') /\ live_memory' \in Nat
      /\ live_memory' + live_object' <= MaxMemory
  BY <1>1, <1>3, Facts
<1> QED BY <1>1, <1>2, <1>3, <1>4, <1>5, Facts, Assembled

(* Free keeps the budget: a worker gives back bytes of its own.             *)
LEMMA FreeStep ==
    ASSUME BudgetInv, NEW w \in Worker, NEW n \in ObjectSize, Free(w, n)
    PROVE  BudgetInv'
<1>1. /\ st' = [st EXCEPT ![w] = st[w]] /\ parent' = parent /\ live_threads' = live_threads
      /\ live_memory' = live_memory - n /\ block_bytes' = [block_bytes EXCEPT ![w] = block_bytes[w] - n]
      /\ UNCHANGED <<live_handles, live_object, handles, pending, accounted, failed>>
      /\ st[w] \in {"run", "fault"} /\ n <= block_bytes[w] /\ n \in Nat
  BY Facts, BudgetAssumption DEF Free
<1>2. /\ Shape' /\ Rooted' /\ NothingOutlivesRun'
      /\ live_threads' = Threads(st') /\ live_threads' \in 0 .. MaxThreads
      /\ st' \in [Worker -> State] /\ parent' \in [Worker -> Worker \union {NoWorker}]
  BY Zenon, <1>1, QuietStep
<1>3. /\ Total(block_bytes') = Total(block_bytes) - n /\ block_bytes' \in [Worker -> Bytes]
  <2>1. block_bytes \in [Worker -> Nat] /\ block_bytes[w] - n \in Nat
    BY <1>1, Facts
  <2>2. Total([block_bytes EXCEPT ![w] = block_bytes[w] - n]) = (Total(block_bytes) - block_bytes[w]) + (block_bytes[w] - n)
    BY Zenon, <2>1, TotalUpdate
  <2> QED BY <1>1, <2>2, Facts DEF Bytes
<1>4. Settled'
  BY <1>1, Facts DEF BudgetInv, Settled
<1>5. /\ live_memory' = Total(block_bytes') + Total(pending') /\ live_memory' \in Nat
      /\ live_memory' + live_object' <= MaxMemory
  BY <1>1, <1>3, Facts
<1> QED BY <1>1, <1>2, <1>3, <1>4, <1>5, Facts, Assembled

(* Reconcile keeps the budget: object bytes grow only below the ceiling.    *)
LEMMA ReconcileStep ==
    ASSUME BudgetInv, NEW w \in Worker, NEW n \in ObjectSize \union {0},
           Reconcile(w, n)
    PROVE  BudgetInv'
<1> DEFINE Refused == n > accounted[w] /\ live_memory + live_object + (n - accounted[w]) > MaxMemory
<1>0. n \in Nat
  BY BudgetAssumption
<1>1. CASE ~Refused
  <2>1. /\ st' = [st EXCEPT ![w] = "run"] /\ parent' = parent /\ live_threads' = live_threads
        /\ live_object' = (live_object + n) - accounted[w]
        /\ accounted' = [accounted EXCEPT ![w] = n]
        /\ UNCHANGED <<live_handles, live_memory, handles, block_bytes, pending, failed>>
        /\ st[w] = "run"
    BY <1>1, Facts DEF Reconcile
  <2>2. /\ Shape' /\ Rooted' /\ NothingOutlivesRun'
        /\ live_threads' = Threads(st') /\ live_threads' \in 0 .. MaxThreads
        /\ st' \in [Worker -> State] /\ parent' \in [Worker -> Worker \union {NoWorker}]
    BY Zenon, <2>1, QuietStep
  <2>3. live_object' \in Nat /\ live_memory' + live_object' <= MaxMemory
    <3>1. n <= accounted[w] \/ live_memory + live_object + (n - accounted[w]) <= MaxMemory
      BY <1>0, <1>1, Facts
    <3> QED BY <1>0, <2>1, <3>1, Facts
  <2>4. accounted' \in [Worker -> Bytes] /\ live_object' = Total(accounted')
    <3>1. accounted \in [Worker -> Nat]
      BY Facts
    <3>2. Total([accounted EXCEPT ![w] = n]) = (Total(accounted) - accounted[w]) + n
      BY Zenon, <1>0, <3>1, TotalUpdate
    <3> QED BY <1>0, <2>1, <2>3, <3>2, Facts DEF Bytes
  <2>5. Settled'
    BY <2>1, Facts DEF BudgetInv, Settled
  <2> QED BY <2>1, <2>2, <2>3, <2>4, <2>5, Facts, Assembled
<1>2. CASE Refused
  BY <1>2, FaultStep DEF Reconcile, counters
<1> QED BY <1>1, <1>2

(* ChargeThread keeps the budget: the spawner holds the permit for now.     *)
LEMMA ChargeThreadStep ==
    ASSUME BudgetInv, NEW w \in Worker, ChargeThread(w)
    PROVE  BudgetInv'
<1>1. CASE live_threads + 1 <= MaxThreads
  <2>1. /\ st' = [st EXCEPT ![w] = "spawn"] /\ parent' = parent
        /\ live_threads' = live_threads + 1
        /\ UNCHANGED <<live_handles, live_memory, live_object, handles, block_bytes, pending,
                       accounted, failed>>
        /\ st[w] = "run"
    BY <1>1, Facts DEF ChargeThread, Goto
  <2>2. /\ Shape' /\ Rooted' /\ NothingOutlivesRun'
        /\ live_threads' = Threads(st') /\ live_threads' \in 0 .. MaxThreads
        /\ st' \in [Worker -> State] /\ parent' \in [Worker -> Worker \union {NoWorker}]
    <3>1. live_threads' = (live_threads - Permits(w, st[w])) + Permits(w, "spawn")
      BY <2>1, Facts DEF Permits
    <3>2. "spawn" \in State
      BY DEF State
    <3> QED BY Zenon, <1>1, <2>1, <3>1, <3>2, LocalStep
  <2>3. Settled'
    BY <2>1, Facts DEF BudgetInv, Settled
  <2> QED BY <2>1, <2>2, <2>3, Facts, Assembled
<1>2. CASE ~(live_threads + 1 <= MaxThreads)
  BY <1>2, FaultStep DEF ChargeThread, counters
<1> QED BY <1>1, <1>2

(* SpawnFailed keeps the budget: the permit of the thread that never was.   *)
LEMMA SpawnFailedStep ==
    ASSUME BudgetInv, NEW w \in Worker, SpawnFailed(w)
    PROVE  BudgetInv'
<1>1. /\ st' = [st EXCEPT ![w] = "fault"] /\ parent' = parent
      /\ live_threads' = live_threads - 1
      /\ UNCHANGED <<live_handles, live_memory, live_object, handles, block_bytes, pending,
                     accounted, failed>>
      /\ st[w] = "spawn"
  BY Facts DEF SpawnFailed, Goto
<1>2. /\ Shape' /\ Rooted' /\ NothingOutlivesRun'
      /\ live_threads' = Threads(st') /\ live_threads' \in 0 .. MaxThreads
      /\ st' \in [Worker -> State] /\ parent' \in [Worker -> Worker \union {NoWorker}]
  <2>1. live_threads' = (live_threads - Permits(w, st[w])) + Permits(w, "fault")
    BY <1>1, Facts DEF Permits
  <2>2. "fault" \in State /\ live_threads' <= MaxThreads
    BY <1>1, Facts DEF State
  <2> QED BY Zenon, <1>1, <2>1, <2>2, LocalStep
<1>3. Settled'
  BY <1>1, Facts DEF BudgetInv, Settled
<1> QED BY <1>1, <1>2, <1>3, Facts, Assembled

(* Return keeps the budget: the object bytes go back with the scopes.       *)
LEMMA ReturnStep ==
    ASSUME BudgetInv, NEW w \in Worker, Return(w)
    PROVE  BudgetInv'
<1>1. /\ st' = [st EXCEPT ![w] = "returned"] /\ parent' = parent
      /\ live_threads' = live_threads /\ live_object' = live_object - accounted[w]
      /\ accounted' = [accounted EXCEPT ![w] = 0]
      /\ failed' = [failed EXCEPT ![w] = (st[w] = "fault")]
      /\ UNCHANGED <<live_handles, live_memory, handles, block_bytes, pending>>
      /\ st[w] \in {"run", "fault"} /\ w # Root
  BY Facts DEF Return, Goto
<1>2. /\ Shape' /\ Rooted' /\ NothingOutlivesRun'
      /\ live_threads' = Threads(st') /\ live_threads' \in 0 .. MaxThreads
      /\ st' \in [Worker -> State] /\ parent' \in [Worker -> Worker \union {NoWorker}]
  <2>1. live_threads' = (live_threads - Permits(w, st[w])) + Permits(w, "returned")
    BY <1>1, Facts DEF Permits
  <2>2. "returned" \in State /\ live_threads' <= MaxThreads
    BY <1>1, Facts DEF State
  <2> QED BY Zenon, <1>1, <2>1, <2>2, LocalStep
<1>3. /\ accounted' \in [Worker -> Bytes] /\ live_object' = Total(accounted')
      /\ live_object' \in Nat /\ live_memory' + live_object' <= MaxMemory
  <2>1. accounted \in [Worker -> Nat]
    BY Facts
  <2>2. Total([accounted EXCEPT ![w] = 0]) = (Total(accounted) - accounted[w]) + 0
    BY Zenon, <2>1, TotalUpdate
  <2> QED BY <1>1, <2>2, Facts DEF Bytes
<1>4. Settled'
  BY <1>1, Facts DEF BudgetInv, Settled
<1>5. failed' \in [Worker -> BOOLEAN]
  <2>1. (st[w] = "fault") \in BOOLEAN
    OBVIOUS
  <2> QED BY <1>1, <2>1, Facts
<1> QED BY <1>1, <1>2, <1>3, <1>4, <1>5, Facts, Assembled

(* Exit keeps the budget: the permit of the thread is dropped once.         *)
LEMMA ExitStep ==
    ASSUME BudgetInv, NEW w \in Worker, Exit(w)
    PROVE  BudgetInv'
<1>1. /\ st' = [st EXCEPT ![w] = "done"] /\ parent' = parent
      /\ live_threads' = live_threads - 1
      /\ UNCHANGED <<live_handles, live_memory, live_object, handles, block_bytes, pending,
                     accounted, failed>>
      /\ st[w] = "returned" /\ w # Root
  BY Facts DEF Exit, Goto, BudgetInv, Shape
<1>2. /\ Shape' /\ Rooted' /\ NothingOutlivesRun'
      /\ live_threads' = Threads(st') /\ live_threads' \in 0 .. MaxThreads
      /\ st' \in [Worker -> State] /\ parent' \in [Worker -> Worker \union {NoWorker}]
  <2>1. live_threads' = (live_threads - Permits(w, st[w])) + Permits(w, "done")
    BY <1>1, Facts DEF Permits
  <2>2. "done" \in State /\ live_threads' <= MaxThreads
    BY <1>1, Facts DEF State
  <2> QED BY Zenon, <1>1, <2>1, <2>2, LocalStep
<1>3. Settled'
  BY <1>1, Facts DEF BudgetInv, Settled
<1> QED BY <1>1, <1>2, <1>3, Facts, Assembled

-----------------------------------------------------------------------------
(* The steps that change the tree of threads, or begin and end a run.       *)

(* Started keeps the tree: the new thread is a leaf.                        *)
LEMMA StartedTree ==
    ASSUME BudgetInv, NEW w \in Worker, NEW c \in Worker, Started(w, c)
    PROVE  /\ Shape' /\ Rooted' /\ NothingOutlivesRun'
           /\ live_threads' = Threads(st') /\ live_threads' \in 0 .. MaxThreads
           /\ st' \in [Worker -> State] /\ parent' \in [Worker -> Worker \union {NoWorker}]
<1>1. /\ st' = [[st EXCEPT ![w] = "run"] EXCEPT ![c] = "run"] /\ parent' = [parent EXCEPT ![c] = w]
      /\ st[w] = "spawn" /\ st[c] = "absent" /\ c # Root /\ w # c
      /\ live_threads' = live_threads
  BY Facts DEF Started, counters
<1>2. st \in [Worker -> State] /\ parent \in [Worker -> Worker \union {NoWorker}]
  BY DEF BudgetInv, BudgetTypeOK
<1>3. st' \in [Worker -> State] /\ parent' \in [Worker -> Worker \union {NoWorker}]
  BY <1>1, <1>2 DEF State
<1>4. Shape'
  BY <1>1, <1>2, BudgetAssumption DEF BudgetInv, Shape
<1>5. NothingOutlivesRun'
  <2>1. st[Root] \notin {"absent", "done"}
    BY <1>1, BudgetAssumption DEF BudgetInv, BudgetExact, NothingOutlivesRun
  <2> QED BY <1>1, <1>2, <2>1, BudgetAssumption DEF NothingOutlivesRun
<1>6. Rooted'
  <2> SUFFICES ASSUME NEW S \in SUBSET Worker, S # {} PROVE \E d \in S : parent'[d] \notin S
    BY DEF Rooted
  <2>1. CASE c \notin S
    <3>1. PICK d \in S : parent[d] \notin S
      BY DEF BudgetInv, Rooted
    <3> QED BY <1>1, <1>2, <2>1, <3>1
  <2>2. CASE S = {c}
    BY <1>1, <1>2, <2>2
  <2>3. CASE c \in S /\ S # {c}
    <3>1. S \ {c} \in SUBSET Worker /\ S \ {c} # {}
      BY <2>3
    <3>2. PICK d \in S \ {c} : parent[d] \notin S \ {c}
      BY Zenon, <3>1 DEF BudgetInv, Rooted
    <3>3. parent[d] # c
      BY <1>1, <1>2, <3>2, BudgetAssumption DEF BudgetInv, Shape
    <3> QED BY <1>1, <1>2, <3>2, <3>3
  <2> QED BY <2>1, <2>2, <2>3
<1>7. live_threads' = Threads(st') /\ live_threads' \in 0 .. MaxThreads
  <2> DEFINE r == [st EXCEPT ![w] = "run"]
  <2>0. r \in [Worker -> State] /\ "run" \in State /\ r[c] = "absent"
    BY <1>1, <1>2 DEF State
  <2>1. /\ Threads(st) \in Nat
        /\ Threads(r) = (Threads(st) - Permits(w, st[w])) + Permits(w, "run")
    BY Zenon, <1>2, <2>0, ThreadsUpdate
  <2>2. Threads([r EXCEPT ![c] = "run"]) = (Threads(r) - Permits(c, "absent")) + Permits(c, "run")
    BY Zenon, <2>0, ThreadsUpdate
  <2>3. /\ Permits(w, "spawn") = Permits(w, "run") + 1 /\ Permits(w, "run") \in Nat
        /\ Permits(c, "absent") = 0 /\ Permits(c, "run") = 1
    BY <1>1 DEF Permits
  <2>4. Threads(st') = Threads(st)
    BY <1>1, <2>1, <2>2, <2>3
  <2> QED BY <1>1, <2>4, Facts
<1> QED BY <1>3, <1>4, <1>5, <1>6, <1>7

(* Two workers' shares together are part of the total.                      *)
LEMMA TwoShares ==
    ASSUME NEW f \in [Worker -> Nat],
           NEW w \in Worker, NEW c \in Worker, w # c
    PROVE  f[w] + f[c] <= Total(f)
<1> DEFINE z == [f EXCEPT ![w] = 0]
<1>1. z \in [Worker -> Nat] /\ z[c] = f[c] /\ f[w] \in Nat /\ f[c] \in Nat
  OBVIOUS
<1>2. Total(z) = (Total(f) - f[w]) + 0 /\ Total(f) \in Nat
  BY Zenon, TotalUpdate
<1>3. z[c] <= Total(z)
  BY Zenon, <1>1, TotalUpdate
<1> QED BY <1>1, <1>2, <1>3

(* Values that move between two workers keep the total.                     *)
LEMMA Moving ==
    ASSUME NEW f \in [Worker -> Nat], NEW g \in [Worker -> Nat],
           NEW w \in Worker, NEW c \in Worker, w # c,
           f[w] + f[c] = g[w] + g[c],
           \A x \in Worker \ {w, c} : g[x] = f[x]
    PROVE  Total(g) = Total(f)
<1> DEFINE h == [f EXCEPT ![w] = g[w]]
<1>1. /\ h \in [Worker -> Nat] /\ h[c] = f[c] /\ f[c] \in Nat /\ f[w] \in Nat
      /\ g[w] \in Nat /\ g[c] \in Nat
  OBVIOUS
<1>2. Total(f) \in Nat /\ Total(h) \in Nat /\ Total(h) = (Total(f) - f[w]) + g[w]
  <2>1. \A n \in Nat : Total([f EXCEPT ![w] = n]) = (Total(f) - f[w]) + n
    BY Zenon, TotalUpdate
  <2>2. Total([f EXCEPT ![w] = g[w]]) = (Total(f) - f[w]) + g[w]
    BY Zenon, <1>1, <2>1
  <2> QED BY Zenon, <1>1, <2>2, UnitsFinite
<1>3. Total([h EXCEPT ![c] = g[c]]) = (Total(h) - h[c]) + g[c]
  BY Zenon, <1>1, TotalUpdate
<1>4. g = [h EXCEPT ![c] = g[c]]
  OBVIOUS
<1>5. Total(g) = (Total(h) - h[c]) + g[c]
  BY Zenon, <1>3, <1>4
<1> QED BY <1>1, <1>2, <1>5

(* Started keeps the budget: the arguments move, the permit becomes the     *)
(* thread's.                                                                *)
LEMMA StartedStep ==
    ASSUME BudgetInv, NEW w \in Worker, NEW c \in Worker, Started(w, c)
    PROVE  BudgetInv'
<1>1. /\ st' = [[st EXCEPT ![w] = "run"] EXCEPT ![c] = "run"]
      /\ st[w] = "spawn" /\ st[c] = "absent" /\ w # c
      /\ failed' = [failed EXCEPT ![c] = FALSE]
      /\ UNCHANGED <<live_handles, live_memory, live_object, pending, accounted>>
  BY Facts DEF Started, counters
<1>2. PICK h \in 0 .. handles[w], m \in 0 .. block_bytes[w] :
        /\ handles' = [[handles EXCEPT ![w] = handles[w] - h] EXCEPT ![c] = h]
        /\ block_bytes' = [[block_bytes EXCEPT ![w] = block_bytes[w] - m] EXCEPT ![c] = m]
  BY Zenon DEF Started
<1>3. /\ handles \in [Worker -> Nat] /\ block_bytes \in [Worker -> Nat]
      /\ handles[w] \in Nat /\ block_bytes[w] \in Nat /\ handles[c] = 0 /\ block_bytes[c] = 0
  BY <1>1, Facts DEF BudgetInv, Settled
<1>4. Total(handles') = Total(handles) /\ handles' \in [Worker -> 0 .. MaxHandles]
  <2>1. handles[w] - h \in 0 .. MaxHandles /\ h \in 0 .. MaxHandles /\ handles \in [Worker -> 0 .. MaxHandles]
    BY <1>3, Facts
  <2>2. handles' \in [Worker -> 0 .. MaxHandles] /\ handles' \in [Worker -> Nat]
    BY <1>2, <2>1
  <2>3. /\ handles[w] + handles[c] = handles'[w] + handles'[c]
        /\ \A x \in Worker \ {w, c} : handles'[x] = handles[x]
    BY <1>1, <1>2, <1>3
  <2>4. Total(handles') = Total(handles)
    <3>1. w # c /\ handles \in [Worker -> Nat]
      BY <1>1, <1>3
    <3> QED BY SMTT(30), <3>1, <2>2, <2>3, Moving
  <2> QED BY <2>2, <2>4
<1>5. Total(block_bytes') = Total(block_bytes) /\ block_bytes' \in [Worker -> Bytes]
  <2>1. block_bytes[w] - m \in 0 .. MaxMemory /\ m \in 0 .. MaxMemory /\ block_bytes \in [Worker -> 0 .. MaxMemory]
    BY <1>3, Facts DEF Bytes
  <2>2. block_bytes' \in [Worker -> 0 .. MaxMemory] /\ block_bytes' \in [Worker -> Nat]
    BY <1>2, <2>1
  <2>3. /\ block_bytes[w] + block_bytes[c] = block_bytes'[w] + block_bytes'[c]
        /\ \A x \in Worker \ {w, c} : block_bytes'[x] = block_bytes[x]
    BY <1>1, <1>2, <1>3
  <2>4. Total(block_bytes') = Total(block_bytes)
    <3>1. w # c /\ block_bytes \in [Worker -> Nat]
      BY <1>1, <1>3
    <3> QED BY SMTT(30), <3>1, <2>2, <2>3, Moving
  <2> QED BY <2>2, <2>4 DEF Bytes
<1>6. Settled'
  BY <1>1, <1>2, Facts DEF BudgetInv, Settled
<1>7. failed' \in [Worker -> BOOLEAN]
  BY <1>1, Facts
<1> QED BY <1>1, <1>4, <1>5, <1>6, <1>7, StartedTree, Facts, Assembled

(* The end of a handle keeps the tree: the owner of a finished thread takes *)
(* over the threads inside its result.                                      *)
LEMMA AdoptTree ==
    ASSUME BudgetInv, NEW w \in Worker, NEW c \in Worker,
           NEW y \in {"run", "fault"},
           st[w] \in {"run", "fault"}, parent[c] = w, st[c] = "done",
           st' = [[st EXCEPT ![c] = "absent"] EXCEPT ![w] = y],
           parent' = [x \in Worker |->
                        IF x = c THEN NoWorker ELSE IF parent[x] = c THEN w ELSE parent[x]],
           live_threads' = live_threads
    PROVE  /\ Shape' /\ Rooted' /\ NothingOutlivesRun' /\ c # Root /\ c # w
           /\ live_threads' = Threads(st') /\ live_threads' \in 0 .. MaxThreads
           /\ st' \in [Worker -> State] /\ parent' \in [Worker -> Worker \union {NoWorker}]
<1>1. st \in [Worker -> State] /\ parent \in [Worker -> Worker \union {NoWorker}]
  BY DEF BudgetInv, BudgetTypeOK
<1>2. c # Root /\ c # w /\ w # NoWorker /\ NoWorker \notin Worker
  BY BudgetAssumption DEF BudgetInv, Shape
<1>3. st' \in [Worker -> State] /\ parent' \in [Worker -> Worker \union {NoWorker}]
  BY SMTT(30), <1>1 DEF State
<1>4. Shape'
  <2>1. parent'[Root] = NoWorker /\ st'[Root] # "returned"
    BY <1>1, <1>2, BudgetAssumption DEF BudgetInv, Shape
  <2>2. ASSUME NEW x \in Worker \ {Root} PROVE st'[x] = "absent" <=> parent'[x] = NoWorker
    BY <1>1, <1>2 DEF BudgetInv, Shape
  <2>3. ASSUME NEW x \in Worker, parent'[x] # NoWorker PROVE st'[parent'[x]] # "absent"
    <3>1. CASE parent'[x] = w
      BY <1>1, <1>2, <3>1
    <3>2. CASE parent'[x] # w
      <4>1. parent'[x] = parent[x] /\ parent[x] # c /\ parent[x] \in Worker
        BY <1>1, <2>3, <3>2
      <4>2. st[parent[x]] # "absent"
        BY <2>3, <4>1 DEF BudgetInv, Shape
      <4> QED BY <1>1, <3>2, <4>1, <4>2
    <3> QED BY <3>1, <3>2
  <2> QED BY Zenon, <2>1, <2>2, <2>3 DEF Shape
<1>5. NothingOutlivesRun'
  <2>1. st[Root] \notin {"absent", "done"}
    BY <1>2, BudgetAssumption DEF BudgetInv, BudgetExact, NothingOutlivesRun
  <2> QED BY <1>1, <1>2, <2>1, BudgetAssumption DEF NothingOutlivesRun
<1>6. Rooted'
  <2> SUFFICES ASSUME NEW S \in SUBSET Worker, S # {} PROVE \E d \in S : parent'[d] \notin S
    BY Zenon DEF Rooted
  <2>1. CASE c \in S
    BY <1>2, <2>1
  <2>2. CASE c \notin S /\ w \in S
    <3>1. S \union {c} \in SUBSET Worker /\ S \union {c} # {}
      OBVIOUS
    <3>2. PICK d \in S \union {c} : parent[d] \notin S \union {c}
      BY Zenon, <3>1 DEF BudgetInv, Rooted
    <3>3. d \in S /\ parent'[d] = parent[d]
      BY <2>2, <3>2
    <3> QED BY <3>2, <3>3
  <2>3. CASE c \notin S /\ w \notin S
    <3>1. PICK d \in S : parent[d] \notin S
      BY DEF BudgetInv, Rooted
    <3> QED BY <2>3, <3>1
  <2> QED BY <2>1, <2>2, <2>3
<1>7. live_threads' = Threads(st') /\ live_threads' \in 0 .. MaxThreads
  <2> DEFINE r == [st EXCEPT ![c] = "absent"]
  <2>0. r \in [Worker -> State] /\ y \in State /\ "absent" \in State /\ r[w] = st[w]
    BY <1>1, <1>2 DEF State
  <2>1. /\ Threads(st) \in Nat
        /\ Threads(r) = (Threads(st) - Permits(c, st[c])) + Permits(c, "absent")
    BY ZenonT(30), <1>1, <2>0, ThreadsUpdate
  <2>2. Threads([r EXCEPT ![w] = y]) = (Threads(r) - Permits(w, r[w])) + Permits(w, y)
    BY Zenon, <2>0, ThreadsUpdate
  <2>3. /\ Permits(c, st[c]) = 0 /\ Permits(c, "absent") = 0
        /\ Permits(w, r[w]) = Permits(w, y) /\ Permits(w, y) \in Nat
    BY <2>0 DEF Permits
  <2>4. Threads(st') = Threads(st)
    BY <2>1, <2>2, <2>3
  <2> QED BY <2>4, Facts
<1> QED BY <1>2, <1>3, <1>4, <1>5, <1>6, <1>7

(* Join keeps the budget: the result moves to the joiner.                   *)
LEMMA JoinStep ==
    ASSUME BudgetInv, NEW w \in Worker, NEW c \in Worker, Join(w, c)
    PROVE  BudgetInv'
<1> DEFINE y == IF failed[c] THEN "fault" ELSE "run"
<1>0. /\ st' = [[st EXCEPT ![c] = "absent"] EXCEPT ![w] = y]
      /\ st[w] = "run" /\ parent[c] = w /\ st[c] = "done"
      /\ handles' = [[handles EXCEPT ![w] = handles[w] + handles[c]] EXCEPT ![c] = 0]
      /\ block_bytes' = [[block_bytes EXCEPT ![w] = block_bytes[w] + block_bytes[c]] EXCEPT ![c] = 0]
      /\ UNCHANGED <<live_threads, live_handles, live_memory, live_object, pending,
                     accounted, failed>>
      /\ y \in {"run", "fault"}
  BY DEF Join, counters
<1> HIDE DEF y
<1>1. /\ Shape' /\ Rooted' /\ NothingOutlivesRun' /\ c # Root /\ c # w
      /\ live_threads' = Threads(st') /\ live_threads' \in 0 .. MaxThreads
      /\ st' \in [Worker -> State] /\ parent' \in [Worker -> Worker \union {NoWorker}]
  BY ZenonT(30), <1>0, AdoptTree DEF Join
<1>2. /\ handles \in [Worker -> Nat] /\ block_bytes \in [Worker -> Nat]
      /\ handles[w] \in Nat /\ handles[c] \in Nat /\ block_bytes[w] \in Nat /\ block_bytes[c] \in Nat
  BY Facts
<1>3. Total(handles') = Total(handles) /\ handles' \in [Worker -> 0 .. MaxHandles]
  <2>1. handles[w] + handles[c] <= Total(handles)
    BY <1>1, <1>2, TwoShares
  <2>2. /\ handles[w] + handles[c] \in 0 .. MaxHandles /\ 0 \in 0 .. MaxHandles /\ MaxHandles \in Nat
        /\ handles \in [Worker -> 0 .. MaxHandles]
    BY <1>2, <2>1, Facts
  <2>3. handles' \in [Worker -> 0 .. MaxHandles] /\ handles' \in [Worker -> Nat]
    BY <1>0, <2>2
  <2>4. /\ handles[w] + handles[c] = handles'[w] + handles'[c]
        /\ \A x \in Worker \ {w, c} : handles'[x] = handles[x]
    <3>1. handles'[w] = handles[w] + handles[c] /\ handles'[c] = 0
      BY <1>0, <1>1, <1>2
    <3> QED BY <1>0, <1>2, <3>1
  <2>5. Total(handles') = Total(handles)
    <3>1. w # c /\ handles \in [Worker -> Nat]
      BY <1>1, <1>2
    <3> QED BY SMTT(30), <3>1, <2>3, <2>4, Moving
  <2> QED BY <2>3, <2>5
<1>4. Total(block_bytes') = Total(block_bytes) /\ block_bytes' \in [Worker -> Bytes]
  <2>1. block_bytes[w] + block_bytes[c] <= Total(block_bytes)
    BY <1>1, <1>2, TwoShares
  <2>2. /\ block_bytes[w] + block_bytes[c] \in 0 .. MaxMemory /\ 0 \in 0 .. MaxMemory /\ MaxMemory \in Nat
        /\ block_bytes \in [Worker -> 0 .. MaxMemory]
    BY <1>2, <2>1, Facts DEF Bytes
  <2>3. block_bytes' \in [Worker -> 0 .. MaxMemory] /\ block_bytes' \in [Worker -> Nat]
    BY <1>0, <2>2
  <2>4. /\ block_bytes[w] + block_bytes[c] = block_bytes'[w] + block_bytes'[c]
        /\ \A x \in Worker \ {w, c} : block_bytes'[x] = block_bytes[x]
    <3>1. block_bytes'[w] = block_bytes[w] + block_bytes[c] /\ block_bytes'[c] = 0
      BY <1>0, <1>1, <1>2
    <3> QED BY <1>0, <1>2, <3>1
  <2>5. Total(block_bytes') = Total(block_bytes)
    <3>1. w # c /\ block_bytes \in [Worker -> Nat]
      BY <1>1, <1>2
    <3> QED BY SMTT(30), <3>1, <2>3, <2>4, Moving
  <2> QED BY <2>3, <2>5 DEF Bytes
<1>5. Settled'
  BY SMTT(30), <1>0, <1>1, <1>2, Facts DEF BudgetInv, Settled
<1> QED BY SMTT(30), <1>0, <1>1, <1>3, <1>4, <1>5, Facts, Assembled

(* DropThread keeps the budget: the result is destroyed with its permits.   *)
LEMMA DropThreadStep ==
    ASSUME BudgetInv, NEW w \in Worker, NEW c \in Worker, DropThread(w, c)
    PROVE  BudgetInv'
<1>0. /\ st' = [st EXCEPT ![c] = "absent"]
      /\ st[w] \in {"run", "fault"} /\ parent[c] = w /\ st[c] = "done"
      /\ live_handles' = live_handles - handles[c] /\ live_memory' = live_memory - block_bytes[c]
      /\ handles' = [handles EXCEPT ![c] = 0] /\ block_bytes' = [block_bytes EXCEPT ![c] = 0]
      /\ UNCHANGED <<live_threads, live_object, pending, accounted, failed>>
  BY DEF DropThread, Goto
<1>1. /\ Shape' /\ Rooted' /\ NothingOutlivesRun' /\ c # Root /\ c # w
      /\ live_threads' = Threads(st') /\ live_threads' \in 0 .. MaxThreads
      /\ st' \in [Worker -> State] /\ parent' \in [Worker -> Worker \union {NoWorker}]
  <2> DEFINE y == st[w]
  <2>1. st' = [[st EXCEPT ![c] = "absent"] EXCEPT ![w] = y] /\ y \in {"run", "fault"}
    BY ZenonT(30), <1>0, Facts
  <2>2. parent' = [x \in Worker |->
                     IF x = c THEN NoWorker ELSE IF parent[x] = c THEN w ELSE parent[x]]
    BY DEF DropThread
  <2>3. st[w] \in {"run", "fault"} /\ parent[c] = w /\ st[c] = "done" /\ live_threads' = live_threads
    BY <1>0
  <2> HIDE DEF y
  <2> QED BY Zenon, <2>1, <2>2, <2>3, AdoptTree
<1>2. /\ handles \in [Worker -> Nat] /\ block_bytes \in [Worker -> Nat]
      /\ handles[c] \in Nat /\ block_bytes[c] \in Nat
      /\ handles[c] <= live_handles /\ block_bytes[c] <= Total(block_bytes)
  BY Facts
<1>3. /\ live_handles' = Total(handles') /\ handles' \in [Worker -> 0 .. MaxHandles]
      /\ live_handles' \in Nat /\ live_handles' <= MaxHandles
  <2>1. Total([handles EXCEPT ![c] = 0]) = (Total(handles) - handles[c]) + 0
    BY Zenon, <1>2, TotalUpdate
  <2> QED BY <1>0, <1>2, <2>1, Facts
<1>4. /\ live_memory' = Total(block_bytes') + Total(pending') /\ block_bytes' \in [Worker -> Bytes]
      /\ live_memory' \in Nat /\ live_memory' + live_object' <= MaxMemory
  <2>1. Total([block_bytes EXCEPT ![c] = 0]) = (Total(block_bytes) - block_bytes[c]) + 0
    BY ZenonT(30), <1>2, TotalUpdate
  <2> QED BY <1>0, <1>2, <2>1, Facts DEF Bytes
<1>5. Settled'
  BY <1>0, <1>1, <1>2, Facts DEF BudgetInv, Settled
<1> QED BY SMTT(30), <1>0, <1>1, <1>3, <1>4, <1>5, Facts, Assembled

(* StartRun keeps the budget: nothing outlived the run before, so the       *)
(* counters are zero already.                                               *)
LEMMA StartRunStep ==
    ASSUME BudgetInv, StartRun
    PROVE  BudgetInv'
<1>0. Root \in Worker /\ st[Root] \in {"absent", "done"}
  BY BudgetAssumption DEF StartRun
<1>1. /\ live_threads = 0 /\ live_handles = 0 /\ live_memory = 0 /\ live_object = 0
      /\ accounted[Root] = 0 /\ pending[Root] = 0
  BY <1>0 DEF BudgetInv, BudgetExact, NothingOutlivesRun, Settled
<1>2. /\ st' = [st EXCEPT ![Root] = "run"] /\ failed' = [failed EXCEPT ![Root] = FALSE]
      /\ accounted' = accounted
      /\ UNCHANGED <<live_threads, live_handles, live_memory, live_object, parent, handles,
                     block_bytes, pending>>
  BY <1>0, <1>1, Facts DEF StartRun, Goto
<1>3. st' \in [Worker -> State] /\ parent' \in [Worker -> Worker \union {NoWorker}]
      /\ failed' \in [Worker -> BOOLEAN]
  BY SMTT(30), <1>0, <1>2, Facts DEF State
<1>4. Shape' /\ Rooted' /\ NothingOutlivesRun' /\ Settled'
  BY SMTT(30), <1>0, <1>1, <1>2, Facts DEF BudgetInv, Shape, Rooted, NothingOutlivesRun, Settled
<1>5. live_threads' = Threads(st') /\ live_threads' \in 0 .. MaxThreads
  <2>1. st \in [Worker -> State] /\ "run" \in State
    BY <1>0, Facts DEF State
  <2>2. /\ Threads(st) \in Nat
        /\ Threads([st EXCEPT ![Root] = "run"])
              = (Threads(st) - Permits(Root, st[Root])) + Permits(Root, "run")
    BY Zenon, <1>0, <2>1, ThreadsUpdate
  <2>3. Permits(Root, st[Root]) = 0 /\ Permits(Root, "run") = 0
    BY <1>0 DEF Permits
  <2> QED BY <1>0, <1>2, <2>2, <2>3, Facts
<1> QED BY <1>0, <1>2, <1>3, <1>4, <1>5, Facts, Assembled

(* A run whose root owns no thread has no thread at all.                    *)
LEMMA NoThreadLeft ==
    ASSUME BudgetInv, Kids(Root) = {}
    PROVE  \A w \in Worker \ {Root} : st[w] = "absent"
<1> DEFINE S == {w \in Worker \ {Root} : st[w] # "absent"}
<1> SUFFICES ASSUME S # {} PROVE FALSE
  OBVIOUS
<1>1. S \in SUBSET Worker
  OBVIOUS
<1>2. PICK d \in S : parent[d] \notin S
  BY Zenon, <1>1 DEF BudgetInv, Rooted
<1>3. parent[d] # NoWorker /\ parent[d] \in Worker /\ st[parent[d]] # "absent"
  BY <1>2 DEF BudgetInv, Shape, BudgetTypeOK
<1>4. parent[d] = Root
  BY <1>2, <1>3
<1> QED BY <1>4 DEF Kids

(* EndRun keeps the budget, and finds that nothing is left.                 *)
LEMMA EndRunStep ==
    ASSUME BudgetInv, EndRun
    PROVE  BudgetInv'
<1>0. /\ Root \in Worker /\ st[Root] \in {"run", "fault"}
      /\ handles[Root] = 0 /\ block_bytes[Root] = 0 /\ pending[Root] = 0 /\ Kids(Root) = {}
      /\ st' = [st EXCEPT ![Root] = "done"]
      /\ live_object' = live_object - accounted[Root]
      /\ accounted' = [accounted EXCEPT ![Root] = 0]
      /\ UNCHANGED <<live_threads, live_handles, live_memory, parent, handles, block_bytes,
                     pending, failed>>
  BY Zenon, BudgetAssumption DEF EndRun, Goto, BudgetInv, Settled
<1>1. \A w \in Worker \ {Root} : st[w] = "absent"
  BY <1>0, NoThreadLeft
<1>2. \A w \in Worker :
         handles[w] = 0 /\ block_bytes[w] = 0 /\ pending[w] = 0 /\ accounted'[w] = 0
  BY SMTT(30), <1>0, <1>1, Facts DEF BudgetInv, Settled
<1>3. /\ accounted' \in [Worker -> Bytes] /\ live_object' = Total(accounted')
      /\ live_object' \in Nat /\ live_memory' + live_object' <= MaxMemory
  <2>1. accounted \in [Worker -> Nat]
    BY <1>0, Facts
  <2>2. Total([accounted EXCEPT ![Root] = 0]) = (Total(accounted) - accounted[Root]) + 0
    BY Zenon, <1>0, <2>1, TotalUpdate
  <2> QED BY <1>0, <2>2, Facts DEF Bytes
<1>4. /\ Total(handles) = 0 /\ Total(block_bytes) = 0 /\ Total(pending) = 0 /\ Total(accounted') = 0
  <2>1. /\ handles \in [Worker -> Nat] /\ block_bytes \in [Worker -> Nat] /\ pending \in [Worker -> Nat]
        /\ accounted' \in [Worker -> Nat]
    BY <1>0, Facts
  <2> QED BY <1>2, <2>1, TotalZero
<1>5. live_threads' = Threads(st') /\ live_threads' \in 0 .. MaxThreads /\ live_threads' = 0
  <2>1. Spawning(st) = {} /\ Unfinished(st) = {} /\ Spawning(st') = {} /\ Unfinished(st') = {}
    BY <1>0, <1>1, Facts DEF Spawning, Unfinished
  <2>2. Threads(st) = 0 /\ Threads(st') = 0
    BY <2>1, FS_EmptySet DEF Threads
  <2> QED BY <1>0, <2>2, Facts
<1>6. st' \in [Worker -> State] /\ parent' \in [Worker -> Worker \union {NoWorker}]
  BY SMTT(30), <1>0, Facts DEF State
<1>7. Shape' /\ Rooted' /\ Settled'
  BY SMTT(30), <1>0, <1>1, <1>2, Facts DEF BudgetInv, Shape, Rooted, Settled
<1>8. NothingOutlivesRun'
  BY <1>0, <1>1, <1>3, <1>4, <1>5, Facts DEF NothingOutlivesRun
<1> QED BY SMTT(30), <1>0, <1>3, <1>5, <1>6, <1>7, <1>8, Facts, Assembled

-----------------------------------------------------------------------------

(* A program that has not run yet owns nothing.                             *)
LEMMA BudgetInitially ==
    ASSUME BudgetInit
    PROVE  BudgetInv
<1> USE BudgetAssumption DEF BudgetInit
<1>1. BudgetTypeOK
  BY DEF BudgetTypeOK, State, Bytes, Nothing
<1>2. Total(handles) = 0 /\ Total(block_bytes) = 0 /\ Total(pending) = 0 /\ Total(accounted) = 0
  <2>1. Nothing \in [Worker -> Nat] /\ \A w \in Worker : Nothing[w] = 0
    BY DEF Nothing
  <2> QED BY <2>1, TotalZero
<1>3. Threads(st) = 0
  <2>1. Spawning(st) = {} /\ Unfinished(st) = {}
    BY DEF Spawning, Unfinished
  <2> QED BY <2>1, FS_EmptySet DEF Threads
<1>4. BudgetExact
  BY <1>2, <1>3 DEF BudgetExact, CountersExact, Threads, Spawning, Unfinished, MemoryCeiling,
     NothingOutlivesRun
<1>5. Shape /\ Settled
  BY DEF Shape, Settled, Nothing
<1>6. Rooted
  BY DEF Rooted
<1> QED BY <1>1, <1>4, <1>5, <1>6 DEF BudgetInv

(* Every step of a worker, and the start and the end of a run, keep the     *)
(* budget.                                                                  *)
LEMMA BudgetSteps ==
    ASSUME BudgetInv, [BudgetNext]_budget_vars
    PROVE  BudgetInv'
<1>1. CASE UNCHANGED budget_vars
  BY <1>1 DEF budget_vars, counters, BudgetInv, BudgetTypeOK, BudgetExact, CountersExact, MemoryCeiling,
     NothingOutlivesRun, Shape, Settled, Rooted
<1>2. CASE StartRun
  BY <1>2, StartRunStep
<1>3. CASE EndRun
  BY <1>3, EndRunStep
<1>4. ASSUME NEW w \in Worker,
             \/ RuntimeError(w) \/ AcquireHandle(w) \/ DropHandle(w)
             \/ (\E n \in ObjectSize : ChargeMemory(w, n)) \/ Allocated(w) \/ AllocationFailed(w)
             \/ (\E n \in ObjectSize : Free(w, n)) \/ (\E n \in ObjectSize \union {0} : Reconcile(w, n))
             \/ ChargeThread(w) \/ (\E c \in Worker : Started(w, c)) \/ SpawnFailed(w)
             \/ Return(w) \/ Exit(w)
             \/ (\E c \in Worker : Join(w, c)) \/ (\E c \in Worker : DropThread(w, c))
      PROVE  BudgetInv'
  <2>1. CASE RuntimeError(w)
    BY <2>1, FaultStep DEF RuntimeError
  <2> QED BY SMTT(30), <1>4, <2>1, AcquireStep, DropHandleStep, ChargeMemoryStep, AllocatedStep,
             AllocationFailedStep, FreeStep, ReconcileStep, ChargeThreadStep, StartedStep,
             SpawnFailedStep, ReturnStep, ExitStep, JoinStep, DropThreadStep
<1> QED BY SMTT(30), <1>1, <1>2, <1>3, <1>4 DEF BudgetNext

(* The counters of the budget are what the permits add up to, wherever any  *)
(* thread, block or run is in its life, the meters of memory stay below     *)
(* their ceiling, and a run that is over leaves nothing behind.             *)
THEOREM BudgetCorrect == BudgetSpec => []BudgetExact
<1>1. BudgetInit => BudgetInv
  BY BudgetInitially
<1>2. BudgetInv /\ [BudgetNext]_budget_vars => BudgetInv'
  BY BudgetSteps
<1>3. BudgetInv => BudgetExact
  BY DEF BudgetInv
<1> QED BY <1>1, <1>2, <1>3, PTL DEF BudgetSpec
=============================================================================
