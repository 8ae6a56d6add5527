------------------------- MODULE SharedStateProofs -------------------------
(***************************************************************************)
(* Proofs about what the threads of a program share: Mutex<T>               *)
(* (RuntimeMutex) and atomic integers (AtomicInt), for every set of         *)
(* threads, every recursion depth and every word; and channels (Channel),   *)
(* for every set of threads, every set of values and every capacity.        *)
(***************************************************************************)
EXTENDS RuntimeMutex, AtomicInt, Channel, FiniteSetTheorems, SequenceTheorems, TLAPS

-----------------------------------------------------------------------------
(* Mutex<T> *)

(* The mutex is free exactly at depth 0, and only its owner remembers what  *)
(* it read: a thread that lost the mutex has nothing to write back.         *)
Held ==
    /\ owner = NoThread <=> depth = 0
    /\ \A t \in MutexThread : local[t] # {} => owner = t

MutexInv == MutexTypeOK /\ MutexSound /\ Held

(* A new mutex has no owner and no sleeper.                                 *)
LEMMA MutexInitially ==
    ASSUME MutexInit
    PROVE  MutexInv
  BY MutexAssumption DEF MutexInit, MutexInv, MutexTypeOK, MutexSound, Exclusion, NoLostUpdate,
         SleepersCovered, Held

(* Taking the mutex, from a call or after a wakeup: a thread goes to sleep  *)
(* only behind another owner.                                               *)
LEMMA LockBodySound ==
    ASSUME MutexInv, NEW t \in MutexThread, LockBody(t), calls' \in 0 .. MaxCalls
    PROVE  MutexInv'
<1> USE MutexAssumption DEF MutexInv, MutexSound
<1>1. CASE owner \notin {NoThread, t}
  <2>1. lock_pc' = [lock_pc EXCEPT ![t] = "wait"] /\ UNCHANGED <<owner, depth, guards, value, local, writes>>
    BY <1>1 DEF LockBody
  <2>2. MutexTypeOK'
    BY <2>1 DEF MutexTypeOK
  <2>3. Exclusion' /\ NoLostUpdate' /\ Held'
    BY <2>1 DEF Exclusion, NoLostUpdate, Held
  <2>4. SleepersCovered'
    BY <1>1, <2>1 DEF SleepersCovered
  <2> QED
    BY <2>2, <2>3, <2>4
<1>2. CASE owner \in {NoThread, t}
  <2>1. /\ lock_pc' = [lock_pc EXCEPT ![t] = "run"] /\ owner' = t /\ UNCHANGED <<value, local, writes>>
        /\ IF depth = MaxLockDepth THEN UNCHANGED <<depth, guards>>
           ELSE depth' = depth + 1 /\ guards' = [guards EXCEPT ![t] = @ + 1]
    BY <1>2 DEF LockBody
  <2>2. guards[t] = depth
    BY <1>2 DEF Exclusion, Held, MutexTypeOK
  <2>3. MutexTypeOK'
    BY <2>1, <2>2 DEF MutexTypeOK
  <2>4. Exclusion'
    BY <1>2, <2>1, <2>2 DEF Exclusion, MutexTypeOK, Held
  <2>5. Held'
    BY <1>2, <2>1 DEF Held, MutexTypeOK
  <2>6. NoLostUpdate' /\ SleepersCovered'
    BY <2>1 DEF NoLostUpdate, SleepersCovered
  <2> QED
    BY <2>3, <2>4, <2>5, <2>6
<1> QED
  BY <1>1, <1>2

(* A wakeup moves at most one sleeper, and one if there is any.             *)
LEMMA LockNotifyWakes ==
    ASSUME NEW p \in [MutexThread -> {"run", "wait", "woken"}], NEW q \in LockNotify(p)
    PROVE  /\ q \in [MutexThread -> {"run", "wait", "woken"}]
           /\ (\E t \in MutexThread : p[t] = "wait") => \E t \in MutexThread : q[t] = "woken"
           /\ (\A t \in MutexThread : p[t] # "wait") => q = p
<1> DEFINE sleeping == {t \in MutexThread : p[t] = "wait"}
<1>1. CASE sleeping = {}
  BY <1>1 DEF LockNotify
<1>2. CASE sleeping # {}
  <2>1. PICK t \in sleeping : q = [p EXCEPT ![t] = "woken"]
    BY <1>2 DEF LockNotify
  <2> QED
    BY <1>2, <2>1
<1> QED
  BY <1>1, <1>2

(* The end of a guard: the last one frees the mutex, forgets what the       *)
(* thread read and wakes a sleeper.                                         *)
LEMMA UnlockSound ==
    ASSUME MutexInv, NEW t \in MutexThread, Unlock(t)
    PROVE  MutexInv'
<1> USE MutexAssumption DEF MutexInv, MutexSound
<1>1. /\ guards[t] > 0 /\ guards' = [guards EXCEPT ![t] = @ - 1] /\ depth' = depth - 1
      /\ UNCHANGED <<value, writes, calls>>
  BY DEF Unlock
<1>2. owner = t /\ guards[t] = depth /\ depth \in 1 .. MaxLockDepth
  BY <1>1 DEF Exclusion, MutexTypeOK
<1>3. CASE depth' = 0
  <2>1. owner' = NoThread /\ lock_pc' \in LockNotify(lock_pc) /\ local' = [local EXCEPT ![t] = {}]
    BY Zenon, <1>3 DEF Unlock
  <2>2. lock_pc \in [MutexThread -> {"run", "wait", "woken"}]
    BY DEF MutexTypeOK
  <2>3. MutexTypeOK'
    BY <1>1, <1>2, <2>1, <2>2, LockNotifyWakes DEF MutexTypeOK
  <2>4. Exclusion' /\ Held' /\ NoLostUpdate'
    BY <1>1, <1>2, <1>3, <2>1 DEF Exclusion, Held, NoLostUpdate, MutexTypeOK
  <2>5. SleepersCovered'
    BY <2>1, <2>2, LockNotifyWakes DEF SleepersCovered
  <2> QED
    BY <2>3, <2>4, <2>5
<1>4. CASE depth' # 0
  <2>1. UNCHANGED <<owner, lock_pc, local>>
    BY <1>4 DEF Unlock
  <2>2. MutexTypeOK'
    BY <1>1, <1>2, <2>1 DEF MutexTypeOK
  <2>3. Exclusion' /\ Held' /\ NoLostUpdate' /\ SleepersCovered'
    BY <1>1, <1>2, <1>4, <2>1 DEF Exclusion, Held, NoLostUpdate, SleepersCovered, MutexTypeOK
  <2> QED
    BY <2>2, <2>3
<1> QED
  BY <1>3, <1>4

(* Reading and writing through a guard: only the owner has one.             *)
LEMMA AccessSound ==
    ASSUME MutexInv, NEW t \in MutexThread, Read(t) \/ Write(t)
    PROVE  MutexInv'
<1> USE MutexAssumption DEF MutexInv, MutexSound
<1>1. owner = t
  BY DEF Read, Write, Exclusion, MutexTypeOK
<1>2. CASE Read(t)
  BY <1>1, <1>2 DEF Read, MutexTypeOK, Exclusion, Held, NoLostUpdate, SleepersCovered
<1>3. CASE Write(t)
  <2>1. value' = value + 1 /\ writes' = writes + 1 /\ local' = [local EXCEPT ![t] = {}]
    BY <1>3 DEF Write, NoLostUpdate
  <2>2. UNCHANGED <<owner, depth, lock_pc, guards, calls>>
    BY <1>3 DEF Write
  <2>3. NoLostUpdate' /\ Held'
    BY <1>1, <2>1, <2>2 DEF MutexTypeOK, NoLostUpdate, Held
  <2> QED
    BY <2>1, <2>2, <2>3 DEF MutexTypeOK, Exclusion, SleepersCovered
<1> QED
  BY <1>2, <1>3

(* Every step of a thread keeps the mutex sound.                            *)
LEMMA MutexSteps ==
    ASSUME MutexInv, [MutexNext]_mutex_vars
    PROVE  MutexInv'
<1>1. ASSUME NEW t \in MutexThread, Lock(t) PROVE MutexInv'
  <2>1. calls' \in 0 .. MaxCalls
    BY <1>1, MutexAssumption DEF Lock, MutexInv, MutexTypeOK
  <2> QED
    BY <1>1, <2>1, LockBodySound DEF Lock
<1>2. ASSUME NEW t \in MutexThread, LockResumes(t) PROVE MutexInv'
  <2>1. calls' \in 0 .. MaxCalls
    BY <1>2 DEF LockResumes, MutexInv, MutexTypeOK
  <2> QED
    BY <1>2, <2>1, LockBodySound DEF LockResumes
<1>3. ASSUME NEW t \in MutexThread, LockSpurious(t) PROVE MutexInv'
  BY <1>3 DEF LockSpurious, MutexInv, MutexSound, MutexTypeOK, Exclusion, Held, NoLostUpdate, SleepersCovered
<1>4. ASSUME NEW t \in MutexThread, Unlock(t) PROVE MutexInv'
  BY <1>4, UnlockSound
<1>5. ASSUME NEW t \in MutexThread, Read(t) \/ Write(t) PROVE MutexInv'
  BY <1>5, AccessSound
<1>6. CASE UNCHANGED mutex_vars
  BY <1>6 DEF mutex_vars, MutexInv, MutexSound, MutexTypeOK, Exclusion, Held, NoLostUpdate, SleepersCovered
<1> QED
  BY <1>1, <1>2, <1>3, <1>4, <1>5, <1>6 DEF MutexNext

(* For any number of threads and any recursion limit: only the owner has    *)
(* guards, no increment made under the mutex is lost, and no thread sleeps  *)
(* on a mutex that nobody owns and nobody was woken for.                    *)
THEOREM MutexCorrect == MutexSpec => []MutexSound
<1>1. MutexInit => MutexInv
  BY MutexInitially
<1>2. MutexInv /\ [MutexNext]_mutex_vars => MutexInv'
  BY MutexSteps
<1>3. MutexInv => MutexSound
  BY DEF MutexInv
<1> QED
  BY <1>1, <1>2, <1>3, PTL DEF MutexSpec

-----------------------------------------------------------------------------
(* Atomic integers *)

(* A pending add has seen the value it read last, and sees the cell now.    *)
Seen ==
    \A t \in AtomicThread : call[t] # Idle => call[t].current \in held[t] /\ cell \in held[t]

AtomicInv == AtomicTypeOK /\ AtomicSound /\ Seen

(* Of a pending add the operands are in the word.                           *)
LEMMA PendingType ==
    ASSUME AtomicTypeOK, NEW t \in AtomicThread, Pending(t)
    PROVE  /\ call[t].field \in Field /\ call[t].delta \in Delta
           /\ call[t].current \in Range64
           /\ call[t] \in [field : Field, delta : Delta, current : Range64]
  BY DEF AtomicTypeOK, Pending, Idle

(* A change of the cell to v, recorded as entry e, that starts from what    *)
(* the change before it left.                                               *)
LEMMA Changed ==
    ASSUME AtomicTypeOK, Linearizable,
           NEW e \in Added \union Stored,
           e.kind = "add" => e.previous = cell,
           log' = Append(log, e), cell' = e.next
    PROVE  Linearizable' /\ log' \in Seq(Added \union Stored)
<1> DEFINE S == Added \union Stored
<1>1. log \in Seq(S)
  BY DEF AtomicTypeOK
<1>2. /\ log' \in Seq(S) /\ Len(log') = Len(log) + 1 /\ Len(log) \in Nat /\ log'[Len(log')] = e
      /\ \A i \in 1 .. Len(log) : log'[i] = log[i]
  BY <1>1, AppendProperties
<1>3. log' # <<>> /\ (log = <<>> <=> Len(log) = 0)
  BY <1>1, <1>2, EmptySeq
<1>4. cell' = (IF log' = <<>> THEN 0 ELSE log'[Len(log')].next)
  BY <1>2, <1>3
<1>5. ASSUME NEW i \in 1 .. Len(log'), log'[i].kind = "add"
      PROVE  log'[i].previous = (IF i = 1 THEN 0 ELSE log'[i - 1].next)
  <2>1. CASE i = Len(log')
    <3>1. log'[i].previous = cell
      BY <1>2, <1>5, <2>1
    <3>2. cell = (IF log = <<>> THEN 0 ELSE log[Len(log)].next)
      BY DEF Linearizable
    <3> QED
      BY <1>2, <1>3, <2>1, <3>1, <3>2
  <2>2. CASE i # Len(log')
    <3>1. i \in 1 .. Len(log) /\ (i # 1 => i - 1 \in 1 .. Len(log))
      BY <1>2, <2>2
    <3>2. log[i].previous = (IF i = 1 THEN 0 ELSE log[i - 1].next)
      BY <1>2, <1>5, <3>1 DEF Linearizable
    <3> QED
      BY <1>2, <3>1, <3>2
  <2> QED
    BY <2>1, <2>2
<1> QED
  BY <1>2, <1>4, <1>5 DEF Linearizable

(* A new cell has no change in its log.                                     *)
LEMMA AtomicInitially ==
    ASSUME AtomicInit
    PROVE  AtomicInv
<1> USE AtomicAssumption DEF AtomicInit
<1>1. AtomicTypeOK
  BY DEF AtomicTypeOK, Range64
<1>2. AtomicSound
  BY DEF AtomicSound, Linearizable, OverflowJustified
<1> QED
  BY <1>1, <1>2 DEF AtomicInv, Seen

(* A store, or an exchange that found the value its sum was made from.      *)
LEMMA SetSound ==
    ASSUME AtomicInv, NEW t \in AtomicThread,
           (\E v \in Range64 : Store(t, v)) \/ Exchange(t)
    PROVE  AtomicInv'
<1> DEFINE Pendings == [field : Field, delta : Delta, current : Range64]
<1>0. AtomicTypeOK /\ Linearizable /\ OverflowJustified /\ Seen
  BY DEF AtomicInv, AtomicSound
<1>1. PICK e \in Added \union Stored :
        /\ log' = Append(log, e) /\ e.next \in Range64
        /\ e.kind = "add" => e.previous = cell
        /\ Set(e.next)
        /\ \A u \in AtomicThread : call'[u] = call[u] \/ call'[u] = Idle
        /\ call' \in [AtomicThread -> {Idle} \union Pendings]
        /\ refused' = refused
  <2>1. CASE Exchange(t)
    <3> DEFINE n == Next64(t)
               e == [kind |-> "add", field |-> call[t].field, previous |-> cell, next |-> n,
                     result |-> Result(call[t].field, cell, n)]
    <3>1. /\ Pending(t) /\ n \in Range64 /\ log' = Append(log, e)
          /\ Set(n) /\ call' = [call EXCEPT ![t] = Idle] /\ refused' = refused
      BY <2>1 DEF Exchange
    <3>2. call[t].field \in Field /\ cell \in Range64
      BY <1>0, <3>1, PendingType DEF AtomicTypeOK
    <3> HIDE DEF n
    <3>3. e \in Added
      BY <3>1, <3>2 DEF Added, Result
    <3>4. call \in [AtomicThread -> {Idle} \union Pendings]
      BY <1>0 DEF AtomicTypeOK
    <3>5. /\ \A u \in AtomicThread : call'[u] = call[u] \/ call'[u] = Idle
          /\ call' \in [AtomicThread -> {Idle} \union Pendings]
      BY <3>1, <3>4
    <3> QED
      BY <3>1, <3>3, <3>5
  <2>2. CASE \E v \in Range64 : Store(t, v)
    <3>1. PICK v \in Range64 : Store(t, v)
      BY <2>2
    <3> DEFINE e == [kind |-> "store", next |-> v]
    <3>2. log' = Append(log, e) /\ Set(v) /\ call' = call /\ refused' = refused
      BY <3>1 DEF Store
    <3>3. e \in Stored /\ e.next = v /\ e.kind # "add"
      BY DEF Stored
    <3>4. call' \in [AtomicThread -> {Idle} \union Pendings]
      BY <1>0, <3>2 DEF AtomicTypeOK
    <3> QED
      BY <3>2, <3>3, <3>4
  <2> QED
    BY <2>1, <2>2
<1>2. /\ cell' = e.next
      /\ held' = [u \in AtomicThread |-> IF call'[u] = Idle THEN {} ELSE held[u] \union {e.next}]
  BY <1>1 DEF Set
<1>3. Linearizable' /\ log' \in Seq(Added \union Stored)
  BY <1>0, <1>1, <1>2, Changed
<1>4. OverflowJustified'
  BY <1>0, <1>1 DEF OverflowJustified
<1>5. held' \in [AtomicThread -> SUBSET Range64]
  BY <1>0, <1>1, <1>2 DEF AtomicTypeOK
<1>6. AtomicTypeOK'
  BY <1>0, <1>1, <1>2, <1>3, <1>5 DEF AtomicTypeOK
<1>7. Seen'
  BY <1>0, <1>1, <1>2 DEF Seen, AtomicTypeOK
<1> QED
  BY <1>3, <1>4, <1>6, <1>7 DEF AtomicInv, AtomicSound

(* The load that opens an add, and a failed exchange that reloads.          *)
LEMMA LoadSound ==
    ASSUME AtomicInv, NEW t \in AtomicThread,
           (\E f \in Field, d \in Delta : BeginAdd(t, f, d)) \/ Retry(t)
    PROVE  AtomicInv'
<1>0. AtomicTypeOK /\ Linearizable /\ OverflowJustified /\ Seen
  BY DEF AtomicInv, AtomicSound
<1>1. UNCHANGED <<cell, log, refused>>
  BY DEF BeginAdd, Retry
<1>2. Linearizable' /\ OverflowJustified'
  BY <1>0, <1>1 DEF Linearizable, OverflowJustified
<1>3. ASSUME NEW f \in Field, NEW d \in Delta, BeginAdd(t, f, d)
      PROVE  AtomicTypeOK' /\ Seen'
  <2>1. /\ call' = [call EXCEPT ![t] = [field |-> f, delta |-> d, current |-> cell]]
        /\ held' = [held EXCEPT ![t] = {cell}]
    BY <1>3 DEF BeginAdd
  <2>2. AtomicTypeOK'
    BY <1>0, <1>1, <2>1 DEF AtomicTypeOK
  <2>3. Seen'
    BY <1>0, <1>1, <2>1 DEF AtomicTypeOK, Seen
  <2> QED
    BY <2>2, <2>3
<1>4. ASSUME Retry(t) PROVE AtomicTypeOK' /\ Seen'
  <2>1. call' = [call EXCEPT ![t].current = cell] /\ held' = held /\ Pending(t)
    BY <1>4 DEF Retry
  <2>2. call[t] \in [field : Field, delta : Delta, current : Range64]
    BY <1>0, <2>1, PendingType
  <2>3. AtomicTypeOK'
    BY <1>0, <1>1, <2>1, <2>2 DEF AtomicTypeOK
  <2>4. Seen'
    BY <1>0, <1>1, <2>1, <2>2 DEF AtomicTypeOK, Seen, Pending
  <2> QED
    BY <2>3, <2>4
<1> QED
  BY <1>2, <1>3, <1>4 DEF AtomicInv, AtomicSound

(* The reported overflow: the value the sum was made from was in the cell.  *)
LEMMA OverflowSound ==
    ASSUME AtomicInv, NEW t \in AtomicThread, Overflow(t)
    PROVE  AtomicInv'
<1>0. AtomicTypeOK /\ Linearizable /\ OverflowJustified /\ Seen
  BY DEF AtomicInv, AtomicSound
<1> DEFINE r == [delta |-> call[t].delta, over |-> held[t]]
<1>1. /\ Pending(t) /\ call[t].current + call[t].delta \notin Range64
      /\ refused' = refused \union {r} /\ call' = [call EXCEPT ![t] = Idle]
      /\ held' = [held EXCEPT ![t] = {}] /\ UNCHANGED <<cell, log>>
  BY DEF Overflow, Next64
<1>2. Linearizable'
  BY <1>0, <1>1 DEF Linearizable
<1>3. OverflowJustified'
  <2>1. call[t].current \in r.over /\ call[t].current + r.delta \notin Range64
    BY <1>0, <1>1 DEF Seen, Pending
  <2> QED
    BY <1>0, <1>1, <2>1 DEF OverflowJustified
<1>4. AtomicTypeOK'
  <2>1. r \in RefusedAdd
    BY SMTT(30), <1>0, <1>1, PendingType DEF AtomicTypeOK, RefusedAdd
  <2> QED
    BY <1>0, <1>1, <2>1 DEF AtomicTypeOK
<1>5. Seen'
  BY <1>0, <1>1 DEF AtomicTypeOK, Seen
<1> QED
  BY <1>2, <1>3, <1>4, <1>5 DEF AtomicInv, AtomicSound

(* Every operation on the cell keeps it sound.                              *)
LEMMA AtomicSteps ==
    ASSUME AtomicInv, [AtomicNext]_atomic_vars
    PROVE  AtomicInv'
<1>1. CASE AtomicNext
  BY <1>1, SetSound, LoadSound, OverflowSound DEF AtomicNext
<1>2. CASE UNCHANGED atomic_vars
  BY <1>2 DEF atomic_vars, AtomicInv, AtomicSound, AtomicTypeOK, Linearizable,
              OverflowJustified, Seen
<1> QED
  BY <1>1, <1>2

(* For any number of threads and any width of the word: the changes of the  *)
(* cell are linearly ordered with every add starting from what the change   *)
(* before it left, and an overflow is only reported for a value the cell    *)
(* had during that very call.                                               *)
THEOREM AtomicCorrect == AtomicSpec => []AtomicSound
<1>1. AtomicInit => AtomicInv
  BY AtomicInitially
<1>2. AtomicInv /\ [AtomicNext]_atomic_vars => AtomicInv'
  BY AtomicSteps
<1>3. AtomicInv => AtomicSound
  BY DEF AtomicInv
<1> QED
  BY <1>1, <1>2, <1>3, PTL DEF AtomicSpec

-----------------------------------------------------------------------------
(* Channels *)


(* The threads of p that are at a place, and how many they are.             *)
Those(p, place) == {t \in Thread : p[t] = place}
Count(p, place) == Cardinality(Those(p, place))

(* A thread inside send or receive borrows a handle.                        *)
HoldersActive == \A t \in Thread : pc[t] # "idle" => t \in holders

IInv ==
    /\ TypeOK
    /\ HoldersActive
    /\ Fifo
    /\ NoLostWakeup
    /\ PermitReleased

(* What an accepted and a received value do to the two histories.           *)
LEMMA Accepted ==
    ASSUME NEW S, NEW g \in Seq(S), NEW q \in Seq(S), NEW v \in S
    PROVE  g \o Append(q, v) = Append(g \o q, v)
<1>1. g \o q \in Seq(S) /\ <<v>> \in Seq(S)
  BY ConcatProperties
<1>2. Append(g \o q, v) = (g \o q) \o <<v>>
  BY <1>1, AppendIsConcat
<1>3. Append(q, v) = q \o <<v>>
  BY AppendIsConcat
<1>4. (g \o q) \o <<v>> = g \o (q \o <<v>>)
  BY <1>1, ConcatAssociative
<1>5. QED
  BY <1>2, <1>3, <1>4

(* Moving the head of the queue to the received values keeps their order.   *)
LEMMA Delivered ==
    ASSUME NEW S, NEW g \in Seq(S), NEW q \in Seq(S), q # <<>>
    PROVE  /\ Append(g, Head(q)) \o Tail(q) = g \o q
           /\ Head(q) \in S /\ Tail(q) \in Seq(S) /\ Len(Tail(q)) = Len(q) - 1
           /\ Append(g, Head(q)) \in Seq(S)
<1>1. Head(q) \in S /\ Tail(q) \in Seq(S) /\ Len(Tail(q)) = Len(q) - 1
  BY HeadTailProperties
<1>2. q = <<Head(q)>> \o Tail(q)
  <2>1. /\ Len(<<Head(q)>> \o Tail(q)) = Len(q)
        /\ <<Head(q)>> \o Tail(q) \in Seq(S)
    BY <1>1
  <2>2. \A i \in 1 .. Len(q) : (<<Head(q)>> \o Tail(q))[i] = q[i]
    BY <1>1
  <2>3. QED
    BY <2>1, <2>2, SeqEqual
<1>3. Append(g, Head(q)) = g \o <<Head(q)>> /\ <<Head(q)>> \in Seq(S)
  BY <1>1, AppendIsConcat
<1>4. (g \o <<Head(q)>>) \o Tail(q) = g \o (<<Head(q)>> \o Tail(q))
  BY <1>1, <1>3, ConcatAssociative
<1>5. Append(g, Head(q)) \in Seq(S)
  BY <1>1, AppendProperties
<1>6. QED
  BY <1>1, <1>2, <1>3, <1>4, <1>5

(* A place is held by finitely many threads.                                *)
LEMMA CountType ==
    ASSUME NEW p, NEW place
    PROVE  /\ IsFiniteSet(Those(p, place))
           /\ Count(p, place) \in Nat
<1>1. IsFiniteSet(Those(p, place))
  BY FS_Subset, ChannelAssumption DEF Those
<1>2. QED
  BY <1>1, FS_CardinalityType DEF Count

(* A thread that moves to another place adds one there, takes one away      *)
(* where it was, and changes no third place.                                *)
LEMMA Moved ==
    ASSUME NEW p \in [Thread -> Place], NEW t \in Thread, NEW to \in Place,
           p[t] # to,
           NEW q \in [Thread -> Place], q[t] = to,
           \A u \in Thread : u # t => q[u] = p[u]
    PROVE  /\ Those(q, to) = Those(p, to) \union {t}
           /\ Those(q, p[t]) = Those(p, p[t]) \ {t}
           /\ Count(q, to) = Count(p, to) + 1
           /\ Count(q, p[t]) = Count(p, p[t]) - 1
           /\ \A place : place # to /\ place # p[t] =>
                 Those(q, place) = Those(p, place)
<1>2. Those(q, to) = Those(p, to) \union {t}
  BY DEF Those
<1>3. Those(q, p[t]) = Those(p, p[t]) \ {t}
  BY DEF Those
<1>4. \A place : place # to /\ place # p[t] => Those(q, place) = Those(p, place)
  BY DEF Those
<1>5. Count(q, to) = Count(p, to) + 1
  <2>1. t \notin Those(p, to)
    BY DEF Those
  <2>2. QED
    BY ZenonT(30), <1>2, <2>1, FS_AddElement, CountType DEF Count
<1>6. Count(q, p[t]) = Count(p, p[t]) - 1
  <2>1. t \in Those(p, p[t])
    BY DEF Those
  <2>2. QED
    BY ZenonT(30), <1>3, <2>1, FS_RemoveElement, CountType DEF Count
<1>7. QED
  BY <1>2, <1>3, <1>4, <1>5, <1>6

(* notify_one changes nothing when nobody sleeps, and otherwise turns one   *)
(* sleeper into a woken thread.                                             *)
LEMMA Notified ==
    ASSUME NEW p \in [Thread -> Place], NEW from \in Place, NEW to \in Place,
           from # to,
           NEW q \in NotifyOne(p, from, to)
    PROVE  /\ q \in [Thread -> Place]
           /\ \A place : place # from /\ place # to =>
                 Those(q, place) = Those(p, place)
           /\ \/ Those(p, from) = {} /\ q = p
              \/ /\ Count(q, to) = Count(p, to) + 1
                 /\ Those(q, from) \subseteq Those(p, from)
           /\ \A t \in Thread : q[t] = p[t] \/ (p[t] = from /\ q[t] = to)
<1>1. CASE Those(p, from) = {}
  <2>1. q = p
    BY <1>1 DEF NotifyOne, Those
  <2>2. QED
    BY <1>1, <2>1
<1>2. CASE Those(p, from) # {}
  <2>1. PICK t \in Thread : p[t] = from /\ q = [p EXCEPT ![t] = to]
    BY <1>2 DEF NotifyOne, Those
  <2>0. p[t] # to
    BY <2>1
  <2>q. /\ q \in [Thread -> Place]
        /\ q[t] = to
        /\ \A u \in Thread : u # t => q[u] = p[u]
    BY <2>1
  <2>2. /\ \A place : place # to /\ place # p[t] => Those(q, place) = Those(p, place)
        /\ Count(q, to) = Count(p, to) + 1
        /\ Those(q, p[t]) = Those(p, p[t]) \ {t}
    BY <2>0, <2>q, Moved
  <2>3. \A u \in Thread : q[u] = p[u] \/ (p[u] = from /\ q[u] = to)
    BY <2>1
  <2>4. QED
    BY Zenon, <2>1, <2>q, <2>2, <2>3
<1>3. QED
  BY <1>1, <1>2

(* The sets of sleeping and woken threads are those of pc.                  *)
LEMMA AtThose == \A place : At(place) = Those(pc, place)
  BY DEF At, Those

(* The same after a step.                                                   *)
LEMMA AtThosePrime == \A place : At(place)' = Those(pc', place)
  BY DEF At, Those

(* A new channel satisfies the invariant.                                   *)
LEMMA InitIInv == Init => IInv
<1>1. SUFFICES ASSUME Init PROVE IInv
  OBVIOUS
<1>2. TypeOK
  <2>1. arg \in [Thread -> Value] /\ pc \in [Thread -> Place] /\ holders \subseteq Thread
    BY <1>1 DEF Init, Place
  <2>2. Len(values) <= capacity
    BY <1>1, ChannelAssumption DEF Init
  <2>3. /\ values \in Seq(Value) /\ sent \in Seq(Value) /\ got \in Seq(Value)
    BY <1>1 DEF Init
  <2>4. closed = FALSE /\ live = 1 /\ capacity \in 1 .. MaxCapacity
    BY <1>1, Zenon DEF Init
  <2>5. live \in 0 .. 1
    BY <2>4
  <2>6. closed \in BOOLEAN
    BY Zenon, <2>4
  <2>7. QED
    BY <2>1, <2>2, <2>3, <2>4, <2>5, <2>6, Zenon DEF TypeOK
<1>3. HoldersActive
  BY <1>1 DEF Init, HoldersActive
<1>4. Fifo
  BY <1>1 DEF Init, Fifo
<1>5. NoLostWakeup
  BY <1>1 DEF Init, NoLostWakeup, At
<1>6. PermitReleased
  BY <1>1 DEF Init, PermitReleased
<1>7. QED
  BY <1>2, <1>3, <1>4, <1>5, <1>6 DEF IInv

(* The steps that enter or leave a wait and the calls that return at once   *)
(* all move one thread, and then notify at most one other.                  *)
LEMMA SendIInv ==
    ASSUME IInv, NEW t \in Thread, NEW v \in Value, SendBody(t, v),
           t \in holders, pc[t] \in {"idle", "send"}
    PROVE  IInv'
<1>0. TypeOK /\ HoldersActive /\ Fifo /\ NoLostWakeup /\ PermitReleased
  BY DEF IInv
<1>1. /\ capacity' = capacity /\ closed' = closed /\ live' = live
      /\ holders' = holders /\ got' = got
  BY DEF SendBody
<1>2. PermitReleased'
  BY <1>0, <1>1 DEF PermitReleased
<1>3. CASE /\ Len(values) = capacity
           /\ ~closed
           /\ pc' = [pc EXCEPT ![t] = "full"]
           /\ arg' = [arg EXCEPT ![t] = v]
           /\ UNCHANGED <<values, sent>>
  <2>1. pc' \in [Thread -> Place] /\ arg' \in [Thread -> Value]
    BY <1>0, <1>3 DEF TypeOK, Place
  <2>2. TypeOK'
    BY <1>0, <1>1, <1>3, <2>1 DEF TypeOK
  <2>3. HoldersActive'
    BY <1>0, <1>1, <1>3 DEF HoldersActive, TypeOK
  <2>4. Fifo'
    BY <1>0, <1>1, <1>3 DEF Fifo
  <2>5. NoLostWakeup'
    <3>1. At("empty")' = At("empty") /\ At("receive")' = At("receive")
      BY <1>0, <1>3 DEF At, TypeOK
    <3>2. At("send")' = Those(pc', "send") /\ Cardinality(At("send")') \in Nat
      BY AtThosePrime, CountType DEF Count
    <3>3. capacity' - Len(values') = 0
      BY <1>0, <1>1, <1>3 DEF TypeOK
    <3>4. QED
      BY <1>0, <1>1, <1>3, <3>1, <3>2, <3>3 DEF NoLostWakeup
  <2>6. QED
    BY <1>2, <2>2, <2>3, <2>4, <2>5 DEF IInv
<1>4. CASE /\ closed
           /\ pc' = [pc EXCEPT ![t] = "idle"]
           /\ UNCHANGED <<values, sent, arg>>
  <2>1. pc' \in [Thread -> Place]
    BY SMTT(30), <1>0, <1>4 DEF TypeOK, Place
  <2>2. TypeOK'
    BY <1>0, <1>1, <1>4, <2>1 DEF TypeOK
  <2>3. HoldersActive'
    BY <1>0, <1>1, <1>4 DEF HoldersActive, TypeOK
  <2>4. Fifo'
    BY <1>0, <1>1, <1>4 DEF Fifo
  <2>5. NoLostWakeup'
    <3>1. At("full")' = {} /\ At("empty")' = {}
      BY <1>0, <1>4 DEF At, TypeOK, NoLostWakeup
    <3>2. QED
      BY <3>1 DEF NoLostWakeup
  <2>6. QED
    BY <1>2, <2>2, <2>3, <2>4, <2>5 DEF IInv
<1>5. CASE /\ Len(values) < capacity
           /\ ~closed
           /\ values' = Append(values, v)
           /\ sent' = Append(sent, v)
           /\ pc' \in NotifyOne([pc EXCEPT ![t] = "idle"], "empty", "receive")
           /\ UNCHANGED arg
  <2> DEFINE p == [pc EXCEPT ![t] = "idle"]
  <2>0. p \in [Thread -> Place] /\ pc \in [Thread -> Place]
    BY <1>0 DEF TypeOK, Place
  <2>1. /\ pc' \in [Thread -> Place]
        /\ \A place : place # "empty" /\ place # "receive" =>
              Those(pc', place) = Those(p, place)
        /\ \/ Those(p, "empty") = {} /\ pc' = p
           \/ /\ Count(pc', "receive") = Count(p, "receive") + 1
              /\ Those(pc', "empty") \subseteq Those(p, "empty")
        /\ \A u \in Thread : pc'[u] = p[u] \/ (p[u] = "empty" /\ pc'[u] = "receive")
    <3> HIDE DEF p
    <3>1. "empty" \in Place /\ "receive" \in Place /\ "empty" # "receive"
      BY DEF Place
    <3>2. pc' \in NotifyOne(p, "empty", "receive")
      BY <1>5 DEF p
    <3>3. QED
      BY <2>0, <3>1, <3>2, Notified
  <2>2. /\ values' \in Seq(Value) /\ Len(values') = Len(values) + 1
        /\ sent' \in Seq(Value)
    BY <1>0, <1>5 DEF TypeOK
  <2>3. TypeOK'
    BY SMTT(30), <1>0, <1>1, <1>5, <2>1, <2>2 DEF TypeOK
  <2>4. HoldersActive'
    BY <1>0, <1>1, <2>0, <2>1 DEF HoldersActive
  <2>5. Fifo'
    <3>1. sent = got \o values
      BY <1>0 DEF Fifo
    <3>2. Append(got \o values, v) = got \o Append(values, v)
      <4>1. got \in Seq(Value) /\ values \in Seq(Value) /\ v \in Value
        BY <1>0 DEF TypeOK
      <4>2. \A g, q \in Seq(Value) : g \o Append(q, v) = Append(g \o q, v)
        BY Accepted
      <4>3. QED
        BY Zenon, <4>1, <4>2
    <3>3. QED
      BY <1>1, <1>5, <3>1, <3>2 DEF Fifo
  <2>6. NoLostWakeup'
    <3>1. /\ Those(p, "empty") = Those(pc, "empty")
          /\ Those(p, "receive") = Those(pc, "receive")
          /\ Those(p, "full") = Those(pc, "full")
      BY <2>0 DEF Those
    <3>2. At("empty")' # {} => Len(values') <= Cardinality(At("receive")')
      <4>1. CASE Those(p, "empty") = {} /\ pc' = p
        BY Zenon, <4>1, AtThosePrime
      <4>2. CASE /\ Count(pc', "receive") = Count(p, "receive") + 1
                 /\ Those(pc', "empty") \subseteq Those(p, "empty")
        <5>1. Those(pc', "empty") # {} => Len(values) <= Count(pc, "receive")
          BY Zenon, <1>0, <3>1, <4>2, AtThose DEF NoLostWakeup, Count
        <5>2. Count(pc', "receive") = Count(pc, "receive") + 1
          BY <3>1, <4>2 DEF Count
        <5>3. Count(pc, "receive") \in Nat /\ Len(values) \in Nat
          BY <1>0, CountType DEF TypeOK
        <5>4. QED
          BY <2>2, <5>1, <5>2, <5>3, AtThosePrime DEF Count
      <4>3. QED
        BY Zenon, <2>1, <4>1, <4>2
    <3>3. At("full")' # {} => capacity' - Len(values') <= Cardinality(At("send")')
      <4>1. Those(pc', "full") = Those(pc, "full") /\ Those(pc', "send") = Those(p, "send")
        BY Zenon, <2>1, <3>1
      <4>2. Count(p, "send") \in {Count(pc, "send"), Count(pc, "send") - 1}
        <5>1. CASE pc[t] = "idle"
          <6>1. p = pc
            BY <2>0, <5>1
          <6>2. QED
            BY <6>1
        <5>2. CASE pc[t] = "send"
          <6>1. /\ "idle" \in Place /\ pc[t] # "idle" /\ p[t] = "idle"
                /\ \A u \in Thread : u # t => p[u] = pc[u]
            BY <2>0, <5>2 DEF Place
          <6>2. Count(p, pc[t]) = Count(pc, pc[t]) - 1
            <7> HIDE DEF p
            <7>1. QED
              BY <2>0, <6>1, Moved
          <6>3. QED
            BY <5>2, <6>2
        <5>3. QED
          BY <5>1, <5>2
      <4>3. Count(pc, "send") \in Nat /\ Len(values) \in Nat /\ capacity \in Nat
        BY <1>0, CountType DEF TypeOK
      <4>4. Those(pc, "full") # {} => capacity - Len(values) <= Count(pc, "send")
        BY <1>0, AtThose DEF NoLostWakeup, Count
      <4>5. Those(pc', "full") # {} => capacity' - Len(values') <= Count(pc', "send")
        <5>1. Count(pc', "send") = Count(p, "send")
          BY <4>1 DEF Count
        <5>2. QED
          BY <1>1, <2>2, <4>1, <4>2, <4>3, <4>4, <5>1
      <4>6. QED
        BY <4>5, AtThosePrime DEF Count
    <3>4. QED
      BY <1>1, <1>5, <3>2, <3>3 DEF NoLostWakeup
  <2>7. QED
    BY <1>2, <2>3, <2>4, <2>5, <2>6 DEF IInv
<1>6. QED
  BY <1>3, <1>4, <1>5 DEF SendBody

(* A receive keeps the invariant: it takes the oldest value, or sleeps.     *)
LEMMA ReceiveIInv ==
    ASSUME IInv, NEW t \in Thread, ReceiveBody(t),
           t \in holders, pc[t] \in {"idle", "receive"}
    PROVE  IInv'
<1>0. TypeOK /\ HoldersActive /\ Fifo /\ NoLostWakeup /\ PermitReleased
  BY DEF IInv
<1>1. /\ capacity' = capacity /\ closed' = closed /\ live' = live
      /\ holders' = holders /\ sent' = sent /\ arg' = arg
  BY DEF ReceiveBody
<1>2. PermitReleased'
  BY <1>0, <1>1 DEF PermitReleased
<1>3. CASE /\ values = <<>>
           /\ ~closed
           /\ pc' = [pc EXCEPT ![t] = "empty"]
           /\ UNCHANGED <<values, got>>
  <2>1. pc' \in [Thread -> Place]
    BY <1>0, <1>3 DEF TypeOK, Place
  <2>2. TypeOK'
    BY <1>0, <1>1, <1>3, <2>1 DEF TypeOK
  <2>3. HoldersActive'
    BY <1>0, <1>1, <1>3 DEF HoldersActive, TypeOK
  <2>4. Fifo'
    BY <1>0, <1>1, <1>3 DEF Fifo
  <2>5. NoLostWakeup'
    <3>1. At("full")' = At("full") /\ At("send")' = At("send")
      BY <1>0, <1>3 DEF At, TypeOK
    <3>2. Cardinality(At("receive")') \in Nat
      BY AtThosePrime, CountType DEF Count
    <3>3. Len(values') = 0
      BY <1>3
    <3>4. QED
      BY <1>0, <1>1, <1>3, <3>1, <3>2, <3>3 DEF NoLostWakeup
  <2>6. QED
    BY <1>2, <2>2, <2>3, <2>4, <2>5 DEF IInv
<1>4. CASE /\ values = <<>>
           /\ closed
           /\ pc' = [pc EXCEPT ![t] = "idle"]
           /\ UNCHANGED <<values, got>>
  <2>1. pc' \in [Thread -> Place]
    BY <1>0, <1>4 DEF TypeOK, Place
  <2>2. TypeOK'
    BY SMTT(30), <1>0, <1>1, <1>4, <2>1 DEF TypeOK
  <2>3. HoldersActive'
    BY <1>0, <1>1, <1>4 DEF HoldersActive, TypeOK
  <2>4. Fifo'
    BY <1>0, <1>1, <1>4 DEF Fifo
  <2>5. NoLostWakeup'
    <3>1. At("full")' = {} /\ At("empty")' = {}
      BY <1>0, <1>4 DEF At, TypeOK, NoLostWakeup
    <3>2. QED
      BY <3>1 DEF NoLostWakeup
  <2>6. QED
    BY <1>2, <2>2, <2>3, <2>4, <2>5 DEF IInv
<1>5. CASE /\ values # <<>>
           /\ values' = Tail(values)
           /\ got' = Append(got, Head(values))
           /\ pc' \in NotifyOne([pc EXCEPT ![t] = "idle"], "full", "send")
  <2> DEFINE p == [pc EXCEPT ![t] = "idle"]
  <2>0. p \in [Thread -> Place] /\ pc \in [Thread -> Place]
    BY <1>0 DEF TypeOK, Place
  <2>1. /\ pc' \in [Thread -> Place]
        /\ \A place : place # "full" /\ place # "send" =>
              Those(pc', place) = Those(p, place)
        /\ \/ Those(p, "full") = {} /\ pc' = p
           \/ /\ Count(pc', "send") = Count(p, "send") + 1
              /\ Those(pc', "full") \subseteq Those(p, "full")
        /\ \A u \in Thread : pc'[u] = p[u] \/ (p[u] = "full" /\ pc'[u] = "send")
    <3> HIDE DEF p
    <3>1. "full" \in Place /\ "send" \in Place /\ "full" # "send"
      BY DEF Place
    <3>2. pc' \in NotifyOne(p, "full", "send")
      BY <1>5 DEF p
    <3>3. QED
      BY <2>0, <3>1, <3>2, Notified
  <2>2. /\ values' \in Seq(Value) /\ Len(values') = Len(values) - 1
        /\ got' \in Seq(Value)
        /\ got' \o values' = got \o values
    <3>1. got \in Seq(Value) /\ values \in Seq(Value)
      BY <1>0 DEF TypeOK
    <3>2. QED
      BY SMTT(30), <1>5, <3>1, Delivered
  <2>3. TypeOK'
    BY SMTT(30), <1>0, <1>1, <2>1, <2>2 DEF TypeOK
  <2>4. HoldersActive'
    BY <1>0, <1>1, <2>0, <2>1 DEF HoldersActive
  <2>5. Fifo'
    BY <1>0, <1>1, <2>2 DEF Fifo
  <2>6. NoLostWakeup'
    <3>1. /\ Those(p, "full") = Those(pc, "full")
          /\ Those(p, "send") = Those(pc, "send")
          /\ Those(p, "empty") = Those(pc, "empty")
      BY <2>0 DEF Those
    <3>2. At("full")' # {} => capacity' - Len(values') <= Cardinality(At("send")')
      <4>1. CASE Those(p, "full") = {} /\ pc' = p
        BY Zenon, <4>1, AtThosePrime
      <4>2. CASE /\ Count(pc', "send") = Count(p, "send") + 1
                 /\ Those(pc', "full") \subseteq Those(p, "full")
        <5>1. Those(pc', "full") # {} => capacity - Len(values) <= Count(pc, "send")
          BY ZenonT(30), <1>0, <3>1, <4>2, AtThose DEF NoLostWakeup, Count
        <5>2. Count(pc', "send") = Count(pc, "send") + 1
          BY <3>1, <4>2 DEF Count
        <5>3. Count(pc, "send") \in Nat /\ Len(values) \in Nat /\ capacity \in Nat
          BY <1>0, CountType DEF TypeOK
        <5>4. QED
          BY <1>1, <2>2, <5>1, <5>2, <5>3, AtThosePrime DEF Count
      <4>3. QED
        BY Zenon, <2>1, <4>1, <4>2
    <3>3. At("empty")' # {} => Len(values') <= Cardinality(At("receive")')
      <4>1. Those(pc', "empty") = Those(pc, "empty") /\ Those(pc', "receive") = Those(p, "receive")
        BY Zenon, <2>1, <3>1
      <4>2. Count(p, "receive") \in {Count(pc, "receive"), Count(pc, "receive") - 1}
        <5>1. CASE pc[t] = "idle"
          <6>1. p = pc
            BY <2>0, <5>1
          <6>2. QED
            BY <6>1
        <5>2. CASE pc[t] = "receive"
          <6>1. /\ "idle" \in Place /\ pc[t] # "idle" /\ p[t] = "idle"
                /\ \A u \in Thread : u # t => p[u] = pc[u]
            BY <2>0, <5>2 DEF Place
          <6>2. Count(p, pc[t]) = Count(pc, pc[t]) - 1
            <7> HIDE DEF p
            <7>1. QED
              BY <2>0, <6>1, Moved
          <6>3. QED
            BY <5>2, <6>2
        <5>3. QED
          BY <5>1, <5>2
      <4>3. Count(pc, "receive") \in Nat /\ Len(values) \in Nat
        BY <1>0, CountType DEF TypeOK
      <4>4. Those(pc, "empty") # {} => Len(values) <= Count(pc, "receive")
        BY <1>0, AtThose DEF NoLostWakeup, Count
      <4>5. Those(pc', "empty") # {} => Len(values') <= Count(pc', "receive")
        <5>1. Count(pc', "receive") = Count(p, "receive")
          BY <4>1 DEF Count
        <5>2. QED
          BY <2>2, <4>1, <4>2, <4>3, <4>4, <5>1
      <4>6. QED
        BY <4>5, AtThosePrime DEF Count
    <3>4. closed' => At("full")' \union At("empty")' = {}
      <4>1. closed => Those(pc, "full") = {} /\ Those(pc, "empty") = {}
        BY <1>0, AtThose DEF NoLostWakeup
      <4>2. Those(pc', "empty") = Those(pc, "empty")
        BY <2>1, <3>1
      <4>3. Those(pc', "full") \subseteq Those(pc, "full")
        BY Zenon, <2>1, <3>1
      <4>4. QED
        BY <1>1, <4>1, <4>2, <4>3, AtThosePrime
    <3>5. QED
      BY <3>2, <3>3, <3>4 DEF NoLostWakeup
  <2>7. QED
    BY <1>2, <2>3, <2>4, <2>5, <2>6 DEF IInv
<1>6. QED
  BY <1>3, <1>4, <1>5 DEF ReceiveBody

(* The first close returns the slot; every close wakes all sleepers.        *)
LEMMA CloseIInv ==
    ASSUME IInv, NEW t \in Thread, Close(t)
    PROVE  IInv'
<1>0. TypeOK /\ HoldersActive /\ Fifo /\ NoLostWakeup /\ PermitReleased
  BY DEF IInv
<1>1. /\ t \in holders /\ closed' = TRUE /\ pc' = NotifyAll(pc)
      /\ live' = (IF closed THEN live ELSE 0)
      /\ UNCHANGED <<capacity, values, holders, arg, sent, got>>
  BY DEF Close
<1>2. pc' \in [Thread -> Place]
  BY <1>0, <1>1 DEF TypeOK, NotifyAll, Place
<1>3. live' = 0
  BY <1>0, <1>1 DEF PermitReleased
<1>4. TypeOK'
  <2>1. live' \in 0 .. 1
    BY <1>3
  <2>2. closed' \in BOOLEAN
    BY <1>1
  <2>3. QED
    BY <1>0, <1>1, <1>2, <2>1, <2>2 DEF TypeOK
<1>5. HoldersActive'
  BY <1>0, <1>1 DEF HoldersActive, NotifyAll, TypeOK
<1>6. Fifo'
  BY <1>0, <1>1 DEF Fifo
<1>7. NoLostWakeup'
  <2>1. At("full")' = {} /\ At("empty")' = {}
    BY <1>1 DEF At, NotifyAll
  <2>2. QED
    BY <2>1 DEF NoLostWakeup
<1>8. PermitReleased'
  BY <1>1, <1>3 DEF PermitReleased
<1>9. QED
  BY <1>4, <1>5, <1>6, <1>7, <1>8 DEF IInv

(* Sharing the channel adds a holder and nothing else.                      *)
LEMMA ShareIInv ==
    ASSUME IInv, NEW t \in Thread, NEW u \in Thread, Share(t, u)
    PROVE  IInv'
<1>0. TypeOK /\ HoldersActive /\ Fifo /\ NoLostWakeup /\ PermitReleased
  BY DEF IInv
<1>1. /\ t \in holders /\ holders' = holders \union {u}
      /\ UNCHANGED <<capacity, values, closed, live, pc, arg, sent, got>>
  BY DEF Share
<1>2. TypeOK'
  BY <1>0, <1>1 DEF TypeOK
<1>3. HoldersActive'
  BY <1>0, <1>1 DEF HoldersActive
<1>4. Fifo'
  BY <1>0, <1>1 DEF Fifo
<1>5. NoLostWakeup'
  BY <1>0, <1>1 DEF NoLostWakeup, At
<1>6. PermitReleased'
  BY SMTT(30), <1>0, <1>1 DEF PermitReleased
<1>7. QED
  BY <1>2, <1>3, <1>4, <1>5, <1>6 DEF IInv

(* Nobody sleeps on a channel whose last handle ends.                       *)
LEMMA DropIInv ==
    ASSUME IInv, NEW t \in Thread, Drop(t)
    PROVE  IInv'
<1>0. TypeOK /\ HoldersActive /\ Fifo /\ NoLostWakeup /\ PermitReleased
  BY DEF IInv
<1>1. /\ t \in holders /\ pc[t] = "idle" /\ holders' = holders \ {t}
      /\ values' = (IF holders' = {} THEN <<>> ELSE values)
      /\ live' = (IF holders' = {} THEN 0 ELSE live)
      /\ UNCHANGED <<capacity, closed, pc, arg, sent, got>>
  BY DEF Drop
<1>2. TypeOK'
  <2>1. CASE holders' = {}
    <3>1. values' = <<>> /\ live' = 0
      BY <1>1, <2>1
    <3>2. values' \in Seq(Value) /\ Len(values') <= capacity /\ live' \in 0 .. 1
      BY <1>0, <3>1 DEF TypeOK
    <3>3. QED
      BY <1>0, <1>1, <3>2 DEF TypeOK
  <2>2. CASE holders' # {}
    BY <1>0, <1>1, <2>2 DEF TypeOK
  <2>3. QED
    BY <2>1, <2>2
<1>3. HoldersActive'
  BY <1>0, <1>1 DEF HoldersActive
<1>4. Fifo'
  BY <1>0, <1>1 DEF Fifo
<1>5. NoLostWakeup'
  <2>1. CASE holders' = {}
    <3>1. \A u \in Thread : pc[u] = "idle"
      BY <1>0, <1>1, <2>1 DEF HoldersActive
    <3>2. At("full")' = {} /\ At("empty")' = {}
      BY <1>1, <3>1 DEF At
    <3>3. QED
      BY <3>2 DEF NoLostWakeup
  <2>2. CASE holders' # {}
    BY <1>0, <1>1, <2>2 DEF NoLostWakeup, At
  <2>3. QED
    BY <2>1, <2>2
<1>6. PermitReleased'
  BY <1>0, <1>1 DEF PermitReleased
<1>7. QED
  BY <1>2, <1>3, <1>4, <1>5, <1>6 DEF IInv

(* A spurious wakeup only adds a woken thread.                              *)
LEMMA SpuriousIInv ==
    ASSUME IInv, NEW t \in Thread, Spurious(t)
    PROVE  IInv'
<1>0. TypeOK /\ HoldersActive /\ Fifo /\ NoLostWakeup /\ PermitReleased
  BY DEF IInv
<1>1. UNCHANGED <<capacity, values, closed, live, holders, arg, sent, got>>
  BY DEF Spurious
<1>2. PICK to \in {"send", "receive"} :
         /\ pc[t] = (IF to = "send" THEN "full" ELSE "empty")
         /\ pc' = [pc EXCEPT ![t] = to]
  BY DEF Spurious
<1>3. /\ pc \in [Thread -> Place] /\ pc' \in [Thread -> Place]
      /\ to \in Place /\ pc[t] # to /\ pc'[t] = to
      /\ \A u \in Thread : u # t => pc'[u] = pc[u]
  BY <1>0, <1>2 DEF TypeOK, Place
<1>4. /\ Count(pc', to) = Count(pc, to) + 1
      /\ Those(pc', pc[t]) = Those(pc, pc[t]) \ {t}
      /\ \A place : place # to /\ place # pc[t] => Those(pc', place) = Those(pc, place)
  BY <1>3, Moved
<1>5. TypeOK'
  BY <1>0, <1>1, <1>3 DEF TypeOK
<1>6. HoldersActive'
  BY <1>0, <1>1, <1>2, <1>3 DEF HoldersActive
<1>7. Fifo'
  BY <1>0, <1>1 DEF Fifo
<1>8. NoLostWakeup'
  <2>1. /\ Those(pc', "full") \subseteq Those(pc, "full")
        /\ Those(pc', "empty") \subseteq Those(pc, "empty")
    BY Zenon, <1>2, <1>4
  <2>2. Count(pc', "send") >= Count(pc, "send") /\ Count(pc', "receive") >= Count(pc, "receive")
    <3>1. /\ Count(pc, "send") \in Nat /\ Count(pc, "receive") \in Nat
      BY CountType
    <3>2. CASE to = "send"
      <4>1. Those(pc', "receive") = Those(pc, "receive")
        BY Zenon, <1>2, <1>4, <3>2
      <4>2. QED
        BY <1>4, <3>1, <3>2, <4>1 DEF Count
    <3>3. CASE to = "receive"
      <4>1. Those(pc', "send") = Those(pc, "send")
        BY Zenon, <1>2, <1>4, <3>3
      <4>2. QED
        BY <1>4, <3>1, <3>3, <4>1 DEF Count
    <3>4. QED
      BY <3>2, <3>3
  <2>3. /\ Those(pc, "full") # {} => capacity - Len(values) <= Count(pc, "send")
        /\ Those(pc, "empty") # {} => Len(values) <= Count(pc, "receive")
        /\ closed => Those(pc, "full") = {} /\ Those(pc, "empty") = {}
    BY <1>0, AtThose DEF NoLostWakeup, Count
  <2>4. /\ Count(pc, "send") \in Nat /\ Count(pc, "receive") \in Nat
        /\ Count(pc', "send") \in Nat /\ Count(pc', "receive") \in Nat
        /\ capacity \in Nat /\ Len(values) \in Nat
    BY <1>0, CountType DEF TypeOK
  <2>5. /\ Those(pc', "full") # {} => capacity' - Len(values') <= Count(pc', "send")
        /\ Those(pc', "empty") # {} => Len(values') <= Count(pc', "receive")
        /\ closed' => Those(pc', "full") \union Those(pc', "empty") = {}
    BY <1>1, <2>1, <2>2, <2>3, <2>4
  <2>6. QED
    BY <2>5, AtThosePrime DEF NoLostWakeup, Count
<1>9. PermitReleased'
  BY <1>0, <1>1 DEF PermitReleased
<1>10. QED
  BY <1>5, <1>6, <1>7, <1>8, <1>9 DEF IInv

(* Every step of a channel keeps the invariant.                             *)
LEMMA NextIInv == IInv /\ [Next]_vars => IInv'
<1>1. SUFFICES ASSUME IInv, [Next]_vars PROVE IInv'
  OBVIOUS
<1>2. CASE UNCHANGED vars
  BY <1>1, <1>2 DEF IInv, TypeOK, HoldersActive, Fifo, NoLostWakeup, PermitReleased, At, vars
<1>3. ASSUME NEW t \in Thread, NEW v \in Value, Send(t, v) PROVE IInv'
  BY <1>1, <1>3, SendIInv DEF Send
<1>4. ASSUME NEW t \in Thread, Receive(t) PROVE IInv'
  BY <1>1, <1>4, ReceiveIInv DEF Receive
<1>5. ASSUME NEW t \in Thread, ResumeSend(t) PROVE IInv'
  <2>1. arg[t] \in Value /\ t \in holders
    BY <1>1, <1>5 DEF IInv, TypeOK, HoldersActive, ResumeSend
  <2>2. QED
    BY <1>1, <1>5, <2>1, SendIInv DEF ResumeSend
<1>6. ASSUME NEW t \in Thread, ResumeReceive(t) PROVE IInv'
  <2>1. t \in holders
    BY <1>1, <1>6 DEF IInv, HoldersActive, ResumeReceive
  <2>2. QED
    BY <1>1, <1>6, <2>1, ReceiveIInv DEF ResumeReceive
<1>7. QED
  BY SMTT(30), <1>1, <1>2, <1>3, <1>4, <1>5, <1>6, CloseIInv, ShareIInv, DropIInv, SpuriousIInv
  DEF Next

(* The invariant holds of every behaviour of the channel.                   *)
LEMMA Invariant == Spec => []IInv
  BY InitIInv, NextIInv, PTL DEF Spec

(* The queue never exceeds its capacity and all state keeps its type.       *)
THEOREM ChannelTypeCorrect == Spec => []TypeOK
  BY Invariant, PTL DEF IInv

(* Messages are delivered in order, at most once, and none is lost.         *)
THEOREM ChannelFifo == Spec => []Fifo
  BY Invariant, PTL DEF IInv

(* No slot and no message is left waiting for a notification that was lost. *)
THEOREM ChannelNoLostWakeup == Spec => []NoLostWakeup
  BY Invariant, PTL DEF IInv

(* The channel's slot in the handle budget is returned exactly once.        *)
THEOREM ChannelPermit == Spec => []PermitReleased
  BY Invariant, PTL DEF IInv
=============================================================================
