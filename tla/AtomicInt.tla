----------------------------- MODULE AtomicInt -----------------------------
(***************************************************************************)
(* RuntimeAtomicInt: load, store, and the checked add, a compare-exchange   *)
(* loop over an i64.  Between the load and the exchange any other thread    *)
(* may change the cell; the weak exchange may also fail with no reason.     *)
(* All accesses are to one cell, on which every memory order of the code    *)
(* still gives one modification order, so a state is the cell's value.      *)
(***************************************************************************)
EXTENDS Integers, Sequences

CONSTANTS AtomicThread,
          Low, High,   \* i64::MIN and i64::MAX
          Delta,       \* the amounts added
          MaxWrites    \* bound: changes of the cell

ASSUME AtomicAssumption ==
    /\ Low \in Int /\ High \in Int /\ Low <= 0 /\ 0 <= High
    /\ Delta \subseteq Low .. High
    /\ MaxWrites \in Nat

VARIABLES cell,  \* the AtomicI64
          call,  \* each thread's pending add: [field, delta, current], or none
          held,  \* history: the values the cell had since the pending call began
          log,   \* history: the changes of the cell, in their order
          refused \* history: the adds reported as overflow

atomic_vars == <<cell, call, held, log, refused>>

(* The spellings of the addition that the code or its documentation tells   *)
(* apart: add, add_relaxed and the like, and the fetch_add family.          *)
Field == {"add", "add_ordered", "fetch_add"}
Range64 == Low .. High

Idle == [field |-> "none", delta |-> 0, current |-> 0]

(* A finished add, with the value the method returned to the program.       *)
Added == [kind : {"add"}, field : Field, previous : Range64, next : Range64,
          result : Range64]
Stored == [kind : {"store"}, next : Range64]
RefusedAdd == [delta : Delta, over : SUBSET Range64]

AtomicTypeOK ==
    /\ cell \in Range64
    /\ call \in [AtomicThread -> {Idle} \union
                           [field : Field, delta : Delta, current : Range64]]
    /\ held \in [AtomicThread -> SUBSET Range64]
    /\ log \in Seq(Added \union Stored)
    /\ refused \subseteq RefusedAdd

AtomicInit ==
    /\ cell = 0
    /\ call = [t \in AtomicThread |-> Idle]
    /\ held = [t \in AtomicThread |-> {}]
    /\ log = <<>>
    /\ refused = {}

-----------------------------------------------------------------------------

(* The cell changes, in the sight of every pending call.                    *)
Set(next) ==
    /\ cell' = next
    /\ held' = [t \in AtomicThread |-> IF call'[t] = Idle THEN {} ELSE held[t] \union {next}]

Store(t, v) ==
    /\ call[t] = Idle
    /\ Len(log) < MaxWrites
    /\ log' = Append(log, [kind |-> "store", next |-> v])
    /\ UNCHANGED <<call, refused>>
    /\ Set(v)

(* The relaxed load that opens add and fetch_add, in all their spellings.   *)
BeginAdd(t, f, d) ==
    /\ call[t] = Idle
    /\ Len(log) < MaxWrites
    /\ call' = [call EXCEPT ![t] = [field |-> f, delta |-> d, current |-> cell]]
    /\ held' = [held EXCEPT ![t] = {cell}]
    /\ UNCHANGED <<cell, log, refused>>

(* What the method call evaluates to: only the field spelled exactly `add`  *)
(* selects the new value.                                                   *)
Result(field, previous, next) == IF field = "add" THEN next ELSE previous

Pending(t) == call[t] # Idle
Next64(t) == call[t].current + call[t].delta

(* A fault: the sum is tested and formed, but stored without comparing.     *)
ExchangeBlind(t) ==
    /\ Pending(t)
    /\ Next64(t) \in Range64
    /\ log' = Append(log, [kind |-> "add", field |-> call[t].field,
                           previous |-> call[t].current, next |-> Next64(t),
                           result |-> Result(call[t].field, call[t].current, Next64(t))])
    /\ call' = [call EXCEPT ![t] = Idle]
    /\ UNCHANGED refused
    /\ Set(Next64(t))

Exchange(t) ==
    /\ Pending(t)
    /\ Next64(t) \in Range64
    /\ cell = call[t].current
    /\ log' = Append(log, [kind |-> "add", field |-> call[t].field,
                           previous |-> cell, next |-> Next64(t),
                           result |-> Result(call[t].field, cell, Next64(t))])
    /\ call' = [call EXCEPT ![t] = Idle]
    /\ UNCHANGED refused
    /\ Set(Next64(t))

(* The weak exchange fails and yields the value it observed.                *)
Retry(t) ==
    /\ Pending(t)
    /\ Next64(t) \in Range64
    /\ call' = [call EXCEPT ![t].current = cell]
    /\ UNCHANGED <<cell, held, log, refused>>

Overflow(t) ==
    /\ Pending(t)
    /\ Next64(t) \notin Range64
    /\ refused' = refused \union {[delta |-> call[t].delta, over |-> held[t]]}
    /\ call' = [call EXCEPT ![t] = Idle]
    /\ held' = [held EXCEPT ![t] = {}]
    /\ UNCHANGED <<cell, log>>

AtomicNext ==
    \E t \in AtomicThread :
        \/ \E v \in Range64 : Store(t, v)
        \/ \E f \in Field, d \in Delta : BeginAdd(t, f, d)
        \/ Exchange(t)
        \/ Retry(t)
        \/ Overflow(t)

AtomicSpec == AtomicInit /\ [][AtomicNext]_atomic_vars

-----------------------------------------------------------------------------

(* The cell is what its changes make it, one after the other: an add starts *)
(* from exactly the value the change before it left, so no add is lost and  *)
(* no two adds start from the same change.                                  *)
Linearizable ==
    /\ cell = (IF log = <<>> THEN 0 ELSE log[Len(log)].next)
    /\ \A i \in 1 .. Len(log) : log[i].kind = "add" =>
          log[i].previous = (IF i = 1 THEN 0 ELSE log[i - 1].next)

(* An overflow is reported only when the sum with some value the cell had   *)
(* during that very call leaves the range, never for a stale one.           *)
OverflowJustified ==
    \A r \in refused : \E v \in r.over : v + r.delta \notin Range64

(* Both together.                                                           *)
AtomicSound == Linearizable /\ OverflowJustified

(* docs/language/CONCURRENCY.md:38 "Checked add, returning the new value",  *)
(* for add_relaxed and the other ordered spellings as for add; and the old  *)
(* value for the fetch_add family.                                          *)
AddReturnsNew ==
    \A i \in 1 .. Len(log) : log[i].kind = "add" =>
        log[i].result = (IF log[i].field \in {"add", "add_ordered"}
                         THEN log[i].next ELSE log[i].previous)
=============================================================================
