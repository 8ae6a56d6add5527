---------------------------- MODULE BuiltinCalls ----------------------------
(***************************************************************************)
(* A call of a built-in operation on its way through the compiler: the     *)
(* type checker accepts or rejects it, the ownership checker decides which *)
(* of the argument variables it uses up, HIR names an intrinsic, and then  *)
(* either the interpreter evaluates the call or MIR lowering and the       *)
(* native backend run it.  The passes share no table: each has its own     *)
(* list of operations and its own idea of what a call does with its        *)
(* operands.  The program makes the call twice, giving a fresh value to    *)
(* each variable the ownership checker says was moved, and then its scope  *)
(* ends.                                                                   *)
(***************************************************************************)
EXTENDS CheckedBuiltins, OwnedBuiltins, LoweredBuiltins, EvaluatedBuiltins, EmittedBuiltins

VARIABLES
    stage,        \* the next pass
    call,         \* [op, types, contracts]: the call as written
    backend,      \* "interpreter" or "native"
    round,        \* 1 or 2: which of the two calls
    usable,       \* positions whose variable the ownership checker lets be used
    initialised,  \* positions whose variable the interpreter has a value in
    flags,        \* positions whose drop flag is set in the compiled function
    released,     \* per position, releases of the value its variable holds
    retired,      \* [moved, released] of the values variables held before
    fault         \* what stopped a run, or "none"

vars == <<stage, call, backend, round, usable, initialised, flags, released, retired, fault>>

\* The tables, by operation (and by intrinsic, for the native backend's).
ByOp(table) == [o \in {r.op : r \in table} |-> CHOOSE r \in table : r.op = o]
CheckedRow == ByOp(Checked)
OwnedRow == ByOp(Owned)
LoweredRow == ByOp(Lowered)
EvaluatedRow == ByOp(Evaluated)
EmittedRow == [t \in {e.target : e \in Emitted} |-> CHOOSE e \in Emitted : e.target = t]

TargetOf(op) == LoweredRow[op].target
HasNative(op) == TargetOf(op) \in DOMAIN EmittedRow
NativeRow(op) == EmittedRow[TargetOf(op)]

Positions == DOMAIN call.types

-----------------------------------------------------------------------------
(* The programs.  A call's arguments have types the checker accepts, except *)
(* that one of them may be of another type or the last may be missing.      *)
(* A call is written in no unsafe block, in one without a contract, in one  *)
(* whose contract has the capability, in one whose contract has another, or *)
(* in two nested ones.                                                      *)

ASequenceOf(sets) ==
    {s \in [1..Len(sets) -> UNION {sets[i] : i \in 1..Len(sets)}] :
        \A i \in 1..Len(sets) : s[i] \in sets[i]}

Contracts(capability) ==
    LET open == [explicit |-> FALSE, allows |-> {}]
        right == [explicit |-> TRUE, allows |-> {capability}]
        wrong == [explicit |-> TRUE, allows |-> {"other"}] IN
    IF capability = "none" THEN {<<>>}
    ELSE {<<>>, <<open>>, <<right>>, <<wrong>>, <<wrong, right>>, <<open, right>>}

Misfits(params) ==
    {SubSeq(s, 1, Len(s) - 1) : s \in {z \in ASequenceOf(params) : Len(z) > 0}}
    \cup UNION {{[s EXCEPT ![i] = T("Other")] : i \in DOMAIN s} : s \in ASequenceOf(params)}

Calls ==
    UNION {{[op |-> r.op, types |-> s, contracts |-> c] :
               s \in ASequenceOf(r.params) \cup Misfits(r.params), c \in Contracts(r.needs)}
           : r \in Checked}

Init ==
    /\ call \in Calls
    /\ backend \in {"interpreter", "native"}
    /\ stage = "check"
    /\ round = 1
    /\ usable = Positions
    /\ initialised = Positions
    /\ flags = {p \in Positions : ~HirCopies(call.types[p])}
    /\ released = [p \in Positions |-> 0]
    /\ retired = {}
    /\ fault = "none"

-----------------------------------------------------------------------------
\* require_unsafe_capability, and require_explicit_unsafe_capability for the
\* capabilities that must be named.
require_unsafe_capability(capability, contracts) ==
    /\ contracts # <<>>
    /\ \A i \in DOMAIN contracts : contracts[i].explicit => capability \in contracts[i].allows
    /\ capability \in {"foreign", "device_io"} =>
           \E i \in DOMAIN contracts :
               contracts[i].explicit /\ capability \in contracts[i].allows

\* Mutant: the number of arguments is checked, their types are not.
check_arity(c) ==
    \E r \in Checked : r.op = c.op /\ Len(c.types) = Len(r.params)

check_expression(c) ==
    LET r == CheckedRow[c.op] IN
        /\ Len(c.types) = Len(r.params)
        /\ \A p \in DOMAIN c.types : c.types[p] \in r.params[p]
        /\ r.needs = "none" \/ require_unsafe_capability(r.needs, c.contracts)

NetworkOps ==
    {"Async.resolve", "Async.resolve_timeout", "Async.connect", "Async.connect_timeout",
     "Dns.resolve", "TcpListener.bind", "UdpSocket.bind", "Tls.connect",
     "Tls.connect_timeout", "Http.get", "Http.get_timeout", "Http.post",
     "Http.post_timeout", "Http.post_json", "Http.post_json_timeout", "Http.put",
     "Http.put_timeout", "Http.patch", "Http.patch_timeout", "Http.delete",
     "Http.delete_timeout", "Http.request"}

\* The ambient capability the effect analysis adds for a call.
intrinsic_capability(op) ==
    IF op \in FileTargets \cup {"Database.open", "Async.read_text", "Async.read_bytes",
                                "Async.write_text", "Async.write_bytes"} THEN "file_system"
    ELSE IF op \in NetworkOps THEN "network"
    ELSE IF op \in {"CRegistration.adopt", "CRegistration.adopt_async",
                    "CRegistration.register_async"} THEN "foreign"
    ELSE IF op \in {"Port.read_u8", "Port.write_u8", "Mmio.read_u8", "Mmio.read_u16",
                    "Mmio.read_u32", "Mmio.write_u8", "Mmio.write_u16", "Mmio.write_u32"}
         THEN "device_io"
    ELSE IF op = "Time.ticks" THEN "timer"
    ELSE IF op \in {"Crypto.random_bytes", "Crypto.random_secret", "Crypto.ed25519_generate",
                    "Crypto.argon2id_hash_password"} THEN "random"
    ELSE IF op \in {"Process.run", "Process.command", "Environment.get",
                    "Environment.arguments"} THEN "process"
    ELSE "none"

TypeCheck ==
    /\ stage = "check"
    /\ stage' = IF check_expression(call) THEN "own" ELSE "rejected"
    /\ UNCHANGED <<call, backend, round, usable, initialised, flags, released, retired, fault>>

\* The positions whose argument check_call uses in Consume mode.
Consumed(op) ==
    LET row == OwnedRow[op] IN
    IF row.receiver = "none" THEN row.consumes
    ELSE {p + 1 : p \in row.consumes} \cup (IF row.receiver = "consume" THEN {1} ELSE {})

\* use_place in Consume mode: the place is uninitialised unless its type is Copy.
OwnershipCheck ==
    /\ stage = "own"
    /\ usable' = {p \in usable : p \notin Consumed(call.op) \/ OwnershipCopies(call.types[p])}
    /\ stage' = "lower"
    /\ UNCHANGED <<call, backend, round, initialised, flags, released, retired, fault>>

Lower ==
    /\ stage = "lower"
    /\ stage' = IF call.op \in DOMAIN LoweredRow THEN backend ELSE "stopped"
    /\ fault' = IF call.op \in DOMAIN LoweredRow THEN fault ELSE "no lowering"
    /\ UNCHANGED <<call, backend, round, usable, initialised, flags, released, retired>>

\* An operand that was moved out reads as Uninitialized; a value no pattern of
\* the arm accepts is an internal error.
Interpret ==
    /\ stage = "interpreter"
    /\ LET known == call.op \in DOMAIN EvaluatedRow
           row == EvaluatedRow[call.op] IN
       /\ fault' = IF ~known THEN "no arm"
                   ELSE IF initialised # Positions THEN "moved value"
                   ELSE IF \E p \in Positions : call.types[p] \notin row.takes[p]
                        THEN "unexpected value" ELSE "none"
       /\ IF fault' = "none"
          THEN /\ stage' = "returned"
               /\ initialised' = {p \in initialised :
                                     p \notin row.consumes \/ InterpreterCopies(call.types[p])}
          ELSE /\ stage' = "stopped"
               /\ UNCHANGED initialised
    /\ UNCHANGED <<call, backend, round, usable, flags, released, retired>>

PassingOf(p) ==
    Passing(TargetOf(call.op), p, LoweredRow[call.op].receiver, call.types[p])

\* consume_operand clears the drop flag of each local the call moves out of;
\* the emitted code and the runtime release or store the operands they take.
RunNative ==
    /\ stage = "native"
    /\ IF HasNative(call.op)
       THEN LET takes == NativeRow(call.op).takes
                moved == {p \in Positions : PassingOf(p) = "move"} IN
            /\ flags' = flags \ moved
            /\ released' = [p \in Positions |->
                               released[p] + (IF p \in takes \cap moved THEN 1 ELSE 0)]
            /\ stage' = "returned"
            /\ UNCHANGED fault
       ELSE /\ fault' = "no arm"
            /\ stage' = "stopped"
            /\ UNCHANGED <<flags, released>>
    /\ UNCHANGED <<call, backend, round, usable, initialised, retired>>

Owns(p) == ~HirCopies(call.types[p])

\* The program gives the variables it may no longer use new values.
CallAgain ==
    /\ stage = "returned" /\ round = 1
    /\ round' = 2
    /\ stage' = "own"
    /\ retired' = {[op |-> call.op, position |-> p, released |-> released[p]]
                    : p \in {q \in Positions \ usable : Owns(q)}}
    /\ released' = [p \in Positions |-> IF p \in usable THEN released[p] ELSE 0]
    /\ initialised' = initialised \cup (Positions \ usable)
    /\ flags' = flags \cup {p \in Positions \ usable : Owns(p)}
    /\ usable' = Positions
    /\ UNCHANGED <<call, backend, fault>>

\* The end of the scope drops every local whose flag is set.
LeaveScope ==
    /\ stage = "returned" /\ round = 2
    /\ stage' = "left"
    /\ released' = [p \in Positions |-> released[p] + (IF p \in flags THEN 1 ELSE 0)]
    /\ flags' = {}
    /\ UNCHANGED <<call, backend, round, usable, initialised, retired, fault>>

Next ==
    TypeCheck \/ OwnershipCheck \/ Lower \/ Interpret \/ RunNative \/ CallAgain \/ LeaveScope

Spec == Init /\ [][Next]_vars

-----------------------------------------------------------------------------
TypeOK ==
    /\ stage \in {"check", "own", "lower", "interpreter", "native", "returned", "left",
                  "rejected", "stopped"}
    /\ round \in {1, 2}
    /\ usable \subseteq Positions /\ initialised \subseteq Positions
    /\ flags \subseteq {p \in Positions : Owns(p)}
    /\ released \in [Positions -> 0..2]
    /\ \A r \in retired : r.released \in 0..2

\* The operations a backend has no arm for.  Device registers need a freestanding
\* target, foreign registrations the native backend; the interpreter has no arm for
\* the count and empty spellings of an array's length.
DeviceOps ==
    {"Port.read_u8", "Port.write_u8", "Mmio.read_u8", "Mmio.read_u16", "Mmio.read_u32",
     "Mmio.write_u8", "Mmio.write_u16", "Mmio.write_u32"}
NativeOnly ==
    DeviceOps
    \cup {"CExport.callback", "CRegistration.register_async", "CRegistration.adopt",
          "CRegistration.adopt_async", "CRegistration.close", "CRegistration.is_active",
          "Array.count", "Array.empty", "Slice.count", "Slice.empty"}

\* Map.set and Map.insert: the ownership checker reads the key (ownership.rs:2533),
\* the interpreter consumes it and the native map stores it.
KeyKept(op, p) == op \in {"Map.set", "Map.insert"} /\ p = 2

\* A str is Copy to the ownership checker and to HIR, but its value is a String, which
\* the interpreter's consume moves.
MovesAnyway(p) == KeyKept(call.op, p) \/ call.types[p] = Str

\* A call the type checker accepts is one every later pass knows: HIR lowers it, the
\* interpreter and the native backend have an arm for it, the interpreter's patterns
\* accept every value of the accepted types, and no operand the ownership checker
\* leaves usable has been moved out of.  The one type the checker does not look at is
\* the argument of String.with_capacity.
AcceptedCallsRun ==
    \/ fault = "none"
    \/ /\ fault = "no arm"
       /\ call.op \in IF backend = "native" THEN DeviceOps ELSE NativeOnly
    \/ fault = "moved value" /\ \E p \in Positions : MovesAnyway(p)
    \/ fault = "unexpected value" /\ call.op = "String.with_capacity"

\* Value kinds: a str is a String value and every error is rendered to text.
RECURSIVE Kind(_)
Kind(t) ==
    CASE Head(t) = "Str" -> Text
      [] Head(t) = "Result" -> Ok(Kind(t[2]))
      [] Head(t) \in {"Reference", "MutReference"} -> T("Reference")
      [] Head(t) \notin {"Str", "Result", "Reference", "MutReference"} /\ Len(t) > 1 ->
             <<t[1]>> \o [i \in 1..(Len(t) - 1) |-> Kind(t[i + 1])]
      [] OTHER -> t

\* The passes agree on the result: HIR gives an accepted call the type the checker gave
\* it, the ownership checker calls it Copy only if HIR does (else a moved result would
\* keep its drop flag), and the interpreter yields a value of that kind.  Time.ticks
\* has type u32 and yields an untyped unsigned value.
ResultsAgree ==
    LET checked == CheckedRow[call.op]
        lowered == LoweredRow[call.op] IN
    /\ stage \in {"interpreter", "native", "returned"} =>
           /\ lowered.result = checked.result
           /\ OwnedRow[call.op].copies => HirCopies(lowered.result)
    /\ stage = "returned" /\ backend = "interpreter" /\ call.op # "Time.ticks" =>
           Kind(EvaluatedRow[call.op].yields) = Kind(checked.result)

\* MIR passes every operand the way the emitted code uses it: a reference where it is
\* dereferenced, the value itself where it is used by value.
OperandsFit ==
    stage = "native" /\ HasNative(call.op) /\ call.op # "CExport.callback" =>
        \A p \in Positions :
            CASE NativeRow(call.op).forms[p] = "pointer" -> PassingOf(p) = "borrow"
              [] NativeRow(call.op).forms[p] = "value" -> PassingOf(p) # "borrow"
              [] NativeRow(call.op).forms[p] = "either" -> TRUE

\* A value the ownership checker moved into a call is released exactly once by the
\* compiled program, and no value a variable still names is released twice: what the
\* checker calls consumed, MIR moves and the runtime takes over.
MovedIsReleasedOnce ==
    backend = "native" =>
        /\ \A r \in retired : KeyKept(r.op, r.position) \/ r.released = 1
        /\ \A p \in Positions : KeyKept(call.op, p) \/ released[p] <= 1

\* A variable the ownership checker lets the program use holds a value in the
\* interpreter, but for the two cases above.
UsableStaysInitialised ==
    backend = "interpreter" /\ stage = "returned" =>
        \A p \in usable : p \in initialised \/ MovesAnyway(p)

\* An operation that needs a named unsafe authority is one whose caller's effects show
\* the same capability.
UnsafeDeclared ==
    stage \notin {"check", "rejected"} =>
        LET needs == CheckedRow[call.op].needs IN
        needs \in {"foreign", "device_io"} => intrinsic_capability(call.op) = needs

\* Every pass agrees with the type checker on an accepted call: it has an arm for it
\* that takes these types, passes the operands as they are used, gives the result that
\* was promised, and shows the authority that was asked for.
CallsAgree == AcceptedCallsRun /\ ResultsAgree /\ OperandsFit /\ UnsafeDeclared

\* Both backends agree with the ownership checker on what a call leaves of its
\* operands: a moved one is released once, a usable one still holds its value.
MovesAgree == MovedIsReleasedOnce /\ UsableStaysInitialised
=============================================================================
