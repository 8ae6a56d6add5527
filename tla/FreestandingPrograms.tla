------------------------ MODULE FreestandingPrograms ------------------------
(***************************************************************************)
(* Whole programs compiled by the four freestanding back ends and run      *)
(* beside the interpreter.  A behaviour chooses a program and a target     *)
(* that accepts it, interprets the program, and executes the image one     *)
(* instruction at a time; on the long-mode target the timer interrupt may  *)
(* come between any two of them.                                           *)
(*                                                                         *)
(* Bounds: the byte of ScalarMachine; the arena, the stacks and the        *)
(* reserves below, small enough that recursion meets the stack guard; at   *)
(* most MaxTicks interrupts.                                               *)
(***************************************************************************)
EXTENDS Integers, Sequences, FiniteSets, TLC

CONSTANT MaxTicks

VARIABLES program, target, image, next, reference, machine
vars == <<program, target, image, next, reference, machine>>

Arena == 28
Page == 8
RealTop == 60
ProtectedTop == 96
LongTop == 288
LinkTop == 320

Ref == INSTANCE ScalarEvaluation WITH MaxCallDepth <- 9, PageBytes <- Page
Real == INSTANCE RealMode16 WITH StackTop <- RealTop, Reserve <- 16, MaxLocals <- 12, MaxLocalBytes <- Arena
Protected == INSTANCE Protected32 WITH StackTop <- ProtectedTop, Reserve <- 24, MaxLocals <- 12, MaxLocalBytes <- Arena
Long == INSTANCE Long64 WITH StackTop <- LongTop, Reserve <- 80, MaxLocalBytes <- Arena, TicksAt <- Arena
Virt == INSTANCE Aarch64Virt WITH StackTop <- LinkTop, MaxLocalBytes <- Arena, PageBytes <- Page

(***************************************************************************)
(* The programs.                                                           *)
(***************************************************************************)
Lit(n) == <<"int", n>>
Id(x) == <<"id", x>>
At(x, i) == <<"index", x, i>>
Bin(op, l, r) == <<"bin", op, l, r>>
Let(x, kind, e, span) == <<"let", x, kind, 0, e, span>>
Set(x, op, e) == <<"assign", x, op, e>>
Show(e) == <<"print", e>>
Call(f, arguments) == <<"call", f, arguments>>
If(c, yes, no) == <<"if", c, yes, no>>
Return(e) == <<"return", e>>
Fn(name, parameters, returns, body) ==
  [name |-> name, parameters |-> parameters, returns |-> returns, body |-> body, timer |-> FALSE]
Main(body) == Fn("main", <<>>, "none", body)
Constant(n) == IF n < 0 THEN <<"neg", Lit(-n)>> ELSE Lit(n)

Kinds == {"u8", "u16", "u32", "i32"}
Samples(kind) == CASE kind = "u8" -> 0..3 [] kind = "u16" -> {0, 1, 3, 8, 15}
                   [] kind = "u32" -> {0, 1, 16, 128, 255} [] kind = "i32" -> {-128, -64, -1, 0, 2, 127}
Operators == {"+", "-", "*", "/", "%", "==", "!=", "<", "<=", ">", ">="}

Arithmetic ==
  UNION {{<<Main(<<Let("x", kind, Constant(a), 1), Let("y", kind, Constant(b), 2), Show(Bin(op, Id("x"), Id("y")))>>)>>
           : a \in Samples(kind), b \in Samples(kind), op \in Operators} : kind \in Kinds}

(* Factorial past the largest u32, and negation of the smallest i32.       *)
Factorial(n) ==
  <<Fn("f", <<<<"n", "u32">>>>, "u32",
       <<If(Bin("==", Id("n"), Lit(0)), <<Return(Lit(1))>>, <<>>),
         Return(Bin("*", Id("n"), Call("f", <<Bin("-", Id("n"), Lit(1))>>)))>>),
    Main(<<Let("x", "u32", Lit(n), 1), Show(Call("f", <<Id("x")>>)), Show(Id("x"))>>)>>

(* Two calls active in one expression, a local alive across both.          *)
Fibonacci(n) ==
  <<Main(<<Show(Call("f", <<Lit(n)>>))>>),
    Fn("f", <<<<"n", "u8">>>>, "u32",
       <<If(Bin("<", Id("n"), Lit(2)), <<Return(Lit(1))>>, <<>>),
         Let("a", "u32", Call("f", <<Bin("-", Id("n"), Lit(1))>>), 2),
         Return(Bin("+", Id("a"), Bin("+", Call("f", <<Bin("-", Id("n"), Lit(2))>>), Id("a"))))>>)>>

(* Two functions that call each other, one with a local of another width.  *)
Mutual(n) ==
  <<Fn("even", <<<<"n", "u16">>>>, "bool",
       <<If(Bin("==", Id("n"), Lit(0)), <<Return(<<"bool", TRUE>>)>>, <<>>),
         Let("k", "i32", <<"neg", Lit(3)>>, 2),
         Let("b", "bool", Call("odd", <<Bin("-", Id("n"), Lit(1))>>), 3), Show(Id("k")), Return(Id("b"))>>),
    Fn("odd", <<<<"m", "u16">>>>, "bool",
       <<If(Bin("==", Id("m"), Lit(0)), <<Return(<<"bool", FALSE>>)>>, <<>>),
         Return(<<"not", <<"not", Call("even", <<Bin("-", Id("m"), Lit(1))>>)>>>>)>>),
    Main(<<Show(Call("even", <<Lit(n)>>))>>)>>

(* The same function called in its own arguments.                          *)
Nested(n) ==
  <<Main(<<Let("x", "u32", Lit(n), 1),
           Show(Call("g", <<Call("g", <<Id("x"), Lit(2)>>), Call("g", <<Lit(3), Id("x")>>)>>)), Show(Id("x"))>>),
    Fn("g", <<<<"a", "u32">>, <<"b", "u32">>>>, "u32",
       <<Let("c", "u32", Bin("*", Id("a"), Lit(2)), 2), Return(Bin("+", Id("c"), Id("b")))>>)>>

Loops(n) ==
  <<Main(<<Let("i", "u8", Lit(0), 1), Let("sum", "u16", Lit(0), 2),
           <<"while", Bin("<", Id("i"), Lit(3)),
             <<Set("i", "+", Lit(1)), If(Bin("==", Id("i"), Lit(n)), <<<<"continue">>>>, <<>>), Set("sum", "+", Lit(5))>>>>,
           <<"loop", <<Set("sum", "-", Lit(1)), If(Bin("<=", Id("sum"), Lit(8)), <<<<"break">>>>, <<>>)>>>>,
           Show(Id("sum"))>>)>>

(* Both operands print, so a skipped one is seen.                          *)
Circuits(op, x, y) ==
  <<Fn("t", <<<<"b", "bool">>>>, "bool", <<Show(Id("b")), Return(Id("b"))>>),
    Main(<<Show(Bin(op, Call("t", <<<<"bool", x>>>>), Call("t", <<<<"bool", y>>>>)))>>)>>

Shadowed ==
  <<Main(<<Let("x", "u8", Lit(1), 1),
           If(<<"bool", TRUE>>, <<Let("x", "u32", Lit(200), 2), Set("x", "/", Lit(3)), Show(Id("x"))>>, <<>>),
           Show(Id("x")), <<"do", "p", <<Id("x")>>>>, Return(<<>>), Show(Lit(9))>>),
    Fn("p", <<<<"v", "u8">>>>, "none",
       <<If(Bin("==", Id("v"), Lit(3)), <<Return(<<>>)>>, <<<<"do", "p", <<Bin("+", Id("v"), Lit(1))>>>>>>), Show(Id("v"))>>)>>

(* Unbounded recursion with operands waiting on the stack at every level.  *)
Endless ==
  <<Main(<<Show(Lit(7)), Show(Call("f", <<Lit(1)>>))>>),
    Fn("f", <<<<"n", "u32">>>>, "u32",
       <<Return(Bin("+", Id("n"), Bin("+", Id("n"), Bin("+", Id("n"), Call("f", <<Id("n")>>)))))>>)>>

Negated(n) == <<Main(<<Let("x", "i32", Constant(n), 1), Show(<<"neg", Id("x")>>)>>)>>

Everywhere ==
  Arithmetic \union {Factorial(n) : n \in {0, 4, 6}} \union {Fibonacci(n) : n \in {2, 3}}
  \union {Mutual(n) : n \in {2, 3}} \union {Nested(n) : n \in {5, 100}} \union {Loops(n) : n \in {1, 3}}
  \union {Circuits(op, x, y) : op \in {"and", "or"}, x \in BOOLEAN, y \in BOOLEAN}
  \union {Shadowed, Endless} \union {Negated(n) : n \in {-128, 5}}

Arrays ==
  UNION {{<<Main(<<Let("v", kind, Lit(2), 1), Let("i", "u8", Lit(i), 2), <<"let", "a", kind, 2, <<Id("v"), Id("v")>>, 3>>,
                   Let("w", "bool", <<"bool", TRUE>>, 4), <<"place", "a", Id("i"), op, Id("v")>>,
                   Show(At("a", Lit(0))), Show(At("a", Id("i"))), Show(Id("w")), Show(Id("v"))>>)>>
           : i \in 0..2, op \in {"=", "+", "*", "-"}} : kind \in {"u8", "u16", "i32"}}

(* An array in a recursive function's frame.                               *)
Held ==
  <<Main(<<Let("z", "u16", Lit(1), 1), Show(Call("h", <<Id("z")>>))>>),
    Fn("h", <<<<"n", "u16">>>>, "u16",
       <<<<"let", "a", "u16", 2, <<Id("n"), Id("n")>>, 2>>,
         If(Bin("<", Id("n"), Lit(3)),
            <<<<"place", "a", Lit(1), "+", Call("h", <<Bin("+", Id("n"), <<"cast", "u16", Lit(1)>>)>>)>>>>, <<>>),
         Return(Bin("+", At("a", Lit(0)), At("a", Lit(1))))>>)>>

Guarded(body) == <<"unsafe", {"DeviceIo"}, body>>
Ports ==
  {<<Main(<<Let("p", "u16", Lit(n), 1),
            Guarded(<<<<"device", "u8", Id("p"), <<"device", "u8", Bin("+", Id("p"), Lit(1)), "port">>, "port">>,
                      Show(<<"device", "u8", Id("p"), "port">>)>>)>>)>> : n \in {1, 6}}
Registers ==
  {<<Main(<<Let("p", "u16", Lit(n), 1), Let("v", kind, Lit(3), 2),
            Guarded(<<<<"device", kind, Id("p"), Id("v"), "page">>, Show(<<"device", kind, Id("p"), "page">>)>>)>>)>>
     : n \in 0..8, kind \in {"u8", "u16", "u32"}}

Timed ==
  <<[Main(<<Let("a", "u32", <<"ticks">>, 1), Let("b", "u32", Bin("+", Call("f", <<Lit(2)>>), Lit(0)), 2),
            Show(Bin(">=", <<"ticks">>, Id("a"))), Show(Id("b"))>>) EXCEPT !.timer = TRUE],
    Fn("f", <<<<"n", "u32">>>>, "u32",
       <<If(Bin("==", Id("n"), Lit(0)), <<Return(Lit(3))>>, <<>>), Return(Call("f", <<Bin("-", Id("n"), Lit(1))>>))>>)>>

Programs(t) ==
  CASE t = "real" -> Everywhere
    [] t = "protected" -> Everywhere \union Arrays \union {Held} \union Ports
    [] t = "long" -> Everywhere \union Arrays \union {Held} \union Ports \union {Timed, [Endless EXCEPT ![1].timer = TRUE]}
    [] t = "virt" -> Everywhere \union Arrays \union {Held} \union Registers

(***************************************************************************)
(* Compiling, interpreting and executing.                                  *)
(***************************************************************************)
Targets == {"real", "protected", "long", "virt"}
new(t, p) == CASE t = "real" -> Real!new(p) [] t = "protected" -> Protected!new(p)
               [] t = "long" -> Long!new(p) [] t = "virt" -> Virt!new(p)
compile_function(t, c, f, at) ==
  CASE t = "real" -> Real!compile_function(c, f, at) [] t = "protected" -> Protected!compile_function(c, f, at)
    [] t = "long" -> Long!compile_function(c, f, at) [] t = "virt" -> Virt!compile_function(c, f, at)
emit_routines(t, c) == CASE t = "real" -> Real!emit_routines(c) [] t = "protected" -> Protected!emit_routines(c)
                         [] t = "long" -> Long!emit_routines(c) [] t = "virt" -> Virt!emit_routines(c)

(* main first, then the other functions in their order.                    *)
Ordered(p) == SelectSeq(p, LAMBDA f : f.name = "main") \o SelectSeq(p, LAMBDA f : f.name # "main")
StackTop == CASE target = "real" -> RealTop [] target = "protected" -> ProtectedTop
              [] target = "long" -> LongTop [] target = "virt" -> LinkTop
SlotBytes(kind) == IF target = "real" THEN Real!KindBytes(kind) ELSE Protected!KindBytes(kind)

Init ==
  /\ target \in Targets
  /\ program \in Programs(target)
  /\ image = new(target, program)
  /\ next = [function |-> 1, at |-> 0]
  /\ reference = Ref!Start(program)
  /\ machine = Ref!Machine(Arena + 4)

(* One step per statement of a function's body, then the shared routines.  *)
Compile ==
  /\ next.function <= Len(program)
  /\ LET f == Ordered(program)[next.function]
     IN /\ image' = compile_function(target, image, f, next.at)
        /\ next' = IF next.at > Len(f.body) THEN [function |-> next.function + 1, at |-> 0]
                   ELSE [next EXCEPT !.at = @ + 1]
  /\ UNCHANGED <<program, target, reference, machine>>

Link ==
  /\ next = [function |-> Len(program) + 1, at |-> 0]
  /\ image' = emit_routines(target, image)
  /\ next' = [next EXCEPT !.at = 1]
  /\ UNCHANGED <<program, target, reference, machine>>

Linked == next = [function |-> Len(program) + 1, at |-> 1]

Interpret ==
  /\ Linked /\ reference.end = ""
  /\ reference' = Ref!evaluate_step(reference, program)
  /\ UNCHANGED <<program, target, image, next, machine>>

Execute ==
  /\ reference.end # ""
  /\ ~image.rejected
  /\ machine.end = ""
  /\ machine' = Ref!Step(image, machine)
  /\ UNCHANGED <<program, target, image, next, reference>>

TimerFires ==
  /\ reference.end # ""
  /\ target = "long" /\ Long!timer_enabled(program)
  /\ machine.end = ""
  /\ machine.mem[Arena] < MaxTicks
  /\ machine' = Long!timer_handler(machine)
  /\ UNCHANGED <<program, target, image, next, reference>>

Next == Compile \/ Link \/ Interpret \/ Execute \/ TimerFires
Spec == Init /\ [][Next]_vars

TypeOK ==
  /\ target \in Targets
  /\ next.function \in 1..(Len(program) + 1)
  /\ reference.end \in {"", "halt", "arithmetic", "bounds", "device", "depth"}
  /\ machine.end \in {"", "halt", "fault"} \union {Ref!Failures[i] : i \in DOMAIN Ref!Failures}

Prefix(s, t) == Len(s) <= Len(t) /\ SubSeq(t, 1, Len(s)) = s

(* An image prints what the interpreter prints and ends as it ends: on the *)
(* same checked-arithmetic, bounds or device failure, after the same       *)
(* output.  The interpreter's call-depth limit and the image's stack guard *)
(* are different bounds, so a run that meets either one only has to agree  *)
(* up to there.  The remainder of the smallest i32 by minus one is an      *)
(* arithmetic failure of the image alone, as the specification of the      *)
(* profile demands.                                                        *)
SmallestByMinusOne ==
  \E e \in {program[1].body[i][2] : i \in {k \in DOMAIN program[1].body : program[1].body[k][1] = "print"}} :
    /\ e = Bin("%", Id("x"), Id("y"))
    /\ program[1].body[1][5] = Constant(-128) /\ program[1].body[2][5] = Constant(-1)
ImagesAgree ==
  machine.end # "" =>
    CASE machine.end = "stack" -> Prefix(machine.out, reference.out) \/ reference.end = "depth"
      [] machine.end # "stack" /\ SmallestByMinusOne -> machine.end = "arithmetic" /\ machine.out = <<>>
      [] OTHER -> machine.end = reference.end /\ machine.out = reference.out

(* Every image is complete and never leaves the model of the processor: no *)
(* jump to an unbound label, no divide error, no access outside the arena, *)
(* no return to what is not a return address, no fall off the end.  The    *)
(* explicit checks come before the instruction that would fault.           *)
NeverFaults == ~image.rejected /\ (Linked => Ref!Finished(image)) /\ machine.end # "fault"

(* The guard before a call (or before each push) keeps the stack, together *)
(* with what a timer interrupt would push on it at that very instruction,  *)
(* above its floor; a program that halts has popped all it pushed.         *)
StackInBounds ==
  /\ Len(machine.stack) + (IF target = "long" /\ Long!timer_enabled(program) THEN Long!InterruptBytes ELSE 0) <= StackTop
  /\ machine.end = "halt" => machine.stack = <<>>

(* The slots of all functions, array elements included, are pairwise       *)
(* disjoint and inside the arena: no store changes another local.          *)
SlotsDisjoint ==
  \A i \in DOMAIN image.slots :
    /\ image.slots[i].at + SlotBytes(image.slots[i].kind) <= Arena
    /\ \A j \in DOMAIN image.slots :
         i < j => image.slots[i].at + SlotBytes(image.slots[i].kind) <= image.slots[j].at
=============================================================================
