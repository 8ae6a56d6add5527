--------------------------- MODULE ScalarMachine ---------------------------
(***************************************************************************)
(* What the four freestanding back ends share: the assembler they emit     *)
(* into, the scalar kinds they know, and the processor the image runs on.  *)
(*                                                                         *)
(* A byte is scaled to two bits, so u8 is 0..3, u16 is 0..15 and u32 is    *)
(* 0..255: sizes in bytes, alignment and the order of bytes in memory stay *)
(* those of the code and every overflow is within a model's reach.  The    *)
(* processor is external: its instructions are the ones the emitted        *)
(* opcodes name in the comments of the source.                             *)
(***************************************************************************)
EXTENDS Integers, Sequences, TLC

Byte == 4
Half == Byte ^ 2
Word == Byte ^ 4

Numeric(kind) == kind # "bool"
Signed(kind) == kind = "i32"
Wide(kind) == kind \in {"u32", "i32"}
Largest(kind) == CASE kind = "u8" -> Byte - 1 [] kind = "u16" -> Half - 1
                   [] kind = "u32" -> Word - 1 [] kind = "i32" -> Word \div 2 - 1

Comparisons == {"==", "!=", "<", "<=", ">", ">="}
Logical == {"and", "or"}

(***************************************************************************)
(* The assembler: code, the labels handed out and where they are bound.    *)
(* Every back end's compiler is one record; "kind" is the kind of the last *)
(* expression compiled ("none" for Unit) and "rejected" is the diagnostic. *)
(***************************************************************************)
Empty == [x \in {} |-> x]

Failures == <<"arithmetic", "stack", "bounds", "device">>
ArithmeticFailure == 1
StackFailure == 2
BoundsFailure == 3
DeviceFailure == 4
HaltLabel == 5

Compiler == [code |-> <<>>, labels |-> 5, bound |-> Empty, scopes |-> <<>>,
             bytes |-> 0, slots |-> <<>>, functions |-> Empty, locals |-> Empty, function |-> "",
             returns |-> "none", main |-> TRUE, loops |-> <<>>, device |-> 0,
             kind |-> "none", rejected |-> FALSE]

Emit(c, instructions) == [c EXCEPT !.code = @ \o instructions]
Fresh(c, n) == [c EXCEPT !.labels = @ + n]
Bind(c, label) == [c EXCEPT !.bound = (label :> Len(c.code) + 1) @@ @]
OfKind(c, kind) == [c EXCEPT !.kind = kind]
Reject(c) == [c EXCEPT !.rejected = TRUE, !.kind = "bool"]
RejectIf(c, wrong) == IF wrong THEN Reject(c) ELSE c
require_kind(c, expected) == RejectIf(c, expected # "any" /\ c.kind # expected)

(* The innermost scope that declares the name decides.                     *)
Lookup(c, name) ==
  LET declaring == {i \in DOMAIN c.scopes : name \in DOMAIN c.scopes[i]}
  IN c.scopes[CHOOSE i \in declaring : \A j \in declaring : j <= i][name]

Enter(c, scope) == [c EXCEPT !.scopes = Append(@, scope)]
Leave(c) == [c EXCEPT !.scopes = SubSeq(@, 1, Len(@) - 1)]
Declare(c, name, local) == [c EXCEPT !.scopes[Len(c.scopes)] = (name :> local) @@ @]

(* Two instructions for each of n slots.                                   *)
Pairs(n, first(_), second(_)) ==
  [k \in 1..(2 * n) |-> IF k % 2 = 1 THEN first((k + 1) \div 2) ELSE second(k \div 2)]

(* The last label is always bound before an image is finished.             *)
Finished(c) ==
  /\ ~c.rejected
  /\ \A i \in DOMAIN c.code :
       c.code[i][1] \in {"jmp", "jcc", "call", "bl", "cbz", "cbnz", "tbnz"}
         => c.code[i][2] \in DOMAIN c.bound

(***************************************************************************)
(* The machine.  Registers hold a word; the stack grows by bytes, a return *)
(* address occupying as many cells as a push of the target.                *)
(***************************************************************************)
Registers == {"a", "b", "c", "d", "w0", "w1", "w2", "w3", "w8", "x30"}
Clear == [carry |-> FALSE, zero |-> FALSE, overflow |-> FALSE, sign |-> FALSE]
Machine(cells) == [pc |-> 1, reg |-> [r \in Registers |-> 0], flag |-> Clear, stack |-> <<>>,
                   mem |-> [i \in 0..(cells - 1) |-> 0], out |-> <<>>, end |-> ""]

Cells(value, n) == [i \in 1..n |-> (value \div Byte ^ (i - 1)) % Byte]
RECURSIVE ValueOf(_)
ValueOf(cells) == IF cells = <<>> THEN 0 ELSE Head(cells) + Byte * ValueOf(Tail(cells))
ReturnCell(pc) == Byte + pc
IsData(cells) == \A i \in DOMAIN cells : cells[i] < Byte

TwosComplement(value, size) == IF value >= size \div 2 THEN value - size ELSE value
Wrap(value, size) == value % size
Quotient(x, y) ==
  LET magnitude == (IF x < 0 THEN -x ELSE x) \div (IF y < 0 THEN -y ELSE y)
  IN IF (x < 0) = (y < 0) THEN magnitude ELSE -magnitude
Remainder(x, y) == x - y * Quotient(x, y)

Read(m, r, size) == m.reg[r] % size
Write(m, r, size, value) == [m EXCEPT !.reg[r] = (@ - (@ % size)) + value]
Fault(m) == [m EXCEPT !.end = "fault"]
Advance(m) == [m EXCEPT !.pc = @ + 1]

FlagsOf(op, x, y, size) ==
  LET result == IF op = "add" THEN x + y ELSE x - y
      signed == IF op = "add" THEN TwosComplement(x, size) + TwosComplement(y, size)
                ELSE TwosComplement(x, size) - TwosComplement(y, size)
  IN [carry |-> result >= size \/ result < 0,
      zero |-> Wrap(result, size) = 0,
      overflow |-> signed >= size \div 2 \/ signed < -(size \div 2),
      sign |-> Wrap(result, size) >= size \div 2]
Tested(value, size) ==
  [carry |-> FALSE, zero |-> value = 0, overflow |-> FALSE, sign |-> value >= size \div 2]

Holds(flag, condition) ==
  CASE condition \in {"e", "=="} -> flag.zero
    [] condition \in {"ne", "!="} -> ~flag.zero
    [] condition = "b" -> flag.carry
    [] condition = "ae" -> ~flag.carry
    [] condition = "be" -> flag.carry \/ flag.zero
    [] condition = "a" -> ~flag.carry /\ ~flag.zero
    [] condition = "o" -> flag.overflow
    [] condition = "l" -> flag.sign # flag.overflow
    [] condition = "ge" -> flag.sign = flag.overflow
    [] condition = "le" -> flag.zero \/ flag.sign # flag.overflow
    [] condition = "g" -> ~flag.zero /\ flag.sign = flag.overflow

ConditionOf(operator, signed) ==
  CASE operator = "==" -> "e" [] operator = "!=" -> "ne"
    [] operator = "<" -> IF signed THEN "l" ELSE "b"
    [] operator = "<=" -> IF signed THEN "le" ELSE "be"
    [] operator = ">" -> IF signed THEN "g" ELSE "a"
    [] operator = ">=" -> IF signed THEN "ge" ELSE "ae"

Stored(m, address, cells) ==
  IF \A i \in DOMAIN cells : address + i - 1 \in DOMAIN m.mem
    THEN [m EXCEPT !.mem = [a \in {address + i - 1 : i \in DOMAIN cells} |-> cells[a - address + 1]] @@ @]
    ELSE Fault(m)
Loaded(m, r, size, address, n) ==
  IF \A i \in 0..(n - 1) : address + i \in DOMAIN m.mem
    THEN Write(m, r, size, ValueOf([i \in 1..n |-> m.mem[address + i - 1]]))
    ELSE Fault(m)
Pushed(m, cells) == [m EXCEPT !.stack = @ \o cells]
Popped(m, n) == SubSeq(m.stack, Len(m.stack) - n + 1, Len(m.stack))
Dropped(m, n) == [m EXCEPT !.stack = SubSeq(@, 1, Len(@) - n)]

(* Ports and device registers read back a value that depends on the place. *)
DeviceValue(place) == place % Byte

Computed(m, i) ==
  LET op == i[1] IN
  CASE op = "imm" -> Write(m, i[2], i[3], i[4])
    [] op = "load" -> Loaded(m, i[2], i[3], i[4], i[5])
    [] op = "store" -> Stored(m, i[3], Cells(m.reg[i[2]], i[4]))
    [] op = "loadx" -> Loaded(m, i[2], Word, i[4] + m.reg[i[3]] * i[6], i[5])
    [] op = "storex" -> Stored(m, i[4] + m.reg[i[3]] * i[6], Cells(m.reg[i[2]], i[5]))
    [] op = "push" -> Pushed(m, Cells(m.reg[i[2]], i[3]))
    [] op = "pop" ->
         IF Len(m.stack) >= i[3] /\ IsData(Popped(m, i[3]))
           THEN Write(Dropped(m, i[3]), i[2], Byte ^ (IF i[3] = 2 THEN 2 ELSE IF i[3] = 16 THEN 8 ELSE 4), ValueOf(Popped(m, i[3])))
           ELSE Fault(m)
    [] op = "mov" -> Write(m, i[2], i[4], Read(m, i[3], i[4]))
    [] op = "movzx" -> Write(m, i[2], Word, Read(m, i[2], i[3]))
    [] op \in {"add", "sub"} ->
         LET x == Read(m, i[3], i[5])  y == Read(m, i[4], i[5])
         IN [Write(m, i[2], i[5], Wrap(IF op = "add" THEN x + y ELSE x - y, i[5]))
               EXCEPT !.flag = FlagsOf(op, x, y, i[5])]
    [] op = "cmp" -> [m EXCEPT !.flag = FlagsOf("sub", Read(m, i[2], i[4]), Read(m, i[3], i[4]), i[4])]
    [] op = "cmpi" -> [m EXCEPT !.flag = FlagsOf("sub", Read(m, i[2], i[4]), i[3], i[4])]
    [] op = "cmpsp" -> [m EXCEPT !.flag = FlagsOf("sub", i[3] - Len(m.stack), i[2], 2 * i[3])]
    [] op = "test" -> [m EXCEPT !.flag = Tested(Read(m, i[2], i[3]), i[3])]
    [] op = "neg" -> [Write(m, i[2], i[3], Wrap(-Read(m, i[2], i[3]), i[3]))
                        EXCEPT !.flag = FlagsOf("sub", 0, Read(m, i[2], i[3]), i[3])]
    [] op = "shl" -> Write(m, i[2], Word, Wrap(m.reg[i[2]] * i[3], Word))
    [] op = "set" -> Write(m, i[2], i[4], IF Holds(m.flag, i[3]) THEN 1 ELSE 0)
    [] op = "mul" ->
         LET product == Read(m, i[3], i[5]) * Read(m, i[4], i[5])
         IN Write(Write(m, i[2], i[5], product % i[5]), IF i[2] = "a" THEN "d" ELSE "w3", i[5], product \div i[5])
    [] op = "imul" ->
         LET product == TwosComplement(Read(m, i[3], i[5]), i[5]) * TwosComplement(Read(m, i[4], i[5]), i[5])
         IN Write(Write(m, i[2], i[5], Wrap(product, i[5])), IF i[2] = "a" THEN "d" ELSE "w3", i[5],
                  Wrap(product \div i[5], i[5]))
    [] op = "signs" -> Write(m, i[2], i[4], IF Read(m, i[3], i[4]) >= i[4] \div 2 THEN i[4] - 1 ELSE 0)
    [] op = "div" ->
         LET x == Read(m, "d", i[2]) * i[2] + Read(m, "a", i[2])  y == Read(m, "b", i[2])
         IN IF y = 0 THEN Fault(m) ELSE IF x \div y >= i[2] THEN Fault(m)
            ELSE Write(Write(m, "a", i[2], x \div y), "d", i[2], x % y)
    [] op = "idiv" ->
         LET x == TwosComplement(Read(m, "a", i[2]), i[2])  y == TwosComplement(Read(m, "b", i[2]), i[2])
         IN IF y = 0 THEN Fault(m) ELSE IF Quotient(x, y) >= i[2] \div 2 THEN Fault(m)
            ELSE Write(Write(m, "a", i[2], Wrap(Quotient(x, y), i[2])), "d", i[2], Wrap(Remainder(x, y), i[2]))
    [] op = "udiv" -> Write(m, i[2], Word, IF m.reg[i[4]] = 0 THEN 0 ELSE m.reg[i[3]] \div m.reg[i[4]])
    [] op = "sdiv" ->
         Write(m, i[2], Word, IF m.reg[i[4]] = 0 THEN 0
                 ELSE Wrap(Quotient(TwosComplement(m.reg[i[3]], Word), TwosComplement(m.reg[i[4]], Word)), Word))
    [] op = "msub" -> Write(m, i[2], Word, Wrap(m.reg[i[5]] - m.reg[i[3]] * m.reg[i[4]], Word))
    [] op = "print" ->
         [m EXCEPT !.out = Append(@, CASE i[2] = "unsigned" -> m.reg[i[3]]
                                       [] i[2] = "signed" -> TwosComplement(m.reg[i[3]], Word)
                                       [] i[2] = "text" -> i[3])]
    [] op = "in" -> Write(m, i[2], Word, DeviceValue(m.reg[i[3]]))
    [] op = "out" -> [m EXCEPT !.out = @ \o <<m.reg[i[2]], m.reg[i[3]]>>]

(* One instruction; running off the code, popping what was not pushed and  *)
(* a divide error are faults.                                              *)
Step(image, m) ==
  LET i == image.code[m.pc]
      Goto(label) == [m EXCEPT !.pc = image.bound[label]]
      op == i[1]
  IN IF m.pc > Len(image.code) THEN Fault(m)
     ELSE CASE op = "jmp" -> Goto(i[2])
            [] op = "jcc" -> IF Holds(m.flag, i[3]) THEN Goto(i[2]) ELSE Advance(m)
            [] op = "cbz" -> IF m.reg[i[3]] = 0 THEN Goto(i[2]) ELSE Advance(m)
            [] op = "cbnz" -> IF m.reg[i[3]] # 0 THEN Goto(i[2]) ELSE Advance(m)
            [] op = "tbnz" -> IF (m.reg[i[3]] \div i[4]) % 2 = 1 THEN Goto(i[2]) ELSE Advance(m)
            [] op = "call" -> Pushed(Goto(i[2]), [k \in 1..i[3] |-> ReturnCell(m.pc + 1)])
            [] op = "bl" -> [Goto(i[2]) EXCEPT !.reg["x30"] = m.pc + 1]
            [] op = "ret" ->
                 IF Len(m.stack) >= i[2] /\ Popped(m, i[2])[1] >= Byte
                   THEN [Dropped(m, i[2]) EXCEPT !.pc = Popped(m, i[2])[1] - Byte]
                   ELSE Fault(m)
            [] op = "retlr" -> [m EXCEPT !.pc = m.reg["x30"]]
            [] op = "end" -> [m EXCEPT !.end = i[2]]
            [] OTHER -> Advance(Computed(m, i))
=============================================================================
