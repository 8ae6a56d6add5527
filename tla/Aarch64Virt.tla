----------------------------- MODULE Aarch64Virt -----------------------------
(***************************************************************************)
(* The AArch64 back end (freestanding_aarch64.rs).  Every value passes     *)
(* through w0; a binary operator finds its left side in w1.  The stack is  *)
(* checked at each sixteen-byte push against the floor kept in x22, and a  *)
(* function other than main keeps its return address there itself.         *)
(***************************************************************************)
EXTENDS ScalarMachine, SequencesExt

CONSTANTS StackTop, MaxLocalBytes, PageBytes

KindBytes(kind) == CASE kind = "u8" -> 1 [] kind = "u16" -> 2 [] OTHER -> 4
LoadOf(local, r) == <<"load", r, Word, local.at, KindBytes(local.kind)>>
StoreOf(local, r) == <<"store", r, local.at, KindBytes(local.kind)>>
Load(c, local, r) == Emit(c, <<LoadOf(local, r)>>)
Store(c, local, r) == Emit(c, <<StoreOf(local, r)>>)
Fail(condition) == <<"jcc", ArithmeticFailure, condition>>
Chosen(kinds, default) == CASE kinds = {} -> default
                            [] \E k \in kinds : kinds = {k} -> CHOOSE k \in kinds : TRUE
                            [] OTHER -> "mixed"

push_register(r) == <<<<"cmpsp", 0, StackTop>>, <<"jcc", StackFailure, "be">>, <<"push", r, 16>>>>
pop_register(r) == <<<<"pop", r, 16>>>>
emit_return == pop_register("x30") \o <<<<"retlr">>>>

allocate_local(c, kind) ==
  LET size == KindBytes(kind)
      aligned == ((c.bytes + size - 1) \div size) * size
  IN [RejectIf(c, aligned + size > MaxLocalBytes) EXCEPT
        !.bytes = aligned + size, !.slots = Append(@, [at |-> aligned, kind |-> kind, length |-> 0])]

(* An array is its elements in a row; its record starts at the first one.  *)
RECURSIVE preallocate_block(_, _)
preallocate_block(c, block) ==
  LET allocate(d, s) ==
        CASE s[1] = "let" ->
               LET next == FoldLeft(LAMBDA x, i : allocate_local(x, s[3]), d,
                                    [i \in 1..(IF s[4] = 0 THEN 1 ELSE s[4]) |-> i])
               IN [next EXCEPT !.locals = (s[6] :> [next.slots[Len(d.slots) + 1] EXCEPT !.length = s[4]]) @@ @]
          [] s[1] = "if" -> preallocate_block(preallocate_block(d, s[3]), s[4])
          [] s[1] \in {"while", "unsafe"} -> preallocate_block(d, s[3])
          [] s[1] = "loop" -> preallocate_block(d, s[2])
          [] OTHER -> d
  IN FoldLeft(allocate, c, block)

(* Compiler::new: every function's slots are laid out before any code.     *)
new(program) ==
  LET register(c, f) ==
        LET parameters == FoldLeft(LAMBDA d, p : allocate_local(d, p[2]), c, f.parameters)
            all == preallocate_block(parameters, f.body)
            first == Len(c.slots) + 1
        IN [all EXCEPT !.labels = @ + 1,
              !.functions = (f.name :> [label |-> c.labels + 1, returns |-> f.returns,
                 parameters |-> [i \in DOMAIN f.parameters |->
                                   <<f.parameters[i][1], parameters.slots[first + i - 1]>>],
                 frame |-> SubSeq(all.slots, first, Len(all.slots))]) @@ @]
  IN FoldLeft(register, Compiler, program)

check_narrow_maximum(kind) ==
  IF kind = "u32" THEN <<>> ELSE <<<<"cmpi", "w0", Largest(kind), Word>>, Fail("a")>>

emit_unsigned_arithmetic(operator, kind) ==
  CASE operator = "+" -> <<<<"add", "w0", "w1", "w0", Word>>, Fail("b")>> \o check_narrow_maximum(kind)
    [] operator = "-" -> <<<<"sub", "w0", "w1", "w0", Word>>, Fail("b")>>
    [] operator = "*" -> <<<<"mul", "w2", "w1", "w0", Word>>, <<"cbnz", ArithmeticFailure, "w3">>,
                           <<"mov", "w0", "w2", Word>>>> \o check_narrow_maximum(kind)
    [] operator = "/" -> <<<<"cbz", ArithmeticFailure, "w0">>, <<"udiv", "w0", "w1", "w0">>>>
    [] operator = "%" -> <<<<"cbz", ArithmeticFailure, "w0">>, <<"udiv", "w2", "w1", "w0">>,
                           <<"msub", "w0", "w2", "w0", "w1">>>>

(* A product fits when its high half is the sign of its low half; "d"      *)
(* stands for the sign-extended half that the code compares with.          *)
emit_signed_arithmetic(c, operator) ==
  LET safe == c.labels + 1
      guarded == Emit(Fresh(c, 1),
        <<<<"cbz", ArithmeticFailure, "w0">>, <<"cmpi", "w1", Word \div 2, Word>>, <<"jcc", safe, "ne">>,
          <<"cmpi", "w0", Word - 1, Word>>, Fail("e")>>)
      divide == IF operator = "/" THEN <<<<"sdiv", "w0", "w1", "w0">>>>
                ELSE <<<<"sdiv", "w2", "w1", "w0">>, <<"msub", "w0", "w2", "w0", "w1">>>>
  IN CASE operator = "+" -> Emit(c, <<<<"add", "w0", "w1", "w0", Word>>, Fail("o")>>)
       [] operator = "-" -> Emit(c, <<<<"sub", "w0", "w1", "w0", Word>>, Fail("o")>>)
       [] operator = "*" -> Emit(c, <<<<"imul", "w2", "w1", "w0", Word>>, <<"signs", "d", "w2", Word>>,
                                      <<"cmp", "w3", "d", Word>>, Fail("ne"), <<"mov", "w0", "w2", Word>>>>)
       [] OTHER -> Emit(Bind(guarded, safe), divide)

emit_arithmetic(c, operator, kind) ==
  IF Signed(kind) THEN emit_signed_arithmetic(c, operator)
  ELSE Emit(c, emit_unsigned_arithmetic(operator, kind))

RECURSIVE known_kind(_, _)
known_kind(c, e) ==
  CASE e[1] \in {"id", "index"} -> Lookup(c, e[2]).kind
    [] e[1] \in {"bool", "not"} -> "bool"
    [] e[1] = "neg" -> "i32"
    [] e[1] = "bin" /\ e[2] \in Comparisons \union Logical -> "bool"
    [] e[1] = "bin" /\ e[2] \notin Comparisons \union Logical -> Chosen({known_kind(c, e[3]), known_kind(c, e[4])} \ {"any"}, "any")
    [] e[1] \in {"cast", "device"} -> e[2]
    [] e[1] = "call" -> IF c.functions[e[2]].returns = "none" THEN "any" ELSE c.functions[e[2]].returns
    [] OTHER -> "any"

infer_binary_kind(c, left, right, expected) ==
  Chosen({expected, known_kind(c, left), known_kind(c, right)} \ {"any"}, "u32")

RECURSIVE compile_expression(_, _, _), compile_user_call(_, _, _, _)

compile_short_circuit(c, left, operator, right) ==
  LET After(l) ==
        LET shortcut == l.labels + 1
            end == l.labels + 2
            tested == Emit(Fresh(l, 2), <<<<IF operator = "or" THEN "cbnz" ELSE "cbz", shortcut, "w0">>>>)
            r == compile_expression(tested, right, "bool")
            joined == Bind(Emit(r, <<<<"jmp", end>>>>), shortcut)
        IN OfKind(Bind(Emit(joined, <<<<"imm", "w0", Word, IF operator = "or" THEN 1 ELSE 0>>>>), end), "bool")
  IN After(compile_expression(c, left, "bool"))

compile_binary(c, left, operator, right, expected) ==
  LET comparison == operator \in Comparisons
      Wrong(kind) == \/ kind = "mixed"
                     \/ comparison /\ (expected \notin {"any", "bool"} \/ (kind = "bool" /\ operator \notin {"==", "!="}))
                     \/ ~comparison /\ ~Numeric(kind)
      Operands(kind) == Emit(compile_expression(Emit(compile_expression(c, left, kind), push_register("w0")), right, kind),
                             pop_register("w1"))
      Result(d, kind) == IF comparison
                         THEN OfKind(Emit(d, <<<<"cmp", "w1", "w0", Word>>,
                                               <<"set", "w0", ConditionOf(operator, Signed(kind)), Word>>>>), "bool")
                         ELSE OfKind(emit_arithmetic(d, operator, kind), kind)
      Of(kind) == IF Wrong(kind) THEN Reject(c) ELSE Result(Operands(kind), kind)
  IN Of(infer_binary_kind(c, left, right, IF comparison THEN "any" ELSE expected))

compile_array_index(c, array, index) ==
  LET Checked(value) == RejectIf(value, ~Numeric(value.kind))
  IN Emit(Checked(compile_expression(c, index, "any")),
          <<<<"cmpi", "w0", array.length, Word>>, <<"jcc", BoundsFailure, "ae">>>>)

(* emit_array_address and the access through x2.                           *)
load_indexed(r, index, array) ==
  <<<<"loadx", r, index, array.at, KindBytes(array.kind), KindBytes(array.kind)>>>>
store_indexed(r, index, array) ==
  <<<<"storex", r, index, array.at, KindBytes(array.kind), KindBytes(array.kind)>>>>

validate_mmio_offset(kind) ==
  <<<<"cmpi", "w0", PageBytes - KindBytes(kind), Word>>, <<"jcc", DeviceFailure, "a">>>>
  \o (IF KindBytes(kind) >= 2 THEN <<<<"tbnz", DeviceFailure, "w0", 1>>>> ELSE <<>>)
  \o (IF KindBytes(kind) = 4 THEN <<<<"tbnz", DeviceFailure, "w0", 2>>>> ELSE <<>>)

compile_mmio_read(c, kind, place, expected) ==
  LET offset == Emit(compile_expression(c, place, "u16"), validate_mmio_offset(kind))
  IN require_kind(OfKind(RejectIf(Emit(offset, <<<<"in", "w0", "w0">>>>), c.device = 0), kind), expected)

compile_mmio_write(c, kind, place, value) ==
  LET offset == Emit(compile_expression(c, place, "u16"), validate_mmio_offset(kind) \o push_register("w0"))
      given == Emit(compile_expression(offset, value, kind), pop_register("w1"))
  IN RejectIf(Emit(given, <<<<"out", "w1", "w0">>>>), c.device = 0)

compile_expression(c, e, expected) ==
  IF c.rejected THEN c ELSE
  CASE e[1] = "int" ->
         LET kind == IF expected = "any" THEN "u32" ELSE expected
         IN IF ~Numeric(kind) \/ e[2] > Largest(kind) THEN Reject(c)
            ELSE OfKind(Emit(c, <<<<"imm", "w0", Word, e[2]>>>>), kind)
    [] e[1] = "bool" ->
         require_kind(OfKind(Emit(c, <<<<"imm", "w0", Word, IF e[2] THEN 1 ELSE 0>>>>), "bool"), expected)
    [] e[1] = "id" -> LET local == Lookup(c, e[2])
                      IN IF local.length > 0 THEN Reject(c)
                         ELSE require_kind(OfKind(Load(c, local, "w0"), local.kind), expected)
    [] e[1] = "index" -> LET array == Lookup(c, e[2])
                             read == Emit(compile_array_index(c, array, e[3]), load_indexed("w0", "w0", array))
                         IN IF array.length = 0 THEN Reject(c)
                            ELSE require_kind(OfKind(read, array.kind), expected)
    [] e[1] = "not" -> require_kind(OfKind(Emit(compile_expression(c, e[2], "bool"),
                         <<<<"cmpi", "w0", 0, Word>>, <<"set", "w0", "e", Word>>>>), "bool"), expected)
    [] e[1] = "neg" ->
         IF expected \notin {"any", "i32"} THEN Reject(c)
         ELSE IF e[2] = <<"int", Word \div 2>>
           THEN OfKind(Emit(c, <<<<"imm", "w0", Word, Word \div 2>>>>), "i32")
           ELSE OfKind(Emit(compile_expression(c, e[2], "i32"), <<<<"neg", "w0", Word>>, Fail("o")>>), "i32")
    [] e[1] = "bin" /\ e[2] \in Logical -> require_kind(compile_short_circuit(c, e[3], e[2], e[4]), expected)
    [] e[1] = "bin" /\ e[2] \notin Logical -> compile_binary(c, e[3], e[2], e[4], expected)
    [] e[1] = "cast" -> require_kind(OfKind(compile_expression(c, e[3], e[2]), e[2]), expected)
    [] e[1] = "device" -> compile_mmio_read(c, e[2], e[3], expected)
    [] e[1] = "call" -> LET Valued(called) == RejectIf(called, called.kind = "none")
                        IN Valued(compile_user_call(c, e[2], e[3], expected))
    [] OTHER -> Reject(c)

(* A frame slot is loaded and pushed, the push with its check.             *)
save_frame(frame) ==
  [k \in 1..(4 * Len(frame)) |->
     IF k % 4 = 1 THEN LoadOf(frame[(k + 3) \div 4], "w0") ELSE push_register("w0")[(k - 1) % 4]]
restore_slots(slots, r) ==
  LET Back(i) == slots[Len(slots) + 1 - i]
  IN Pairs(Len(slots), LAMBDA i : <<"pop", r, 16>>, LAMBDA i : StoreOf(Back(i), r))
SlotsOf(parameters) == [i \in DOMAIN parameters |-> parameters[i][2]]

RECURSIVE compile_arguments(_, _, _, _)
compile_arguments(c, parameters, arguments, i) ==
  IF c.rejected \/ i > Len(arguments) THEN c
  ELSE compile_arguments(Emit(compile_expression(c, arguments[i], parameters[i][2].kind), push_register("w0")),
                         parameters, arguments, i + 1)

compile_user_call(c, name, arguments, expected) ==
  LET info == c.functions[name]
      saved == Emit(c, save_frame(info.frame))
      passed == Emit(compile_arguments(saved, info.parameters, arguments, 1),
                     restore_slots(SlotsOf(info.parameters), "w0"))
      called == Emit(passed, <<<<"bl", info.label>>>>)
      kept == Emit(called, IF info.returns = "none" THEN <<>> ELSE <<<<"mov", "w8", "w0", Word>>>>)
      restored == Emit(kept, restore_slots(info.frame, "w1"))
      result == Emit(restored, IF info.returns = "none" THEN <<>> ELSE <<<<"mov", "w0", "w8", Word>>>>)
      Typed(d) == IF info.returns = "none" THEN d ELSE require_kind(d, expected)
  IN IF name = "main" \/ Len(arguments) # Len(info.parameters) THEN Reject(c)
     ELSE Typed(OfKind(result, info.returns))

emit_print_scalar(c) ==
  LET no == c.labels + 1
      end == c.labels + 2
      yes == Emit(Fresh(c, 2), <<<<"cbz", no, "w0">>, <<"print", "text", TRUE>>, <<"jmp", end>>>>)
  IN CASE c.kind = "bool" -> Bind(Emit(Bind(yes, no), <<<<"print", "text", FALSE>>>>), end)
       [] Signed(c.kind) -> Emit(c, <<<<"print", "signed", "w0">>>>)
       [] OTHER -> Emit(c, <<<<"print", "unsigned", "w0">>>>)

compile_place_assignment(c, name, index, operator, e) ==
  LET array == Lookup(c, name)
      offset == Emit(compile_array_index(c, array, index), push_register("w0"))
      value == Emit(compile_expression(offset, e, array.kind), pop_register("w3"))
      Old(d) == Emit(d, push_register("w3") \o load_indexed("w1", "w3", array))
      Assigned(d) == IF operator = "=" THEN d
                     ELSE Emit(emit_arithmetic(Old(d), operator, array.kind), pop_register("w3"))
  IN IF array.length = 0 \/ (operator # "=" /\ ~Numeric(array.kind)) THEN Reject(c)
     ELSE Emit(Assigned(value), store_indexed("w0", "w3", array))

compile_return(c, e) ==
  CASE c.main -> RejectIf(Emit(c, <<<<"jmp", HaltLabel>>>>), e # <<>>)
    [] ~c.main /\ (c.returns = "none") # (e = <<>>) -> Reject(c)
    [] ~c.main /\ e = <<>> -> Emit(c, emit_return)
    [] OTHER -> Emit(compile_expression(c, e, c.returns), emit_return)

RECURSIVE compile_statement(_, _)
RECURSIVE compile_statements(_, _, _)
compile_statements(c, block, i) ==
  IF c.rejected \/ i > Len(block) THEN c
  ELSE compile_statements(compile_statement(c, block[i]), block, i + 1)
compile_block(c, block) == Leave(compile_statements(Enter(c, Empty), block, 1))

InLoop(c, start, end, body) ==
  LET inside == compile_block([c EXCEPT !.loops = Append(@, [again |-> start, out |-> end])], body)
  IN Bind(Emit([inside EXCEPT !.loops = c.loops], <<<<"jmp", start>>>>), end)

compile_if(c, s) ==
  LET Branches(condition) ==
        LET alternate == condition.labels + 1
            end == condition.labels + 2
            then == compile_block(Emit(Fresh(condition, 2), <<<<"cbz", alternate, "w0">>>>), s[3])
        IN Bind(compile_block(Bind(Emit(then, <<<<"jmp", end>>>>), alternate), s[4]), end)
  IN Branches(compile_expression(c, s[2], "bool"))

compile_loop(c, s) ==
  LET start == c.labels + 1
      end == c.labels + 2
      begun == Bind(Fresh(c, 2), start)
      condition == Emit(compile_expression(begun, s[2], "bool"), <<<<"cbz", end, "w0">>>>)
  IN IF s[1] = "while" THEN InLoop(condition, start, end, s[3]) ELSE InLoop(begun, start, end, s[2])

compile_binding(c, s) ==
  LET local == c.locals[s[6]]
      Element(i) == [local EXCEPT !.at = @ + (i - 1) * KindBytes(local.kind)]
      filled == FoldLeft(LAMBDA d, i : Store(compile_expression(d, s[5][i], local.kind), Element(i), "w0"),
                         c, [i \in 1..local.length |-> i])
  IN IF local.length > 0 THEN Declare(RejectIf(filled, Len(s[5]) # local.length), s[2], local)
     ELSE Declare(Store(compile_expression(c, s[5], local.kind), local, "w0"), s[2], local)

compile_assignment(c, s) ==
  LET local == Lookup(c, s[2])
      Assigned(d) == IF s[3] = "=" THEN d ELSE emit_arithmetic(Load(d, local, "w1"), s[3], local.kind)
  IN IF local.length > 0 \/ (s[3] # "=" /\ ~Numeric(local.kind)) THEN Reject(c)
     ELSE Store(Assigned(compile_expression(c, s[4], local.kind)), local, "w0")

compile_statement(c, s) ==
  IF c.rejected THEN c ELSE
  CASE s[1] = "let" -> compile_binding(c, s)
    [] s[1] = "assign" -> compile_assignment(c, s)
    [] s[1] = "place" -> compile_place_assignment(c, s[2], s[3], s[4], s[5])
    [] s[1] = "print" -> emit_print_scalar(compile_expression(c, s[2], "any"))
    [] s[1] = "do" -> compile_user_call(c, s[2], s[3], "any")
    [] s[1] = "device" -> compile_mmio_write(c, s[2], s[3], s[4])
    [] s[1] = "if" -> compile_if(c, s)
    [] s[1] \in {"while", "loop"} -> compile_loop(c, s)
    [] s[1] = "break" -> Emit(c, <<<<"jmp", Last(c.loops).out>>>>)
    [] s[1] = "continue" -> Emit(c, <<<<"jmp", Last(c.loops).again>>>>)
    [] s[1] = "return" -> compile_return(c, s[2])
    [] s[1] = "unsafe" ->
         IF s[2] # {"DeviceIo"} THEN Reject(c)
         ELSE [compile_block([c EXCEPT !.device = @ + 1], s[3]) EXCEPT !.device = c.device]

(* compile_function: its entry, its statements and its exit.               *)
begin_function(c, f) ==
  LET info == c.functions[f.name]
      main == f.name = "main"
      begun == [Bind(c, info.label) EXCEPT !.returns = info.returns, !.main = main,
                                           !.function = f.name, !.loops = <<>>]
      scope == [x \in {p[1] : p \in Range(info.parameters)} |->
                  (CHOOSE p \in Range(info.parameters) : p[1] = x)[2]]
  IN Enter(Enter(Emit(begun, IF main THEN <<>> ELSE push_register("x30")), scope), Empty)

end_function(c) ==
  LET body == Leave(Leave(c))
  IN CASE c.main -> Emit(body, <<<<"jmp", HaltLabel>>>>)
       [] ~c.main /\ c.returns # "none" -> Emit(body, <<<<"jmp", ArithmeticFailure>>>>)
       [] OTHER -> Emit(body, emit_return)

compile_function(c, f, at) ==
  CASE at = 0 -> begin_function(c, f)
    [] at > Len(f.body) -> end_function(c)
    [] OTHER -> compile_statement(c, f.body[at])

emit_routines(c) ==
  LET failures == FoldLeft(LAMBDA d, i : Emit(Bind(d, i), <<<<"end", Failures[i]>>>>), c, <<1, 2, 3, 4>>)
  IN Emit(Bind(failures, HaltLabel), <<<<"end", "halt">>>>)
=============================================================================
