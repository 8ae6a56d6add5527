---------------------------- MODULE Protected32 ----------------------------
(***************************************************************************)
(* The 32-bit protected-mode back end (freestanding32.rs): the frame       *)
(* discipline of the real-mode one, with full-width registers, fixed       *)
(* arrays, exact scalar constructors and byte ports.                       *)
(***************************************************************************)
EXTENDS ScalarMachine, SequencesExt

CONSTANTS StackTop, Reserve, MaxLocals, MaxLocalBytes

PushBytes == 4
KindBytes(kind) == CASE kind = "u8" -> 1 [] kind = "u16" -> 2 [] OTHER -> 4
LoadOf(local) == <<"load", "a", Word, local.at, KindBytes(local.kind)>>
StoreOf(local) == <<"store", "a", local.at, KindBytes(local.kind)>>
Load(c, local) == Emit(c, <<LoadOf(local)>>)
Store(c, local) == Emit(c, <<StoreOf(local)>>)
Push == <<"push", "a", PushBytes>>
Pop == <<"pop", "a", PushBytes>>
ToSecondary == <<"mov", "b", "a", Word>>
Fail(condition) == <<"jcc", ArithmeticFailure, condition>>
Chosen(kinds, default) == CASE kinds = {} -> default
                            [] \E k \in kinds : kinds = {k} -> CHOOSE k \in kinds : TRUE
                            [] OTHER -> "mixed"

allocate_local(c, kind) ==
  LET size == KindBytes(kind)
      aligned == ((c.bytes + size - 1) \div size) * size
  IN [RejectIf(c, aligned + size > MaxLocalBytes \/ Len(c.slots) = MaxLocals) EXCEPT
        !.bytes = aligned + size, !.slots = Append(@, [at |-> aligned, kind |-> kind, length |-> 0])]

(* An array is its elements in a row; its record starts at the first one.  *)
RECURSIVE preallocate_block_locals(_, _)
preallocate_block_locals(c, block) ==
  LET allocate(d, s) ==
        CASE s[1] = "let" ->
               LET next == FoldLeft(LAMBDA x, i : allocate_local(x, s[3]), d,
                                    [i \in 1..(IF s[4] = 0 THEN 1 ELSE s[4]) |-> i])
               IN [next EXCEPT !.locals = (s[6] :> [next.slots[Len(d.slots) + 1] EXCEPT !.length = s[4]]) @@ @]
          [] s[1] = "if" -> preallocate_block_locals(preallocate_block_locals(d, s[3]), s[4])
          [] s[1] \in {"while", "unsafe"} -> preallocate_block_locals(d, s[3])
          [] s[1] = "loop" -> preallocate_block_locals(d, s[2])
          [] OTHER -> d
  IN FoldLeft(allocate, c, block)

(* Compiler::new: every function's slots are laid out before any code.     *)
new(program) ==
  LET register(c, f) ==
        LET parameters == FoldLeft(LAMBDA d, p : allocate_local(d, p[2]), c, f.parameters)
            all == preallocate_block_locals(parameters, f.body)
            first == Len(c.slots) + 1
        IN [all EXCEPT !.labels = @ + 1,
              !.functions = (f.name :> [label |-> c.labels + 1, returns |-> f.returns,
                 parameters |-> [i \in DOMAIN f.parameters |->
                                   <<f.parameters[i][1], parameters.slots[first + i - 1]>>],
                 frame |-> SubSeq(all.slots, first, Len(all.slots))]) @@ @]
  IN FoldLeft(register, Compiler, program)

guard_stack(c, required) ==
  RejectIf(Emit(c, <<<<"cmpsp", Reserve + required, StackTop>>, <<"jcc", StackFailure, "b">>>>),
           Reserve + required >= StackTop)

emit_checked_unsigned_division(operator) ==
  <<<<"test", "b", Word>>, Fail("e"), <<"imm", "d", Word, 0>>, <<"div", Word>>>>
  \o (IF operator = "%" THEN <<<<"mov", "a", "d", Word>>>> ELSE <<>>)

emit_checked_narrow(operator, maximum) ==
  CASE operator = "+" -> <<<<"add", "a", "a", "b", Word>>, <<"cmpi", "a", maximum, Word>>, Fail("a")>>
    [] operator = "-" -> <<<<"sub", "a", "a", "b", Word>>, Fail("b")>>
    [] operator = "*" -> <<<<"mul", "a", "a", "b", Word>>, <<"cmpi", "a", maximum, Word>>, Fail("a")>>
    [] OTHER -> emit_checked_unsigned_division(operator)

emit_checked_u32(operator) ==
  CASE operator = "+" -> <<<<"add", "a", "a", "b", Word>>, Fail("b")>>
    [] operator = "-" -> <<<<"sub", "a", "a", "b", Word>>, Fail("b")>>
    [] operator = "*" -> <<<<"mul", "a", "a", "b", Word>>, <<"test", "d", Word>>, Fail("ne")>>
    [] OTHER -> emit_checked_unsigned_division(operator)

(* The smallest i32 divided by minus one is caught before idiv.            *)
emit_checked_i32(c, operator) ==
  LET safe == c.labels + 1
      guarded == Emit(Fresh(c, 1), <<<<"test", "b", Word>>, Fail("e"), <<"cmpi", "a", Word \div 2, Word>>,
                                     <<"jcc", safe, "ne">>, <<"cmpi", "b", Word - 1, Word>>, Fail("e")>>)
  IN CASE operator = "+" -> Emit(c, <<<<"add", "a", "a", "b", Word>>, Fail("o")>>)
       [] operator = "-" -> Emit(c, <<<<"sub", "a", "a", "b", Word>>, Fail("o")>>)
       [] operator = "*" -> Emit(c, <<<<"imul", "a", "a", "b", Word>>, <<"signs", "c", "a", Word>>,
                                      <<"cmp", "d", "c", Word>>, Fail("ne")>>)
       [] OTHER -> Emit(Bind(guarded, safe), <<<<"idiv", Word>>>>
                        \o (IF operator = "%" THEN <<<<"mov", "a", "d", Word>>>> ELSE <<>>))

emit_checked_arithmetic(c, operator, kind) ==
  CASE kind \in {"u8", "u16"} -> Emit(c, emit_checked_narrow(operator, Largest(kind)))
    [] kind = "u32" -> Emit(c, emit_checked_u32(operator))
    [] OTHER -> emit_checked_i32(c, operator)

emit_comparison(c, condition) ==
  Emit(c, <<<<"cmp", "a", "b", Word>>, <<"set", "a", condition, Word>>>>)

emit_binary_operator(c, operator, left, right) ==
  IF left # right \/ (left = "bool" /\ operator \notin {"==", "!="}) THEN Reject(c)
  ELSE IF operator \in Comparisons
    THEN OfKind(emit_comparison(c, ConditionOf(operator, Signed(left))), "bool")
    ELSE OfKind(emit_checked_arithmetic(c, operator, left), left)

RECURSIVE expression_hint(_, _)
expression_hint(c, e) ==
  CASE e[1] \in {"id", "index"} -> Lookup(c, e[2]).kind
    [] e[1] \in {"bool", "not"} -> "bool"
    [] e[1] = "neg" -> "i32"
    [] e[1] = "bin" /\ e[2] \in Comparisons \union Logical -> "bool"
    [] e[1] = "bin" /\ e[2] \notin Comparisons \union Logical -> Chosen({expression_hint(c, e[3]), expression_hint(c, e[4])} \ {"any"}, "any")
    [] e[1] = "call" -> IF c.functions[e[2]].returns = "none" THEN "any" ELSE c.functions[e[2]].returns
    [] OTHER -> "any"

infer_binary_kind(c, left, right, expected) ==
  Chosen({expected, expression_hint(c, left), expression_hint(c, right)} \ {"any"}, "u32")

RECURSIVE compile_expression(_, _, _), compile_user_call(_, _, _, _)

compile_short_circuit(c, left, operator, right) ==
  LET After(l) ==
        LET shortcut == l.labels + 1
            end == l.labels + 2
            tested == Emit(Fresh(l, 2), <<<<"test", "a", Word>>,
                                          <<"jcc", shortcut, IF operator = "and" THEN "e" ELSE "ne">>>>)
            r == require_kind(compile_expression(tested, right, "bool"), "bool")
            joined == Bind(Emit(r, <<<<"jmp", end>>>>), shortcut)
        IN OfKind(Bind(Emit(joined, <<<<"imm", "a", Word, IF operator = "or" THEN 1 ELSE 0>>>>), end), "bool")
  IN After(require_kind(compile_expression(c, left, "bool"), "bool"))

compile_array_offset(c, array, index) ==
  LET Checked(value) == RejectIf(value, ~Numeric(value.kind))
  IN Emit(Checked(compile_expression(c, index, "any")),
          <<<<"cmpi", "a", array.length, Word>>, <<"jcc", BoundsFailure, "ae">>,
            <<"shl", "a", KindBytes(array.kind)>>>>)

load_indexed(r, index, array) == <<"loadx", r, index, array.at, KindBytes(array.kind), 1>>
store_indexed(r, index, array) == <<"storex", r, index, array.at, KindBytes(array.kind), 1>>

compile_port_read(c, port, expected) ==
  LET value == require_kind(compile_expression(c, port, "u16"), "u16")
  IN require_kind(OfKind(RejectIf(Emit(value, <<<<"in", "a", "a">>>>), c.device = 0), "u8"), expected)

compile_port_write(c, port, value) ==
  LET p == require_kind(compile_expression(c, port, "u16"), "u16")
      v == require_kind(compile_expression(Emit(p, <<Push>>), value, "u8"), "u8")
  IN RejectIf(Emit(v, <<<<"pop", "d", PushBytes>>, <<"out", "d", "a">>>>), c.device = 0)

compile_expression(c, e, expected) ==
  IF c.rejected THEN c ELSE
  CASE e[1] = "int" ->
         LET kind == IF expected = "any" THEN "u32" ELSE expected
         IN IF ~Numeric(kind) \/ e[2] > Largest(kind) THEN Reject(c)
            ELSE OfKind(Emit(c, <<<<"imm", "a", Word, e[2]>>>>), kind)
    [] e[1] = "bool" ->
         require_kind(OfKind(Emit(c, <<<<"imm", "a", Word, IF e[2] THEN 1 ELSE 0>>>>), "bool"), expected)
    [] e[1] = "id" -> LET local == Lookup(c, e[2])
                      IN IF local.length > 0 THEN Reject(c)
                         ELSE require_kind(OfKind(Load(c, local), local.kind), expected)
    [] e[1] = "index" -> LET array == Lookup(c, e[2])
                             read == Emit(compile_array_offset(c, array, e[3]), <<load_indexed("a", "a", array)>>)
                         IN IF array.length = 0 THEN Reject(c)
                            ELSE require_kind(OfKind(read, array.kind), expected)
    [] e[1] = "not" -> Emit(require_kind(compile_expression(c, e[2], "bool"), "bool"),
                            <<<<"test", "a", Word>>, <<"set", "a", "e", Word>>>>)
    [] e[1] = "neg" ->
         IF expected \notin {"any", "i32"} THEN Reject(c)
         ELSE IF e[2] = <<"int", Word \div 2>>
           THEN OfKind(Emit(c, <<<<"imm", "a", Word, Word \div 2>>>>), "i32")
           ELSE Emit(require_kind(compile_expression(c, e[2], "i32"), "i32"),
                     <<<<"neg", "a", Word>>, Fail("o")>>)
    [] e[1] = "bin" /\ e[2] \in Logical -> compile_short_circuit(c, e[3], e[2], e[4])
    [] e[1] = "bin" /\ e[2] \notin Logical ->
         LET Right(r, left) == emit_binary_operator(Emit(r, <<ToSecondary, Pop>>), e[2], left, r.kind)
             Left(l, kind) == Right(compile_expression(Emit(l, <<Push>>), e[4], kind), l.kind)
             Of(kind) == IF kind = "mixed" THEN Reject(c) ELSE Left(compile_expression(c, e[3], kind), kind)
         IN Of(infer_binary_kind(c, e[3], e[4], IF e[2] \in Comparisons THEN "any" ELSE expected))
    [] e[1] = "cast" -> require_kind(require_kind(compile_expression(c, e[3], e[2]), e[2]), expected)
    [] e[1] = "device" -> compile_port_read(c, e[3], expected)
    [] e[1] = "call" -> LET Valued(called) == RejectIf(called, called.kind = "none")
                        IN Valued(compile_user_call(c, e[2], e[3], expected))
    [] OTHER -> Reject(c)

(* The callee's slots go to the stack and come back; the arguments are all *)
(* evaluated before the first parameter slot is written.                   *)
save_frame(frame) == Pairs(Len(frame), LAMBDA i : LoadOf(frame[i]), LAMBDA i : Push)
restore_frame(frame) ==
  LET Back(i) == frame[Len(frame) + 1 - i]
  IN Pairs(Len(frame), LAMBDA i : Pop, LAMBDA i : StoreOf(Back(i)))
SlotsOf(parameters) == [i \in DOMAIN parameters |-> parameters[i][2]]

RECURSIVE compile_arguments(_, _, _, _)
compile_arguments(c, parameters, arguments, i) ==
  LET kind == parameters[i][2].kind
  IN IF c.rejected \/ i > Len(arguments) THEN c
     ELSE compile_arguments(Emit(require_kind(compile_expression(c, arguments[i], kind), kind), <<Push>>),
                            parameters, arguments, i + 1)

compile_user_call(c, name, arguments, expected) ==
  LET info == c.functions[name]
      guarded == guard_stack(c, (Len(info.frame) + Len(info.parameters) + 1) * PushBytes)
      saved == Emit(guarded, save_frame(info.frame))
      passed == Emit(compile_arguments(saved, info.parameters, arguments, 1),
                     restore_frame(SlotsOf(info.parameters)))
      called == Emit(passed, <<<<"call", info.label, PushBytes>>>>)
      kept == Emit(called, IF info.returns = "none" THEN <<>> ELSE <<<<"mov", "c", "a", Word>>>>)
      restored == Emit(kept, restore_frame(info.frame))
      result == Emit(restored, IF info.returns = "none" THEN <<>> ELSE <<<<"mov", "a", "c", Word>>>>)
      Typed(d) == IF info.returns = "none" THEN d ELSE require_kind(d, expected)
  IN IF name = "main" \/ Len(arguments) # Len(info.parameters) THEN Reject(c)
     ELSE Typed(OfKind(result, info.returns))

emit_print_bool(c) ==
  LET no == c.labels + 1
      end == c.labels + 2
      yes == Emit(Fresh(c, 2), <<<<"test", "a", Word>>, <<"jcc", no, "e">>,
                                 <<"print", "text", TRUE>>, <<"jmp", end>>>>)
  IN Bind(Emit(Bind(yes, no), <<<<"print", "text", FALSE>>>>), end)

compile_print(c, e) ==
  LET Shown(value) ==
        CASE value.kind \in {"u8", "u16", "u32"} -> Emit(value, <<<<"print", "unsigned", "a">>>>)
          [] value.kind = "i32" -> Emit(value, <<<<"print", "signed", "a">>>>)
          [] OTHER -> emit_print_bool(value)
  IN Shown(compile_expression(c, e, "any"))

compile_place_assignment(c, name, index, operator, e) ==
  LET array == Lookup(c, name)
      offset == Emit(compile_array_offset(c, array, index), <<Push>>)
      value == Emit(require_kind(compile_expression(offset, e, array.kind), array.kind),
                    <<ToSecondary, <<"pop", "c", PushBytes>>>>)
      Old(d) == Emit(d, <<load_indexed("a", "c", array), <<"push", "c", PushBytes>>>>)
      Assigned(d) == IF operator = "=" THEN d
                     ELSE Emit(emit_checked_arithmetic(Old(d), operator, array.kind),
                               <<<<"pop", "c", PushBytes>>, ToSecondary>>)
  IN IF array.length = 0 \/ (operator # "=" /\ ~Numeric(array.kind)) THEN Reject(c)
     ELSE Emit(Assigned(value), <<store_indexed("b", "c", array)>>)

compile_return(c, e) ==
  CASE c.main -> RejectIf(Emit(c, <<<<"jmp", HaltLabel>>>>), e # <<>>)
    [] ~c.main /\ (c.returns = "none") # (e = <<>>) -> Reject(c)
    [] ~c.main /\ e = <<>> -> Emit(c, <<<<"ret", PushBytes>>>>)
    [] OTHER -> Emit(require_kind(compile_expression(c, e, c.returns), c.returns), <<<<"ret", PushBytes>>>>)

RECURSIVE compile_statement(_, _)
RECURSIVE compile_statements(_, _, _)
compile_statements(c, block, i) ==
  IF c.rejected \/ i > Len(block) THEN c
  ELSE compile_statements(compile_statement(c, block[i]), block, i + 1)
compile_block(c, block) == Leave(compile_statements(Enter(c, Empty), block, 1))

InLoop(c, start, end, body) ==
  LET inside == compile_block([c EXCEPT !.loops = Append(@, [again |-> start, out |-> end])], body)
  IN Bind(Emit([inside EXCEPT !.loops = c.loops], <<<<"jmp", start>>>>), end)

compile_if(c, s) ==
  LET Branches(condition) ==
        LET alternate == condition.labels + 1
            end == condition.labels + 2
            then == compile_block(Emit(Fresh(condition, 2), <<<<"test", "a", Word>>, <<"jcc", alternate, "e">>>>), s[3])
        IN Bind(compile_block(Bind(Emit(then, <<<<"jmp", end>>>>), alternate), s[4]), end)
  IN Branches(require_kind(compile_expression(c, s[2], "bool"), "bool"))

compile_loop(c, s) ==
  LET start == c.labels + 1
      end == c.labels + 2
      begun == Bind(Fresh(c, 2), start)
      condition == Emit(require_kind(compile_expression(begun, s[2], "bool"), "bool"),
                        <<<<"test", "a", Word>>, <<"jcc", end, "e">>>>)
  IN IF s[1] = "while" THEN InLoop(condition, start, end, s[3]) ELSE InLoop(begun, start, end, s[2])

compile_binding(c, s) ==
  LET local == c.locals[s[6]]
      Element(i) == [local EXCEPT !.at = @ + (i - 1) * KindBytes(local.kind)]
      filled == FoldLeft(LAMBDA d, i : Store(require_kind(compile_expression(d, s[5][i], local.kind), local.kind),
                                             Element(i)), c, [i \in 1..local.length |-> i])
  IN IF local.length > 0 THEN Declare(RejectIf(filled, Len(s[5]) # local.length), s[2], local)
     ELSE Declare(Store(require_kind(compile_expression(c, s[5], local.kind), local.kind), local), s[2], local)

compile_assignment(c, s) ==
  LET local == Lookup(c, s[2])
      Assigned(d) == IF s[3] = "=" THEN d
                     ELSE emit_checked_arithmetic(Load(Emit(d, <<ToSecondary>>), local), s[3], local.kind)
  IN IF local.length > 0 \/ (s[3] # "=" /\ ~Numeric(local.kind)) THEN Reject(c)
     ELSE Store(Assigned(require_kind(compile_expression(c, s[4], local.kind), local.kind)), local)

compile_statement(c, s) ==
  IF c.rejected THEN c ELSE
  CASE s[1] = "let" -> compile_binding(c, s)
    [] s[1] = "assign" -> compile_assignment(c, s)
    [] s[1] = "place" -> compile_place_assignment(c, s[2], s[3], s[4], s[5])
    [] s[1] = "print" -> compile_print(c, s[2])
    [] s[1] = "do" -> compile_user_call(c, s[2], s[3], "any")
    [] s[1] = "device" -> compile_port_write(c, s[3], s[4])
    [] s[1] = "if" -> compile_if(c, s)
    [] s[1] \in {"while", "loop"} -> compile_loop(c, s)
    [] s[1] = "break" -> Emit(c, <<<<"jmp", Last(c.loops).out>>>>)
    [] s[1] = "continue" -> Emit(c, <<<<"jmp", Last(c.loops).again>>>>)
    [] s[1] = "return" -> compile_return(c, s[2])
    [] s[1] = "unsafe" ->
         IF s[2] # {"DeviceIo"} THEN Reject(c)
         ELSE [compile_block([c EXCEPT !.device = @ + 1], s[3]) EXCEPT !.device = c.device]

(* compile_function: its entry, its statements and its exit.               *)
begin_function(c, f) ==
  LET info == c.functions[f.name]
      main == f.name = "main"
      begun == [Bind(c, info.label) EXCEPT !.returns = info.returns, !.main = main,
                                           !.function = f.name, !.loops = <<>>]
      scope == [x \in {p[1] : p \in Range(info.parameters)} |->
                  (CHOOSE p \in Range(info.parameters) : p[1] = x)[2]]
  IN Enter(Enter(begun, scope), Empty)

end_function(c) ==
  LET body == Leave(Leave(c))
  IN CASE c.main -> Emit(body, <<<<"jmp", HaltLabel>>>>)
       [] ~c.main /\ c.returns # "none" -> Emit(body, <<<<"jmp", ArithmeticFailure>>>>)
       [] OTHER -> Emit(body, <<<<"ret", PushBytes>>>>)

compile_function(c, f, at) ==
  CASE at = 0 -> begin_function(c, f)
    [] at > Len(f.body) -> end_function(c)
    [] OTHER -> compile_statement(c, f.body[at])

emit_routines(c) ==
  LET failures == FoldLeft(LAMBDA d, i : Emit(Bind(d, i), <<<<"end", Failures[i]>>>>), c, <<1, 2, 3, 4>>)
  IN Emit(Bind(failures, HaltLabel), <<<<"end", "halt">>>>)
=============================================================================
