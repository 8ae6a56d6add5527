----------------------------- MODULE RealMode16 -----------------------------
(***************************************************************************)
(* The 16-bit BIOS back end (freestanding.rs).  Locals live in static      *)
(* slots, so a call saves the callee's slots on the stack, evaluates the   *)
(* arguments, calls, and restores the slots: recursion works only if that  *)
(* order is right.  Narrow values use ax and leave the upper half of eax.  *)
(***************************************************************************)
EXTENDS ScalarMachine, SequencesExt

CONSTANTS StackTop, Reserve, MaxLocals, MaxLocalBytes

ReturnBytes == 2
KindBytes(kind) == CASE kind = "u8" -> 1 [] kind \in {"u16", "bool"} -> 2 [] OTHER -> 4
StackBytes(kind) == IF Wide(kind) THEN 4 ELSE 2
Size(kind) == IF Wide(kind) THEN Word ELSE Half

LoadOf(local) == <<"load", "a", Size(local.kind), local.at, KindBytes(local.kind)>>
StoreOf(local) == <<"store", "a", local.at, KindBytes(local.kind)>>
Load(c, local) == Emit(c, <<LoadOf(local)>>)
Store(c, local) == Emit(c, <<StoreOf(local)>>)
Push(kind) == <<"push", "a", StackBytes(kind)>>
Pop(kind) == <<"pop", "a", StackBytes(kind)>>
push_accumulator(c, kind) == Emit(c, <<Push(kind)>>)
pop_accumulator(c, kind) == Emit(c, <<Pop(kind)>>)
move_accumulator_to_secondary(c, kind) == Emit(c, <<<<"mov", "b", "a", Size(kind)>>>>)
move_accumulator_to_tertiary(c, kind) == Emit(c, <<<<"mov", "c", "a", Size(kind)>>>>)
move_tertiary_to_accumulator(c, kind) == Emit(c, <<<<"mov", "a", "c", Size(kind)>>>>)
Fail(condition) == <<"jcc", ArithmeticFailure, condition>>

allocate_local(c, kind) ==
  LET aligned == ((c.bytes + KindBytes(kind) - 1) \div KindBytes(kind)) * KindBytes(kind)
      next == aligned + KindBytes(kind)
  IN [RejectIf(c, next > MaxLocalBytes \/ Len(c.slots) = MaxLocals) EXCEPT
        !.bytes = next, !.slots = Append(@, [at |-> aligned, kind |-> kind, length |-> 0])]

RECURSIVE preallocate_block_locals(_, _)
preallocate_block_locals(c, block) ==
  LET allocate(d, s) ==
        CASE s[1] = "let" ->
               LET next == RejectIf(allocate_local(d, s[3]), s[4] > 0)
               IN [next EXCEPT !.locals = (s[6] :> Last(next.slots)) @@ @]
          [] s[1] = "if" -> preallocate_block_locals(preallocate_block_locals(d, s[3]), s[4])
          [] s[1] = "while" -> preallocate_block_locals(d, s[3])
          [] s[1] = "loop" -> preallocate_block_locals(d, s[2])
          [] OTHER -> d
  IN FoldLeft(allocate, c, block)

(* Compiler::new: every function's slots are laid out before any code.     *)
new(program) ==
  LET register(c, f) ==
        LET parameters == FoldLeft(LAMBDA d, p : allocate_local(d, p[2]), c, f.parameters)
            all == preallocate_block_locals(parameters, f.body)
            first == Len(c.slots) + 1
        IN [all EXCEPT !.labels = @ + 1,
              !.functions = (f.name :> [label |-> c.labels + 1, returns |-> f.returns,
                 parameters |-> [i \in DOMAIN f.parameters |->
                                   <<f.parameters[i][1], parameters.slots[first + i - 1]>>],
                 frame |-> SubSeq(all.slots, first, Len(all.slots))]) @@ @]
  IN FoldLeft(register, Compiler, program)

guard_stack(c, required) ==
  RejectIf(Emit(c, <<<<"cmpsp", Reserve + required, StackTop>>, <<"jcc", StackFailure, "b">>>>),
           Reserve + required >= StackTop)

emit_checked_u8(operator) ==
  CASE operator = "+" -> <<<<"add", "a", "a", "b", Half>>, <<"cmpi", "a", Byte - 1, Half>>, Fail("a")>>
    [] operator = "-" -> <<<<"sub", "a", "a", "b", Half>>, Fail("b")>>
    [] operator = "*" -> <<<<"mul", "a", "a", "b", Half>>, <<"cmpi", "a", Byte - 1, Half>>, Fail("a")>>
    [] OTHER -> <<<<"test", "b", Half>>, Fail("e"), <<"imm", "d", Half, 0>>, <<"div", Half>>>>
                \o (IF operator = "%" THEN <<<<"mov", "a", "d", Half>>>> ELSE <<>>)

Unsigned(operator, size) ==
  CASE operator = "+" -> <<<<"add", "a", "a", "b", size>>, Fail("b")>>
    [] operator = "-" -> <<<<"sub", "a", "a", "b", size>>, Fail("b")>>
    [] operator = "*" -> <<<<"mul", "a", "a", "b", size>>, <<"test", "d", size>>, Fail("ne")>>
    [] OTHER -> <<<<"test", "b", size>>, Fail("e"), <<"imm", "d", size, 0>>, <<"div", size>>>>
                \o (IF operator = "%" THEN <<<<"mov", "a", "d", size>>>> ELSE <<>>)
emit_checked_u16(operator) == Unsigned(operator, Half)
emit_checked_u32(operator) == Unsigned(operator, Word)

(* The smallest i32 divided by minus one is caught before idiv.            *)
emit_checked_i32(c, operator) ==
  LET safe == c.labels + 1
      guarded == Emit(Fresh(c, 1), <<<<"test", "b", Word>>, Fail("e"), <<"cmpi", "a", Word \div 2, Word>>,
                                     <<"jcc", safe, "ne">>, <<"cmpi", "b", Word - 1, Word>>, Fail("e")>>)
  IN CASE operator = "+" -> Emit(c, <<<<"add", "a", "a", "b", Word>>, Fail("o")>>)
       [] operator = "-" -> Emit(c, <<<<"sub", "a", "a", "b", Word>>, Fail("o")>>)
       [] operator = "*" -> Emit(c, <<<<"imul", "a", "a", "b", Word>>, <<"signs", "c", "a", Word>>,
                                      <<"cmp", "d", "c", Word>>, Fail("ne")>>)
       [] OTHER -> Emit(Bind(guarded, safe), <<<<"idiv", Word>>>>
                        \o (IF operator = "%" THEN <<<<"mov", "a", "d", Word>>>> ELSE <<>>))

emit_checked_arithmetic(c, operator, kind) ==
  CASE kind = "u8" -> Emit(c, emit_checked_u8(operator))
    [] kind = "u16" -> Emit(c, emit_checked_u16(operator))
    [] kind = "i32" -> emit_checked_i32(c, operator)
    [] OTHER -> Emit(c, emit_checked_u32(operator))

emit_comparison(c, condition, kind) ==
  Emit(c, <<<<"cmp", "a", "b", Size(kind)>>, <<"set", "a", condition, Half>>>>)

emit_binary_operator(c, operator, left, right) ==
  IF left # right \/ (left = "bool" /\ operator \notin {"==", "!="}) THEN Reject(c)
  ELSE IF operator \in Comparisons
    THEN OfKind(emit_comparison(c, ConditionOf(operator, Signed(left)), left), "bool")
    ELSE OfKind(emit_checked_arithmetic(c, operator, left), left)

(* "mixed" is the diagnostic for operands of two kinds.                    *)
RECURSIVE expression_hint(_, _)
expression_hint(c, e) ==
  CASE e[1] = "id" -> Lookup(c, e[2]).kind
    [] e[1] \in {"bool", "not"} -> "bool"
    [] e[1] = "neg" -> "i32"
    [] e[1] = "bin" /\ e[2] \in Comparisons \union Logical -> "bool"
    [] e[1] = "bin" /\ e[2] \notin Comparisons \union Logical ->
         LET hints == {expression_hint(c, e[3]), expression_hint(c, e[4])} \ {"any"}
         IN IF hints = {} THEN "any" ELSE IF \E k \in hints : hints = {k} THEN CHOOSE k \in hints : TRUE ELSE "mixed"
    [] e[1] = "call" -> IF c.functions[e[2]].returns = "none" THEN "any" ELSE c.functions[e[2]].returns
    [] OTHER -> "any"

RECURSIVE contains_large_literal(_)
contains_large_literal(e) ==
  CASE e[1] = "int" -> e[2] > Largest("u16")
    [] e[1] \in {"not", "neg"} -> contains_large_literal(e[2])
    [] e[1] = "bin" -> contains_large_literal(e[3]) \/ contains_large_literal(e[4])
    [] e[1] = "call" -> \E i \in DOMAIN e[3] : contains_large_literal(e[3][i])
    [] OTHER -> FALSE

infer_binary_kind(c, left, right, expected) ==
  LET wanted == (IF Numeric(expected) THEN {expected} ELSE {}) \union
                {expression_hint(c, left), expression_hint(c, right)}
      kinds == wanted \ {"any"}
  IN CASE kinds = {} -> IF contains_large_literal(left) \/ contains_large_literal(right) THEN "u32" ELSE "u16"
       [] \E k \in kinds : kinds = {k} -> CHOOSE k \in kinds : TRUE
       [] OTHER -> "mixed"

RECURSIVE compile_expression(_, _, _), compile_user_call(_, _, _, _)

compile_short_circuit(c, left, operator, right) ==
  LET After(l) ==
        LET shortcut == l.labels + 1
            end == l.labels + 2
            tested == Emit(Fresh(l, 2), <<<<"test", "a", Half>>,
                                          <<"jcc", shortcut, IF operator = "and" THEN "e" ELSE "ne">>>>)
            r == require_kind(compile_expression(tested, right, "bool"), "bool")
            joined == Bind(Emit(r, <<<<"jmp", end>>>>), shortcut)
        IN OfKind(Bind(Emit(joined, <<<<"imm", "a", Half, IF operator = "or" THEN 1 ELSE 0>>>>), end), "bool")
  IN After(require_kind(compile_expression(c, left, "bool"), "bool"))

emit_integer_literal(c, value, kind) ==
  IF ~Numeric(kind) \/ value > Largest(kind) THEN Reject(c)
  ELSE OfKind(Emit(c, <<<<"imm", "a", Size(kind), value>>>>), kind)

compile_expression(c, e, expected) ==
  IF c.rejected THEN c ELSE
  CASE e[1] = "int" ->
         emit_integer_literal(c, e[2], IF expected # "any" THEN expected
                                       ELSE IF e[2] <= Largest("u16") THEN "u16" ELSE "u32")
    [] e[1] = "bool" ->
         require_kind(OfKind(Emit(c, <<<<"imm", "a", Half, IF e[2] THEN 1 ELSE 0>>>>), "bool"), expected)
    [] e[1] = "id" -> LET local == Lookup(c, e[2])
                      IN IF local.length > 0 THEN Reject(c)
                         ELSE require_kind(OfKind(Load(c, local), local.kind), expected)
    [] e[1] = "not" -> Emit(require_kind(compile_expression(c, e[2], "bool"), "bool"),
                            <<<<"test", "a", Half>>, <<"set", "a", "e", Half>>>>)
    [] e[1] = "neg" ->
         IF expected \notin {"any", "i32"} THEN Reject(c)
         ELSE IF e[2] = <<"int", Word \div 2>>
           THEN OfKind(Emit(c, <<<<"imm", "a", Word, Word \div 2>>>>), "i32")
           ELSE Emit(require_kind(compile_expression(c, e[2], "i32"), "i32"),
                     <<<<"neg", "a", Word>>, Fail("o")>>)
    [] e[1] = "bin" /\ e[2] \in Logical -> compile_short_circuit(c, e[3], e[2], e[4])
    [] e[1] = "bin" /\ e[2] \notin Logical ->
         LET Right(r, left, kind) ==
               emit_binary_operator(pop_accumulator(move_accumulator_to_secondary(r, kind), kind), e[2], left, r.kind)
             Left(l, kind) == Right(compile_expression(push_accumulator(l, kind), e[4], kind), l.kind, kind)
             Of(kind) == IF kind = "mixed" THEN Reject(c) ELSE Left(compile_expression(c, e[3], kind), kind)
         IN Of(infer_binary_kind(c, e[3], e[4], expected))
    [] e[1] = "call" -> LET Valued(called) == RejectIf(called, called.kind = "none")
                        IN Valued(compile_user_call(c, e[2], e[3], expected))
    [] OTHER -> Reject(c)

(* The callee's slots go to the stack and come back; the arguments are all *)
(* evaluated before the first parameter slot is written.                   *)
save_frame(frame) == Pairs(Len(frame), LAMBDA i : LoadOf(frame[i]), LAMBDA i : Push(frame[i].kind))
restore_frame(frame) ==
  LET Back(i) == frame[Len(frame) + 1 - i]
  IN Pairs(Len(frame), LAMBDA i : Pop(Back(i).kind), LAMBDA i : StoreOf(Back(i)))
SlotsOf(parameters) == [i \in DOMAIN parameters |-> parameters[i][2]]

RECURSIVE compile_arguments(_, _, _, _)
compile_arguments(c, parameters, arguments, i) ==
  LET kind == parameters[i][2].kind
  IN IF c.rejected \/ i > Len(arguments) THEN c
     ELSE compile_arguments(push_accumulator(require_kind(compile_expression(c, arguments[i], kind), kind), kind),
                            parameters, arguments, i + 1)

(* A call that leaves the callee's slots as it finds them loses the        *)
(* caller's values when the callee is already active.                      *)
compile_user_call_unsaved(c, name, arguments, expected) ==
  LET info == c.functions[name]
      passed == Emit(compile_arguments(c, info.parameters, arguments, 1), restore_frame(SlotsOf(info.parameters)))
  IN OfKind(Emit(passed, <<<<"call", info.label, ReturnBytes>>>>), info.returns)

compile_user_call(c, name, arguments, expected) ==
  LET info == c.functions[name]
      BytesOf(slots) == FoldLeft(LAMBDA n, local : n + StackBytes(local.kind), 0, slots)
      guarded == guard_stack(c, BytesOf(info.frame) + BytesOf(SlotsOf(info.parameters)) + ReturnBytes)
      saved == Emit(guarded, save_frame(info.frame))
      passed == Emit(compile_arguments(saved, info.parameters, arguments, 1),
                     restore_frame(SlotsOf(info.parameters)))
      called == Emit(passed, <<<<"call", info.label, ReturnBytes>>>>)
      Keep(d) == IF info.returns = "none" THEN d ELSE move_accumulator_to_tertiary(d, info.returns)
      Result(d) == IF info.returns = "none" THEN OfKind(d, "none")
                   ELSE require_kind(OfKind(move_tertiary_to_accumulator(d, info.returns), info.returns), expected)
  IN IF name = "main" \/ Len(arguments) # Len(info.parameters) THEN Reject(c)
     ELSE Result(Emit(Keep(called), restore_frame(info.frame)))

emit_print_bool(c) ==
  LET no == c.labels + 1
      end == c.labels + 2
      yes == Emit(Fresh(c, 2), <<<<"test", "a", Half>>, <<"jcc", no, "e">>,
                                 <<"print", "text", TRUE>>, <<"jmp", end>>>>)
  IN Bind(Emit(Bind(yes, no), <<<<"print", "text", FALSE>>>>), end)

compile_print(c, e) ==
  LET Shown(value) ==
        CASE value.kind \in {"u8", "u16"} ->
               Emit(value, <<<<"movzx", "a", Half>>, <<"print", "unsigned", "a">>>>)
          [] value.kind = "u32" -> Emit(value, <<<<"print", "unsigned", "a">>>>)
          [] value.kind = "i32" -> Emit(value, <<<<"print", "signed", "a">>>>)
          [] OTHER -> emit_print_bool(value)
  IN Shown(compile_expression(c, e, "any"))

compile_return(c, e) ==
  CASE c.main -> RejectIf(Emit(c, <<<<"jmp", HaltLabel>>>>), e # <<>>)
    [] ~c.main /\ (c.returns = "none") # (e = <<>>) -> Reject(c)
    [] ~c.main /\ e = <<>> -> Emit(c, <<<<"ret", ReturnBytes>>>>)
    [] OTHER -> Emit(require_kind(compile_expression(c, e, c.returns), c.returns), <<<<"ret", ReturnBytes>>>>)

RECURSIVE compile_statement(_, _)
RECURSIVE compile_statements(_, _, _)
compile_statements(c, block, i) ==
  IF c.rejected \/ i > Len(block) THEN c
  ELSE compile_statements(compile_statement(c, block[i]), block, i + 1)
compile_block(c, block) == Leave(compile_statements(Enter(c, Empty), block, 1))

InLoop(c, start, end, body) ==
  LET inside == compile_block([c EXCEPT !.loops = Append(@, [again |-> start, out |-> end])], body)
  IN Bind(Emit([inside EXCEPT !.loops = c.loops], <<<<"jmp", start>>>>), end)

compile_if(c, s) ==
  LET Branches(condition) ==
        LET alternate == condition.labels + 1
            end == condition.labels + 2
            then == compile_block(Emit(Fresh(condition, 2), <<<<"test", "a", Half>>, <<"jcc", alternate, "e">>>>), s[3])
        IN Bind(compile_block(Bind(Emit(then, <<<<"jmp", end>>>>), alternate), s[4]), end)
  IN Branches(require_kind(compile_expression(c, s[2], "bool"), "bool"))

compile_loop(c, s) ==
  LET start == c.labels + 1
      end == c.labels + 2
      begun == Bind(Fresh(c, 2), start)
      condition == Emit(require_kind(compile_expression(begun, s[2], "bool"), "bool"),
                        <<<<"test", "a", Half>>, <<"jcc", end, "e">>>>)
  IN IF s[1] = "while" THEN InLoop(condition, start, end, s[3]) ELSE InLoop(begun, start, end, s[2])

compile_statement(c, s) ==
  IF c.rejected THEN c ELSE
  CASE s[1] = "let" ->
         LET local == c.locals[s[6]]
         IN Declare(Store(require_kind(compile_expression(c, s[5], local.kind), local.kind), local), s[2], local)
    [] s[1] = "assign" ->
         LET local == Lookup(c, s[2])
             Assign(value) ==
               IF s[3] = "=" THEN value
               ELSE emit_checked_arithmetic(Load(move_accumulator_to_secondary(value, local.kind), local),
                                            s[3], local.kind)
         IN Store(Assign(require_kind(compile_expression(c, s[4], local.kind), local.kind)), local)
    [] s[1] = "print" -> compile_print(c, s[2])
    [] s[1] = "do" -> compile_user_call(c, s[2], s[3], "any")
    [] s[1] = "if" -> compile_if(c, s)
    [] s[1] \in {"while", "loop"} -> compile_loop(c, s)
    [] s[1] = "break" -> Emit(c, <<<<"jmp", Last(c.loops).out>>>>)
    [] s[1] = "continue" -> Emit(c, <<<<"jmp", Last(c.loops).again>>>>)
    [] s[1] = "return" -> compile_return(c, s[2])
    [] OTHER -> Reject(c)

(* compile_function: its entry, its statements and its exit.               *)
begin_function(c, f) ==
  LET info == c.functions[f.name]
      main == f.name = "main"
      begun == [Bind(c, info.label) EXCEPT !.returns = info.returns, !.main = main,
                                           !.function = f.name, !.loops = <<>>]
      scope == [x \in {p[1] : p \in Range(info.parameters)} |->
                  (CHOOSE p \in Range(info.parameters) : p[1] = x)[2]]
  IN Enter(Enter(begun, scope), Empty)

end_function(c) ==
  LET body == Leave(Leave(c))
  IN CASE c.main -> Emit(body, <<<<"jmp", HaltLabel>>>>)
       [] ~c.main /\ c.returns # "none" -> Emit(body, <<<<"jmp", ArithmeticFailure>>>>)
       [] OTHER -> Emit(body, <<<<"ret", ReturnBytes>>>>)

compile_function(c, f, at) ==
  CASE at = 0 -> begin_function(c, f)
    [] at > Len(f.body) -> end_function(c)
    [] OTHER -> compile_statement(c, f.body[at])

emit_routines(c) ==
  LET failures == FoldLeft(LAMBDA d, i : Emit(Bind(d, i), <<<<"end", Failures[i]>>>>), c, <<1, 2, 3, 4>>)
  IN Emit(Bind(failures, HaltLabel), <<<<"end", "halt">>>>)
=============================================================================
