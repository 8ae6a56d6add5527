---------------------------- MODULE MirLowering ----------------------------
(***************************************************************************)
(* Lowering of the statements of module Ownership to MIR: basic blocks     *)
(* with explicit storage, drop flags and drops.  A local that needs        *)
(* destruction has one flag per leaf field; a drop is performed when its   *)
(* flag is set.                                                            *)
(*                                                                         *)
(* A MIR statement is one of                                               *)
(*   <<"live", l>>   <<"dead", l>>   <<"flag", leaf, value>>               *)
(*   <<"drop", leaf>>  <<"new", p>>  <<"call", l>>  <<"move", p, source>>  *)
(*   <<"borrow", r, p>>  <<"copy", r, source>>  <<"use", p>>               *)
(*   <<"pass", sources, p>>                                                *)
(* where "call" stores what fallible() returns, "pass" hands the sources   *)
(* to consume(), and a terminator is <<"goto", n>>, <<"if", n, m>>,        *)
(* <<"ok", l, n, m>>, <<"some", l, n, m>>, <<"return">> or                 *)
(* <<"unreachable">>.                                                      *)
(***************************************************************************)
EXTENDS Evaluation, SequencesExt

TempNames == <<"t1", "t2", "t3", "t4", "t5", "t6">>

-----------------------------------------------------------------------------
(* The builder.                                                             *)

push(b, statement) == [b EXCEPT !.blocks[b.current].statements = Append(@, statement)]

PushAll(b, statements) == [b EXCEPT !.blocks[b.current].statements = @ \o statements]

terminate(b, terminator) == [b EXCEPT !.blocks[b.current].terminator = terminator]

open(b) == b.blocks[b.current].terminator = <<"unreachable">>

\* Adds k empty blocks; the last k of the result's.
new_blocks(b, k) ==
    [b EXCEPT !.blocks = @ \o [i \in 1..k |-> [statements |-> <<>>, terminator |-> <<"unreachable">>]]]

At(b, n) == [b EXCEPT !.current = n]

-----------------------------------------------------------------------------
(* Drop flags.  References are Copy and have none.                          *)

\* The flags of the leaves within p, in the order drops are emitted.
FlagsIn(b, p) == {leaf \in b.flags : Extends(leaf, p)}

RECURSIVE Descending(_)
Descending(leaves) ==
    IF leaves = {} THEN <<>>
    ELSE LET order == <<<<"x", "g">>, <<"x", "f", "k">>, <<"x", "f", "h">>>>
             first == IF \E i \in 1..3 : order[i] \in leaves
                      THEN order[CHOOSE i \in 1..3 : order[i] \in leaves /\ \A j \in 1..(i-1) : order[j] \notin leaves]
                      ELSE CHOOSE l \in leaves : TRUE IN
         <<first>> \o Descending(leaves \ {first})

ForEachFlag(b, p, Statement(_)) ==
    LET leaves == Descending(FlagsIn(b, p)) IN PushAll(b, [i \in DOMAIN leaves |-> Statement(leaves[i])])

set_place_initialized(b, p, value) == ForEachFlag(b, p, LAMBDA leaf : <<"flag", leaf, value>>)

consume_operand(b, p) == set_place_initialized(b, p, FALSE)

ensure_drop_flag(b, l) ==
    LET fresh == Leaves(<<l>>) \ b.flags
        added == [b EXCEPT !.flags = @ \cup fresh]
        leaves == Descending(fresh) IN
    PushAll(added, [i \in DOMAIN leaves |-> <<"flag", leaves[i], FALSE>>])

emit_drop_for_place(b, p) ==
    set_place_initialized(ForEachFlag(b, p, LAMBDA leaf : <<"drop", leaf>>), p, FALSE)

RECURSIVE emit_drops(_, _)
emit_drops(b, locals) ==
    IF locals = <<>> THEN b
    ELSE emit_drops(push(emit_drop_for_place(b, <<Head(locals)>>), <<"dead", Head(locals)>>), Tail(locals))

\* Ends the storage of the locals that became live since depth, newest first.
emit_drops_to(b, depth) == emit_drops(b, Reverse(SubSeq(b.live, depth + 1, Len(b.live))))

Declare(b, l, needs_drop) ==
    LET live == [push(b, <<"live", l>>) EXCEPT !.live = Append(@, l)] IN
    IF needs_drop THEN ensure_drop_flag(live, l) ELSE live

-----------------------------------------------------------------------------
(* Expressions.  An operand that moves is a place whose flags are cleared   *)
(* when it is lowered, ahead of the statement that takes the value.         *)

Temp(b) == [Declare(b, TempNames[b.temps + 1], TRUE) EXCEPT !.temps = @ + 1]
LastTemp(b) == TempNames[b.temps]

\* fallible()?: the call, the failure path, and the payload in a temporary.
lower_try(b) ==
    LET called == Temp(b)
        source == LastTemp(called)
        n == Len(b.blocks)
        tested == terminate(new_blocks(
                      PushAll(called, <<<<"call", source>>, <<"flag", <<source>>, TRUE>>>>), 3),
                      <<"ok", source, n + 1, n + 2>>)
        result == Temp(tested)
        success == terminate(PushAll(At(result, n + 1),
                        <<<<"move", <<LastTemp(result)>>, <<source>>>>, <<"flag", <<source>>, FALSE>>>>),
                        <<"goto", n + 3>>)
        failure == terminate(emit_drops_to(PushAll(At(success, n + 2),
                        <<<<"move", <<"return">>, <<source>>>>, <<"flag", <<source>>, FALSE>>>>), 0),
                        <<"return">>) IN
    At(failure, n + 3)

\* What a statement stores: the builder, and the place moved from if any.
lower_expr(b, e) ==
    CASE e[1] = "move" -> [b |-> set_place_initialized(b, e[2], FALSE), moved |-> <<e[2]>>]
      [] e[1] = "try" -> LET t == lower_try(b) IN [b |-> t, moved |-> <<<<LastTemp(t)>>>>]
      [] OTHER -> [b |-> b, moved |-> <<>>]

\* Stores the operand of e in place p.
Assign(o, p, e) ==
    CASE e[1] = "borrow" -> push(o.b, <<"borrow", p[1], e[2]>>)
      [] e[1] = "ref" -> push(o.b, <<"copy", p[1], e[2]>>)
      [] o.moved # <<>> -> consume_operand(push(o.b, <<"move", p, o.moved[1]>>), o.moved[1])
      [] OTHER -> push(o.b, <<"new", p>>)

IsRef(e) == e[1] \in {"borrow", "ref"}

-----------------------------------------------------------------------------
(* Statements.                                                              *)

RECURSIVE lower_statement(_, _), lower_from(_, _)

lower_block(b, block) ==
    LET depth == Len(b.live)
        done == lower_from(b, block)
        dropped == IF open(done) THEN emit_drops_to(done, depth) ELSE done IN
    [dropped EXCEPT !.live = SubSeq(@, 1, depth)]

\* A plausible mistake: the end of a block has no successor.
FallThrough(b, n) == b

GotoIfOpen(b, n) == IF open(b) THEN terminate(b, <<"goto", n>>) ELSE b

\* A loop's body with its frame; control is at the body's first block.
lower_body(b, block, break_block, continue_block) ==
    LET frame == [brk |-> break_block, cont |-> continue_block, depth |-> Len(b.live)]
        body == lower_block([b EXCEPT !.loops = Append(@, frame)], block) IN
    [GotoIfOpen(body, continue_block) EXCEPT !.loops = Front(@)]

lower_if(b, yes, no) ==
    LET n == Len(b.blocks)
        split == terminate(new_blocks(b, 3), <<"if", n + 1, n + 2>>)
        first == GotoIfOpen(lower_block(At(split, n + 1), yes), n + 3)
        second == GotoIfOpen(lower_block(At(first, n + 2), no), n + 3) IN
    At(second, n + 3)

lower_while(b, block) ==
    LET n == Len(b.blocks)
        header == At(terminate(new_blocks(b, 3), <<"goto", n + 1>>), n + 1)
        body == At(terminate(header, <<"if", n + 2, n + 3>>), n + 2) IN
    At(lower_body(body, block, n + 3, n + 1), n + 3)

lower_loop(b, block) ==
    LET n == Len(b.blocks)
        header == At(terminate(new_blocks(b, 2), <<"goto", n + 1>>), n + 1) IN
    At(lower_body(header, block, n + 2, n + 1), n + 2)

\* for and for-each: header, body, step and exit.  A for-each borrows the
\* element at the start of its body and ends the item's storage at its exit;
\* the item stays in the list of live locals (what is popped there is the
\* temporary of the condition).
lower_counted(b, item, Enter(_), block) ==
    LET n == Len(b.blocks)
        bound == Declare(b, item, FALSE)
        header == At(terminate(new_blocks(bound, 4), <<"goto", n + 1>>), n + 1)
        body == Enter(At(terminate(header, <<"if", n + 2, n + 4>>), n + 2))
        step == terminate(At(lower_body(body, block, n + 4, n + 3), n + 3), <<"goto", n + 1>>) IN
    At(step, n + 4)

lower_for(b, block) == lower_counted(b, "n", LAMBDA z : z, block)

lower_each(b, c, block) ==
    push(lower_counted(b, "i", LAMBDA z : push(z, <<"borrow", "i", <<c>>>>), block), <<"dead", "i">>)

\* match p { Some(v) => what(v), None => () }: the scrutinee's flag is
\* cleared, and the arm that binds the payload takes it over.
lower_match(b, p, what) ==
    LET n == Len(b.blocks)
        moved == set_place_initialized(b, p, FALSE)
        split == terminate(new_blocks(moved, 3), <<"some", p[1], n + 1, n + 2>>)
        depth == Len(b.live)
        bound == set_place_initialized(push(Declare(At(split, n + 1), "v", TRUE),
                     <<"move", <<"v">>, p>>), <<"v">>, TRUE)
        arm == IF what = "sink"
               THEN push(consume_operand(bound, <<"v">>), <<"pass", {<<"v">>}, <<"v">>>>)
               ELSE push(bound, <<"use", <<"v">>>>)
        some == [terminate(emit_drops_to(arm, depth), <<"goto", n + 3>>)
                    EXCEPT !.live = SubSeq(@, 1, depth)]
        none == terminate(At(some, n + 2), <<"goto", n + 3>>) IN
    At(none, n + 3)

\* A plausible mistake: a jump leaves the body without its drops.
lower_jump_bare(b, t) ==
    LET frame == b.loops[Len(b.loops)] IN
    terminate(b, <<"goto", IF t = "break" THEN frame.brk ELSE frame.cont>>)

lower_jump(b, t) ==
    LET frame == b.loops[Len(b.loops)] IN
    terminate(emit_drops_to(b, frame.depth), <<"goto", IF t = "break" THEN frame.brk ELSE frame.cont>>)

lower_let(b, t) ==
    LET live == Declare(b, t[2], ~IsRef(t[3])) IN
    IF t[3][1] = "none" THEN live
    ELSE set_place_initialized(Assign(lower_expr(live, t[3]), <<t[2]>>, t[3]), <<t[2]>>, TRUE)

lower_assign(b, p, e) ==
    LET o == lower_expr(b, e) IN
    set_place_initialized(Assign([o EXCEPT !.b = emit_drop_for_place(@, p)], p, e), p, TRUE)

lower_statement(b, t) ==
    CASE t[1] = "let" -> lower_let(b, t)
      [] t[1] = "assign" -> lower_assign(b, t[2], t[3])
      [] t[1] = "use" -> push(b, <<"use", t[2]>>)
      [] t[1] = "sink" ->
            push(set_place_initialized(b, t[2], FALSE), <<"pass", {t[2]}, t[2]>>)
      [] t[1] = "sinktry" ->
            LET o == lower_try(set_place_initialized(b, t[2], FALSE)) IN
            push(consume_operand(consume_operand(o, t[2]), <<LastTemp(o)>>),
                 <<"pass", {t[2], <<LastTemp(o)>>}, t[2]>>)
      [] t[1] = "match" -> lower_match(b, t[2], t[3])
      [] t[1] = "if" -> lower_if(b, t[2], t[3])
      [] t[1] = "while" -> lower_while(b, t[2])
      [] t[1] = "loop" -> lower_loop(b, t[2])
      [] t[1] = "for" -> lower_for(b, t[2])
      [] t[1] = "each" -> lower_each(b, t[2], t[3])
      [] t[1] = "return" -> terminate(emit_drops_to(b, 0), <<"return">>)
      [] OTHER -> lower_jump(b, t[1])

lower_from(b, block) ==
    IF block = <<>> THEN b
    ELSE lower_from(lower_statement(IF open(b) THEN b ELSE At(new_blocks(b, 1), Len(b.blocks) + 1),
                                    Head(block)), Tail(block))

\* Lowering starts with one empty block, and ends the function's scope.
NewFunction ==
    new_blocks([blocks |-> <<>>, current |-> 1, live |-> <<>>, loops |-> <<>>, flags |-> {}, temps |-> 0], 1)

EndFunction(b) == IF open(b) THEN terminate(emit_drops_to(b, 0), <<"return">>) ELSE b

-----------------------------------------------------------------------------
(* The compiled function.  A machine has holds, refs, fault and trace as    *)
(* the interpreter's, flags (the leaves whose drop flag is set) and at (the *)
(* block to run next).                                                      *)

Drop(m, leaf) ==
    IF leaf \notin m.flags THEN m
    ELSE IF leaf \in m.holds THEN Invalidate([m EXCEPT !.holds = @ \ {leaf}], leaf)
    ELSE Halt(m, "twice")

\* Storage that still holds a value when it ends is never released.
Kill(m, p) == IF Leaves(p) \cap m.holds # {} THEN Halt(m, "leak") ELSE Invalidate(m, p)

Fill(m, p) ==
    IF Leaves(p) \cap m.holds # {} THEN Halt(m, "leak")
    ELSE Invalidate([m EXCEPT !.holds = @ \cup Leaves(p)], p)

TakeOut(m, sources) ==
    LET leaves == UNION {Leaves(p) : p \in sources} IN
    IF ~(leaves \subseteq m.holds) THEN Halt(m, "moved")
    ELSE [m EXCEPT !.holds = @ \ leaves,
                   !.refs = [r \in DOMAIN @ |->
                       IF \E p \in sources : Points(@[r].to, p) THEN [@[r] EXCEPT !.valid = FALSE] ELSE @[r]]]

NativeUse(m, p) ==
    IF p[1] \in DOMAIN m.refs THEN Deref(m, p[1])
    ELSE IF Leaves(p) \subseteq m.holds THEN m ELSE Halt(m, "moved")

emit_statement(m, t) ==
    CASE t[1] \in {"live", "dead"} -> Kill(m, <<t[2]>>)
      [] t[1] = "flag" -> [m EXCEPT !.flags = IF t[3] THEN @ \cup {t[2]} ELSE @ \ {t[2]}]
      [] t[1] = "drop" -> Drop(m, t[2])
      [] t[1] = "new" -> Fill(m, t[2])
      [] t[1] = "call" -> [m EXCEPT !.holds = @ \cup {<<t[2]>>}]
      [] t[1] = "move" ->
            LET r == TakeOut(m, {t[3]}) IN
            IF r.fault # "none" \/ t[2] = <<"return">> THEN r ELSE Fill(r, t[2])
      [] t[1] = "borrow" ->
            [m EXCEPT !.refs = [r \in DOMAIN @ \cup {t[2]} |->
                IF r = t[2] THEN [to |-> t[3], valid |-> Leaves(t[3]) \subseteq m.holds] ELSE @[r]]]
      [] t[1] = "copy" -> CopyRef(m, t[2], t[3])
      [] t[1] = "use" -> Observe(NativeUse(m, t[2]), <<"use", t[2]>>)
      [] t[1] = "pass" -> Observe(TakeOut(m, t[2]), <<"sink", t[3]>>)

RECURSIVE emit_statements(_, _)
emit_statements(m, statements) ==
    IF statements = <<>> \/ m.fault # "none" THEN m
    ELSE emit_statements(emit_statement(m, Head(statements)), Tail(statements))

\* Goes from the end of a block to the next one; yes is the value of the
\* condition, or whether the value tested is Ok or Some.  A value a local
\* still holds when the function returns is never released.
take_branch(m, t, yes) ==
    CASE t[1] = "goto" -> [m EXCEPT !.at = t[2]]
      [] t[1] = "if" -> [m EXCEPT !.at = IF yes THEN t[2] ELSE t[3]]
      [] t[1] = "ok" -> [m EXCEPT !.at = IF yes THEN t[3] ELSE t[4]]
      [] t[1] = "some" ->     \* None holds nothing to release
            IF yes THEN [m EXCEPT !.at = t[3]] ELSE [m EXCEPT !.at = t[4], !.holds = @ \ {<<t[2]>>}]
      [] t[1] = "return" -> IF m.holds # {} THEN Halt(m, "leak") ELSE [m EXCEPT !.at = 0]
      [] OTHER -> Halt(m, "unreachable")

Branches(t) == t[1] \in {"if", "ok", "some"}

\* Runs the block the function is at.
run_block(m, blocks, yes) ==
    LET r == emit_statements(m, blocks[m.at].statements) IN
    IF r.fault # "none" THEN r ELSE take_branch(r, blocks[m.at].terminator, yes)

\* The compiled function is at its first block; at 0 it has returned.
Called == [holds |-> {}, flags |-> {}, refs |-> [n \in {} |-> 0], at |-> 1, fault |-> "none", trace |-> <<>>]

Returned(m) == m.at = 0 \/ m.fault # "none"
=============================================================================
