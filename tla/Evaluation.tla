----------------------------- MODULE Evaluation -----------------------------
(***************************************************************************)
(* The interpreter, on the statements of module Ownership.  Memory is the  *)
(* set of places that hold a value, a struct's fields being places of      *)
(* their own; moving a value out of a place leaves it uninitialised.       *)
(*                                                                         *)
(* A machine m is a record: holds (places with a value), refs (what each   *)
(* reference local points at), scopes (the names of each open scope), code *)
(* (what is left to execute), fault, and trace (the observable events).    *)
(* The code is a sequence of statements and of two marks: <<"end">> ends a *)
(* scope, and <<"again", t>> follows the body of loop t.                   *)
(***************************************************************************)
EXTENDS Naturals, Sequences, FiniteSets

\* x is a struct {f: {h, k}, g}; every other local is a single value.
Inner == {<<"x">>, <<"x", "f">>}
Fields == {<<"x", "f">>, <<"x", "f", "h">>, <<"x", "f", "k">>, <<"x", "g">>}

Extends(p, base) == Len(base) <= Len(p) /\ SubSeq(p, 1, Len(base)) = base

\* The places that make up p: itself and what it contains.
Parts(p) == {p} \cup {q \in Fields : Extends(q, p)}
Leaves(p) == Parts(p) \ Inner

Halt(m, fault) == IF m.fault = "none" THEN [m EXCEPT !.fault = fault] ELSE m

\* References to a place that is moved, overwritten or popped.
Points(r, p) == Extends(r, p) \/ Extends(p, r)

-----------------------------------------------------------------------------
(* Places.                                                                  *)

\* Reading a place that holds no value is an error.
read_place(m, p) == IF Parts(p) \subseteq m.holds THEN m ELSE Halt(m, "moved")

Invalidate(m, p) ==
    [m EXCEPT !.refs = [r \in DOMAIN @ |->
        IF Points(@[r].to, p) THEN [@[r] EXCEPT !.valid = FALSE] ELSE @[r]]]

\* A place's container must hold a struct to write into.
write_place(m, p) ==
    IF Len(p) > 1 /\ SubSeq(p, 1, Len(p) - 1) \notin m.holds THEN Halt(m, "target")
    ELSE Invalidate([m EXCEPT !.holds = @ \cup Parts(p)], p)

consume(m, p) ==
    LET r == read_place(m, p) IN
    IF r.fault # "none" THEN r ELSE Invalidate([r EXCEPT !.holds = @ \ Parts(p)], p)

Deref(m, r) == IF m.refs[r].valid THEN m ELSE Halt(m, "dangling")

Observe(m, event) == IF m.fault = "none" THEN [m EXCEPT !.trace = Append(@, event)] ELSE m

-----------------------------------------------------------------------------
(* Scopes.                                                                  *)

push_scope(m) == [m EXCEPT !.scopes = Append(@, {})]

pop_scope(m) ==
    LET names == m.scopes[Len(m.scopes)]
        gone == UNION {Parts(<<n>>) : n \in names} IN
    [m EXCEPT !.scopes = SubSeq(@, 1, Len(@) - 1),
              !.holds = @ \ gone,
              !.refs = [r \in DOMAIN @ |->
                  IF @[r].to[1] \in names THEN [@[r] EXCEPT !.valid = FALSE] ELSE @[r]]]

Bind(m, name) == [m EXCEPT !.scopes[Len(m.scopes)] = @ \cup {name}]

PointAt(m, name, p) ==
    [m EXCEPT !.refs = [r \in DOMAIN @ \cup {name} |->
        IF r = name THEN [to |-> p, valid |-> Parts(p) \subseteq m.holds] ELSE @[r]]]

\* The reference a local holds is copied, whatever it points at.
CopyRef(m, name, source) ==
    [m EXCEPT !.refs = [r \in DOMAIN @ \cup {name} |-> IF r = name THEN @[source] ELSE @[r]]]

-----------------------------------------------------------------------------
(* Control.  One step executes the first statement of the code; yes is the  *)
(* value of its condition, or whether fallible() or a match finds a value.  *)

Rest(m) == [m EXCEPT !.code = Tail(@)]

\* A statement that needs a decision: a condition, fallible()? or a match.
Decides(t) ==
    \/ t[1] \in {"if", "while", "for", "each", "sinktry", "match"}
    \/ t[1] \in {"let", "assign"} /\ t[3][1] = "try"

execute_block(m, b, after) == [push_scope(m) EXCEPT !.code = b \o <<<<"end">>>> \o after \o @]

\* The code and scopes left once the first n entries of the code are given up.
Unwind(m, n) ==
    LET ended == {i \in 1..n : m.code[i] = <<"end">>}
        RECURSIVE Pop(_, _)
        Pop(z, k) == IF k = 0 THEN z ELSE Pop(pop_scope(z), k - 1) IN
    [Pop(m, Cardinality(ended)) EXCEPT !.code = SubSeq(@, n + 1, Len(@))]

Again(m) == CHOOSE i \in DOMAIN m.code :
    m.code[i][1] = "again" /\ \A j \in 1..(i - 1) : m.code[j][1] # "again"

\* A plausible mistake: continue leaves the loop.
ContinueLeaves(m) == Unwind(m, Again(m))

\* break leaves the innermost loop, continue takes its next turn, and
\* return, like an error that ? passes on, leaves the function.
Break(m) == Unwind(m, Again(m))
Continue(m) == Unwind(m, Again(m) - 1)
Return(m) == Unwind(m, Len(m.code))

-----------------------------------------------------------------------------
(* Statements.                                                              *)

\* Evaluates e and stores it in place p.
Store(m, p, e) ==
    CASE e[1] = "none" -> m
      [] e[1] \in {"new", "try"} -> write_place(m, p)
      [] e[1] = "move" ->
            LET r == consume(m, e[2]) IN IF r.fault # "none" THEN r ELSE write_place(r, p)
      [] e[1] = "borrow" -> PointAt(m, p[1], e[2])
      [] e[1] = "ref" -> CopyRef(m, p[1], e[2])

use(m, p) ==
    Observe(IF p[1] \in DOMAIN m.refs THEN Deref(m, p[1]) ELSE read_place(m, p), <<"use", p>>)

sink(m, p) == Observe(consume(m, p), <<"sink", p>>)

\* The arm of match p { Some(v) => what(v), None => () }.
evaluate_match(m, p, what, some) ==
    LET matched == consume(m, p)
        bound == write_place(Bind(push_scope(matched), "v"), <<"v">>) IN
    IF matched.fault # "none" \/ ~some THEN matched
    ELSE pop_scope(IF what = "sink" THEN sink(bound, <<"v">>) ELSE use(bound, <<"v">>))

\* The next element of a collection, borrowed, for the loop's body.
evaluate_each(m, t) ==
    LET item == PointAt(Bind(push_scope(m), "i"), "i", <<t[2]>>) IN
    [item EXCEPT !.code = t[3] \o <<<<"end">>, <<"again", t>>>> \o @]

execute_statement(m, t, yes) ==
    IF Decides(t) /\ t[1] \in {"let", "assign"} /\ ~yes THEN Return(m) ELSE
    CASE t[1] = "sinktry" ->
            IF yes THEN sink(m, t[2])
            ELSE LET r == consume(m, t[2]) IN IF r.fault # "none" THEN r ELSE Return(r)
      [] t[1] = "let" -> Bind(Store(m, <<t[2]>>, t[3]), t[2])
      [] t[1] = "assign" -> Store(m, t[2], t[3])
      [] t[1] = "use" -> use(m, t[2])
      [] t[1] = "sink" -> sink(m, t[2])
      [] t[1] = "match" -> evaluate_match(m, t[2], t[3], yes)
      [] t[1] = "if" -> execute_block(m, IF yes THEN t[2] ELSE t[3], <<>>)
      [] t[1] \in {"while", "for"} -> IF yes THEN execute_block(m, t[2], <<<<"again", t>>>>) ELSE m
      [] t[1] = "loop" -> execute_block(m, t[2], <<<<"again", t>>>>)
      [] t[1] = "each" ->
            IF <<t[2]>> \notin m.holds THEN Halt(m, "moved") ELSE IF yes THEN evaluate_each(m, t) ELSE m
      [] t[1] = "break" -> Break(m)
      [] t[1] = "continue" -> Continue(m)
      [] t[1] = "return" -> Return(m)
      [] t[1] = "end" -> pop_scope(m)
      [] t[1] = "again" -> [m EXCEPT !.code = <<t[2]>> \o @]

execute(m, yes) == execute_statement(Rest(m), Head(m.code), yes)

\* The function's body; its scope is popped however it ends.
call_function_body(b) ==
    [holds |-> {}, refs |-> [n \in {} |-> 0], scopes |-> <<{}>>, code |-> b \o <<<<"end">>>>,
     fault |-> "none", trace |-> <<>>]

Ended(m) == m.code = <<>> \/ m.fault # "none"
=============================================================================
