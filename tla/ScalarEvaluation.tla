-------------------------- MODULE ScalarEvaluation --------------------------
(***************************************************************************)
(* The reference the images are compared with: the interpreter             *)
(* (interpreter.rs) on the scalar language the freestanding targets accept.*)
(* A run is a list of work items, taken from the front; a value carries    *)
(* the width it was given by an annotation, or "int" while it is a bare    *)
(* literal.  Numbers are scaled as in ScalarMachine.                       *)
(***************************************************************************)
EXTENDS ScalarMachine, SequencesExt

CONSTANTS MaxCallDepth, PageBytes

Literal(n) == [kind |-> "int", n |-> n]
Typed(kind, n) == [kind |-> kind, n |-> n]
Boolean(b) == [kind |-> "bool", n |-> b]
Failed == [kind |-> "failed", n |-> 0]

Width(kind) == CASE kind = "u8" -> 1 [] kind = "u16" -> 2 [] OTHER -> 4
Sized == {"u8", "u16", "u32", "i32"}
Fits(n, kind) == IF Signed(kind) THEN -(Word \div 2) <= n /\ n < Word \div 2
                 ELSE 0 <= n /\ n <= Largest(kind)

coerce_value(v, kind) ==
  IF kind \notin Sized \/ v.kind = "failed" THEN v
  ELSE IF Fits(v.n, kind) THEN Typed(kind, v.n) ELSE Failed

Widens(from, to) == /\ {from, to} \subseteq Sized
                    /\ Width(from) < Width(to)
                    /\ Signed(from) => Signed(to)
coerce_numeric_pair(l, r) ==
  CASE Widens(l.kind, r.kind) -> <<coerce_value(l, r.kind), r>>
    [] Widens(r.kind, l.kind) -> <<l, coerce_value(r, l.kind)>>
    [] l.kind \in Sized /\ r.kind = "int" -> <<l, coerce_value(r, l.kind)>>
    [] OTHER -> <<l, r>>

Calculated(operator, a, b) ==
  CASE operator = "+" -> a + b [] operator = "-" -> a - b [] operator = "*" -> a * b
    [] operator = "/" -> Quotient(a, b) [] operator = "%" -> Remainder(a, b)

(* checked_signed, checked_unsigned and the Int arms.  The remainder of    *)
(* the smallest value by minus one is in range for the interpreter only if *)
(* the division it comes with is: a.checked_rem works on 128 bits.         *)
checked(operator, l, r) ==
  IF operator \in {"/", "%"} /\ r.n = 0 THEN Failed
  ELSE IF l.kind = "int" \/ Fits(Calculated(operator, l.n, r.n), l.kind)
    THEN Typed(l.kind, Calculated(operator, l.n, r.n)) ELSE Failed

compare(operator, a, b) ==
  CASE operator = "<" -> a < b [] operator = "<=" -> a <= b
    [] operator = ">" -> a > b [] operator = ">=" -> a >= b

evaluate_binary(operator, l, r) ==
  IF \/ "failed" \in {l.kind, r.kind}
     \/ operator \notin {"==", "!="} /\ l.kind # r.kind THEN Failed ELSE
  CASE operator = "==" -> Boolean(l = r)
    [] operator = "!=" -> Boolean(l # r)
    [] operator \in {"<", "<=", ">", ">="} -> Boolean(compare(operator, l.n, r.n))
    [] OTHER -> checked(operator, l, r)

Start(program) == [todo |-> <<<<"block", (CHOOSE f \in Range(program) : f.name = "main").body>>>>,
                   values |-> <<>>, scopes |-> <<>>, depth |-> 1, out |-> <<>>, end |-> ""]

Do(r, items) == [r EXCEPT !.todo = items \o Tail(@)]
Give(r, v) == IF v.kind = "failed" THEN [r EXCEPT !.end = "arithmetic"]
              ELSE [r EXCEPT !.todo = Tail(@), !.values = Append(@, v)]
Top(r) == Last(r.values)
Take(r, n) == [r EXCEPT !.values = SubSeq(@, 1, Len(@) - n)]
Halted(r, why) == [r EXCEPT !.end = why]
ScopeOf(r, name) ==
  LET declaring == {i \in DOMAIN r.scopes : name \in DOMAIN r.scopes[i]}
  IN CHOOSE i \in declaring : \A j \in declaring : j <= i
Variable(r, name) == r.scopes[ScopeOf(r, name)][name]
Assigned(r, name, v) == [r EXCEPT !.scopes[ScopeOf(r, name)][name] = v]
Bound(r, name, v) == IF v.kind = "failed" THEN Halted(r, "arithmetic")
                     ELSE [r EXCEPT !.scopes[Len(r.scopes)] = (name :> v) @@ @, !.todo = Tail(@)]

(* Jumps discard work up to a mark, closing the scopes on the way.         *)
Unwound(r, mark) ==
  LET at == CHOOSE i \in DOMAIN r.todo : r.todo[i][1] = mark /\ \A j \in 1..(i - 1) : r.todo[j][1] # mark
      closed == Cardinality({j \in 1..(at - 1) : r.todo[j][1] = "leave"})
  IN [r EXCEPT !.todo = SubSeq(@, at, Len(@)), !.scopes = SubSeq(@, 1, Len(@) - closed)]

evaluate(r, e) ==
  CASE e[1] = "int" -> Give(r, Literal(e[2]))
    [] e[1] = "bool" -> Give(r, Boolean(e[2]))
    [] e[1] = "id" -> Give(r, Variable(r, e[2]))
    [] e[1] = "index" -> Do(r, <<<<"eval", e[3]>>, <<"element", e[2]>>>>)
    [] e[1] \in {"not", "neg"} -> Do(r, <<<<"eval", e[2]>>, <<e[1]>>>>)
    [] e[1] = "bin" /\ e[2] \in Logical -> Do(r, <<<<"eval", e[3]>>, <<"right", e[2], e[4]>>>>)
    [] e[1] = "bin" /\ e[2] \notin Logical -> Do(r, <<<<"eval", e[3]>>, <<"eval", e[4]>>, <<"binary", e[2]>>>>)
    [] e[1] = "cast" -> Do(r, <<<<"eval", e[3]>>, <<"coerce", e[2]>>>>)
    [] e[1] = "device" -> Do(r, <<<<"eval", e[3]>>, <<"input", e[2], e[4]>>>>)
    [] e[1] = "ticks" -> Give(r, Typed("u32", 0))
    [] e[1] = "call" -> Do(r, [i \in DOMAIN e[3] |-> <<"eval", e[3][i]>>] \o <<<<"call", e[2]>>>>)

execute_statement(r, s) ==
  CASE s[1] = "let" /\ s[4] = 0 -> Do(r, <<<<"eval", s[5]>>, <<"bind", s[2], s[3]>>>>)
    [] s[1] = "let" /\ s[4] # 0 -> Do(r, [i \in DOMAIN s[5] |-> <<"eval", s[5][i]>>] \o <<<<"array", s[2], s[4]>>>>)
    [] s[1] = "assign" -> Do(r, <<<<"eval", s[4]>>, <<"assign", s[2], s[3]>>>>)
    [] s[1] = "place" -> Do(r, <<<<"eval", s[3]>>, <<"eval", s[5]>>, <<"place", s[2], s[4]>>>>)
    [] s[1] = "print" -> Do(r, <<<<"eval", s[2]>>, <<"print">>>>)
    [] s[1] = "do" -> Do(r, <<<<"eval", <<"call", s[2], s[3]>>>>, <<"drop">>>>)
    [] s[1] = "device" -> Do(r, <<<<"eval", s[3]>>, <<"eval", s[4]>>, <<"output", s[2], s[5]>>>>)
    [] s[1] = "if" -> Do(r, <<<<"eval", s[2]>>, <<"branch", s[3], s[4]>>>>)
    [] s[1] = "while" -> Do(r, <<<<"eval", s[2]>>, <<"body", s>>, <<"again", s>>, <<"exit">>>>)
    [] s[1] = "loop" -> Do(r, <<<<"block", s[2]>>, <<"again", s>>, <<"exit">>>>)
    [] s[1] = "break" -> Unwound(r, "exit")
    [] s[1] = "continue" -> Unwound(r, "again")
    [] s[1] = "unsafe" -> Do(r, <<<<"block", s[3]>>>>)
    [] s[1] = "return" ->
         IF r.depth = 1 THEN Halted(r, "halt")
         ELSE IF s[2] = <<>> THEN Unwound([r EXCEPT !.values = Append(@, Boolean(FALSE))], "returned")
         ELSE Do(r, <<<<"eval", s[2]>>, <<"unwind">>>>)

call_function(r, f) ==
  LET n == Len(f.parameters)
      given == SubSeq(r.values, Len(r.values) - n + 1, Len(r.values))
      arguments == [i \in 1..n |-> coerce_value(given[i], f.parameters[i][2])]
      names == {f.parameters[i][1] : i \in 1..n}
      scope == [x \in names |-> arguments[CHOOSE i \in 1..n : f.parameters[i][1] = x]]
      called == [Take(r, n) EXCEPT !.scopes = Append(@, scope), !.depth = @ + 1]
  IN IF r.depth >= MaxCallDepth THEN Halted(r, "depth")
     ELSE IF \E i \in 1..n : arguments[i].kind = "failed" THEN Halted(r, "arithmetic")
     ELSE Do(called, <<<<"block", f.body>>, <<"normal", f.returns>>, <<"returned", f.returns>>>>)

(* The device the images drive: a page of memory-mapped registers, each    *)
(* access within it and aligned; any port may be used.                     *)
Outside(bus, kind, place) ==
  bus = "page" /\ (place + Width(kind) > PageBytes \/ place % Width(kind) # 0)

evaluate_step(r, program) ==
  LET item == Head(r.todo)
      tag == item[1]
      done == Do(r, <<>>)
  IN IF r.todo = <<>> THEN Halted(r, "halt") ELSE
     CASE tag = "eval" -> evaluate(r, item[2])
       [] tag = "exec" -> execute_statement(r, item[2])
       [] tag = "block" -> Do([r EXCEPT !.scopes = Append(@, Empty)],
                              [i \in DOMAIN item[2] |-> <<"exec", item[2][i]>>] \o <<<<"leave">>>>)
       [] tag = "leave" -> [done EXCEPT !.scopes = SubSeq(@, 1, Len(@) - 1)]
       [] tag = "not" -> Give(Take(r, 1), Boolean(~Top(r).n))
       [] tag = "neg" -> Give(Take(r, 1), IF Top(r).kind = "int" THEN Literal(-Top(r).n)
                                          ELSE coerce_value(Literal(-Top(r).n), Top(r).kind))
       [] tag = "binary" -> LET pair == coerce_numeric_pair(r.values[Len(r.values) - 1], Top(r))
                            IN Give(Take(r, 2), evaluate_binary(item[2], pair[1], pair[2]))
       [] tag = "right" -> IF Top(r).n = (item[2] = "or") THEN done
                           ELSE Do(Take(r, 1), <<<<"eval", item[3]>>>>)
       [] tag = "coerce" -> Give(Take(r, 1), coerce_value(Top(r), item[2]))
       [] tag = "element" -> LET array == Variable(r, item[2])
                             IN IF Top(r).n + 1 \in DOMAIN array.n THEN Give(Take(r, 1), array.n[Top(r).n + 1])
                                ELSE Halted(r, "bounds")
       [] tag = "bind" -> Bound(Take(r, 1), item[2], coerce_value(Top(r), item[3]))
       [] tag = "array" -> Bound(Take(r, item[3]), item[2],
                                 Typed("array", SubSeq(r.values, Len(r.values) - item[3] + 1, Len(r.values))))
       [] tag = "assign" ->
            LET old == Variable(r, item[2])
                right == coerce_value(Top(r), old.kind)
                v == IF item[3] = "=" THEN right ELSE evaluate_binary(item[3], old, right)
            IN IF v.kind = "failed" THEN Halted(r, "arithmetic") ELSE Assigned(Take(done, 1), item[2], v)
       [] tag = "place" ->
            LET array == Variable(r, item[2])
                i == r.values[Len(r.values) - 1].n + 1
                v == IF item[3] = "=" THEN Top(r) ELSE evaluate_binary(item[3], array.n[i], Top(r))
            IN IF i \notin DOMAIN array.n THEN Halted(r, "bounds")
               ELSE IF v.kind = "failed" THEN Halted(r, "arithmetic")
               ELSE Assigned(Take(done, 2), item[2], [array EXCEPT !.n[i] = v])
       [] tag = "print" -> [Take(done, 1) EXCEPT !.out = Append(@, Top(r).n)]
       [] tag = "drop" -> Take(done, 1)
       [] tag = "input" -> IF Outside(item[3], item[2], Top(r).n) THEN Halted(r, "device")
                           ELSE Give(Take(r, 1), Typed(item[2], DeviceValue(Top(r).n)))
       [] tag = "output" ->
            IF Outside(item[3], item[2], r.values[Len(r.values) - 1].n) THEN Halted(r, "device")
            ELSE [Take(done, 2) EXCEPT !.out = @ \o <<r.values[Len(r.values) - 1].n, Top(r).n>>]
       [] tag = "branch" -> Do(Take(r, 1), <<<<"block", item[IF Top(r).n THEN 2 ELSE 3]>>>>)
       [] tag = "body" -> IF Top(r).n THEN Do(Take(r, 1), <<<<"block", item[2][3]>>>>)
                          ELSE Take([r EXCEPT !.todo = SubSeq(@, 4, Len(@))], 1)
       [] tag = "again" -> [r EXCEPT !.todo = <<<<"exec", item[2]>>>> \o SubSeq(@, 3, Len(@))]
       [] tag = "exit" -> done
       [] tag = "call" -> call_function(r, CHOOSE f \in Range(program) : f.name = item[2])
       [] tag = "unwind" -> Unwound(r, "returned")
       [] tag = "normal" -> [done EXCEPT !.values = Append(@, Boolean(FALSE))]
       [] tag = "returned" -> LET v == coerce_value(Top(r), item[2])
                              IN Give([Take(r, 1) EXCEPT !.scopes = SubSeq(@, 1, Len(@) - 1), !.depth = @ - 1], v)
=============================================================================
