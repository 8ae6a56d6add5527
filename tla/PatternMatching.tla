-------------------------- MODULE PatternMatching --------------------------
(***************************************************************************)
(* A match expression through the compiler: alternatives are expanded into *)
(* arms (expansion.rs), the type checker asks of every arm whether it is   *)
(* useful and of the whole whether it is exhaustive (MatchCoverage of      *)
(* type_checker.rs), the interpreter tries the arms on the value, and MIR  *)
(* dispatches with a chain of tests on places of the value (mir.rs).       *)
(*                                                                         *)
(* Literals are the names of their values.  A guard is TRUE or FALSE, one  *)
(* choice for each arm of the source.                                      *)
(***************************************************************************)
EXTENDS Integers, Sequences, SequencesExt

CONSTANTS Enums,           \* the variants of each enum: sequences of [name, payload]
          Structs,         \* the fields of each struct, in order: sequences of [name, ty]
          Alphabetical,    \* all field names, sorted
          Subjects,        \* the matched types, with the patterns tried on each
          Domain,          \* the values an open type is tried with
          MaxArms,         \* bound: arms of the source
          MAX_REPEAT_COUNT \* alternatives a match may expand to

VARIABLES subject,   \* the type of the matched value
          source,    \* the arms as written
          stage,     \* "write", "check", "accepted" or the reason of the refusal
          arms,      \* the arms after expansion
          checked,   \* how many of them the checker has accepted
          rows       \* MatchCoverage.rows

vars == <<subject, source, stage, arms, checked, rows>>

Max64 == 64
Max128 == 128

Wildcard == [c |-> "_", args |-> <<>>]
IllTyped == [c |-> "ill-typed", args |-> <<>>]
Open == [open |-> TRUE, constructors |-> <<>>]
Finite(constructors) == [open |-> FALSE, constructors |-> constructors]
Constructor(name, fields) == [name |-> name, fields |-> fields]
Repeat(x, n) == [i \in 1 .. n |-> x]

Sorted(name) ==
    SelectSeq(Alphabetical, LAMBDA f : \E i \in DOMAIN Structs[name] : Structs[name][i].name = f)
Position(name, f) == CHOOSE i \in DOMAIN Structs[name] : Structs[name][i].name = f

\* What the variants of a type are called and carry.
Variants(ty) ==
    CASE ty.t = "Option" -> <<[name |-> "Some", payload |-> <<ty.of[1]>>], [name |-> "None", payload |-> <<>>]>>
      [] ty.t = "Result" -> <<[name |-> "Ok", payload |-> <<ty.of[1]>>], [name |-> "Err", payload |-> <<ty.of[2]>>]>>
      [] ty.t \in DOMAIN Enums -> Enums[ty.t]
      [] OTHER -> <<>>
HasVariant(ty, v) == \E i \in DOMAIN Variants(ty) : Variants(ty)[i].name = v
Payload(ty, v) == Variants(ty)[CHOOSE i \in DOMAIN Variants(ty) : Variants(ty)[i].name = v].payload

-----------------------------------------------------------------------------
(* expansion.rs *)

Names(seqs) == UNION {seqs[i] : i \in DOMAIN seqs}

RECURSIVE pattern_binding_names(_)
pattern_binding_names(p) ==
    IF p.p = "bind" THEN {p.of} ELSE Names([i \in DOMAIN p.args |-> pattern_binding_names(p.args[i])])

TooMany == <<>>
Limited(list) == IF Len(list) > MAX_REPEAT_COUNT THEN TooMany ELSE list

RECURSIVE pattern_alternatives(_), Products(_)

\* Every choice of one alternative of each argument, the first argument
\* varying slowest.
Products(args) ==
    IF args = <<>> THEN << <<>> >>
    ELSE LET before == Products(Front(args))
             last == pattern_alternatives(Last(args))
         IN Limited(FlattenSeq([i \in DOMAIN before |-> [j \in DOMAIN last |-> Append(before[i], last[j])]]))

\* The patterns without `|` that a pattern stands for; none is a refusal.
pattern_alternatives(p) ==
    CASE p.p = "or" ->
           LET parts == [i \in DOMAIN p.args |-> pattern_alternatives(p.args[i])]
               differ == \E i \in DOMAIN p.args :
                             pattern_binding_names(p.args[i]) # pattern_binding_names(p.args[1])
           IN IF differ \/ \E i \in DOMAIN parts : parts[i] = <<>> THEN <<>> ELSE Limited(FlattenSeq(parts))
      [] p.p \in {"variant", "struct"} ->
           LET products == Products(p.args)
           IN [i \in DOMAIN products |-> [p EXCEPT !.args = products[i]]]
      [] OTHER -> <<p>>

-----------------------------------------------------------------------------
(* type_checker.rs *)

RECURSIVE coverage_type(_, _, _)
coverage_type(ty, visiting, depth) ==
    LET under(t) == coverage_type(t, visiting \union {ty}, depth + 1)
        each(types) == [i \in DOMAIN types |-> under(types[i])]
    IN IF depth >= Max64 \/ (ty \in visiting /\ ty.t \notin {"Option", "Result"}) THEN Open ELSE
       CASE ty.t = "Bool" -> Finite(<<Constructor("false", <<>>), Constructor("true", <<>>)>>)
         [] ty.t \in DOMAIN Structs ->
              LET sorted == Sorted(ty.t)
              IN Finite(<<Constructor(ty.t, [i \in DOMAIN sorted |->
                            under(Structs[ty.t][Position(ty.t, sorted[i])].ty)])>>)
         [] Variants(ty) # <<>> \/ ty.t \in DOMAIN Enums ->
              Finite([i \in DOMAIN Variants(ty) |->
                        Constructor(Variants(ty)[i].name, each(Variants(ty)[i].payload))])
         [] OTHER -> Open

Combined(name, args) ==
    IF \E i \in DOMAIN args : args[i] = IllTyped THEN IllTyped ELSE [c |-> name, args |-> args]

RECURSIVE check_pattern(_, _)
check_pattern(p, ty) ==
    CASE p.p \in {"wild", "bind"} -> Wildcard
      [] p.p \in {"Bool", "Int"} -> IF p.p = ty.t THEN [c |-> p.of, args |-> <<>>] ELSE IllTyped
      [] p.p = "struct" ->
           IF ty.t # p.of THEN IllTyped
           ELSE LET sorted == Sorted(ty.t)
                    given(f) == {i \in DOMAIN p.names : p.names[i] = f}
                    field(f) == IF given(f) = {} THEN Wildcard
                                ELSE check_pattern(p.args[CHOOSE k \in given(f) : TRUE],
                                                   Structs[ty.t][Position(ty.t, f)].ty)
                IN IF \/ \E i \in DOMAIN p.names : \A k \in DOMAIN sorted : sorted[k] # p.names[i]
                      \/ \E i, k \in DOMAIN p.names : i # k /\ p.names[i] = p.names[k]
                      \/ ~p.rest /\ Len(p.names) # Len(sorted)
                   THEN IllTyped
                   ELSE Combined(p.of, [i \in DOMAIN sorted |-> field(sorted[i])])
      [] OTHER ->
           IF ~HasVariant(ty, p.of) \/ Len(Payload(ty, p.of)) # Len(p.args) THEN IllTyped
           ELSE Combined(p.of, [i \in DOMAIN p.args |-> check_pattern(p.args[i], Payload(ty, p.of)[i])])

\* The names a pattern binds, with their types.
RECURSIVE Contract(_, _)
Contract(p, ty) ==
    CASE p.p = "bind" -> {<<p.of, ty>>}
      [] p.p = "struct" ->
           Names([i \in DOMAIN p.args |-> Contract(p.args[i], Structs[ty.t][Position(ty.t, p.names[i])].ty)])
      [] p.p = "variant" -> Names([i \in DOMAIN p.args |-> Contract(p.args[i], Payload(ty, p.of)[i])])
      [] OTHER -> {}

specialize_matrix(matrix, constructor, arity) ==
    LET kept == SelectSeq(matrix, LAMBDA row : row # <<>> /\ row[1].c \in {"_", constructor})
    IN [i \in DOMAIN kept |->
          (IF kept[i][1].c = "_" THEN Repeat(Wildcard, arity) ELSE kept[i][1].args) \o Tail(kept[i])]

RECURSIVE pattern_is_useful(_, _, _, _)
pattern_is_useful(matrix, candidate, types, depth) ==
    IF depth >= Max128 THEN TRUE
    ELSE IF candidate = <<>> THEN matrix = <<>>
    ELSE LET ty == types[1]
             found == SelectSeq(ty.constructors, LAMBDA k : k.name = candidate[1].c)
             fields == IF found = <<>> THEN <<>> ELSE found[1].fields
             into(name, args, under) ==
                 pattern_is_useful(specialize_matrix(matrix, name, Len(under)),
                                   args \o Tail(candidate), under \o Tail(types), depth + 1)
             default == SelectSeq(matrix, LAMBDA row : row[1].c = "_")
         IN CASE candidate[1].c # "_" -> into(candidate[1].c, candidate[1].args, fields)
              [] candidate[1].c = "_" /\ ~ty.open ->
                   \E i \in DOMAIN ty.constructors :
                       LET under == ty.constructors[i].fields
                       IN into(ty.constructors[i].name, Repeat(Wildcard, Len(under)), under)
              [] OTHER -> pattern_is_useful([i \in DOMAIN default |-> Tail(default[i])],
                                            Tail(candidate), Tail(types), depth + 1)

Useful(pattern) == pattern_is_useful(rows, <<pattern>>, <<coverage_type(subject, {}, 0)>>, 0)

-----------------------------------------------------------------------------
(* The steps                                                                *)

Init ==
    /\ subject \in {s.ty : s \in Subjects}
    /\ source = <<>> /\ stage = "write" /\ arms = <<>> /\ checked = 0 /\ rows = <<>>

Write(p, guarded) ==
    /\ stage = "write" /\ Len(source) < MaxArms
    /\ source' = Append(source, [pattern |-> p, guarded |-> guarded])
    /\ UNCHANGED <<subject, stage, arms, checked, rows>>

\* Expression::Match of the expansion: an arm becomes one arm for each of its
\* alternatives, in their order.
Expand ==
    LET alternatives(i) ==
            LET list == pattern_alternatives(source[i].pattern)
            IN [k \in DOMAIN list |-> [pattern |-> list[k], guarded |-> source[i].guarded, of |-> i]]
        expanded == FlattenSeq([i \in DOMAIN source |-> alternatives(i)])
        refused == \/ \E i \in DOMAIN source : pattern_alternatives(source[i].pattern) = <<>>
                   \/ Len(expanded) > MAX_REPEAT_COUNT
    IN /\ stage = "write"
       /\ stage' = IF refused THEN "alternatives" ELSE "check"
       /\ arms' = IF refused THEN <<>> ELSE expanded
       /\ UNCHANGED <<subject, source, checked, rows>>

\* The loop over arms of Expression::Match in the type checker: the pattern,
\* the contract it shares with the alternatives of its group, its use.
Check ==
    LET arm == arms[checked + 1]
        pattern == check_pattern(arm.pattern, subject)
        group == {i \in 1 .. checked : arms[i].of = arm.of}
    IN /\ stage = "check" /\ checked < Len(arms)
       /\ IF pattern = IllTyped THEN stage' = "ill-typed" /\ UNCHANGED <<checked, rows>>
          ELSE IF \E i \in group : Contract(arms[i].pattern, subject) # Contract(arm.pattern, subject)
          THEN stage' = "contract" /\ UNCHANGED <<checked, rows>>
          ELSE IF ~Useful(pattern) THEN stage' = "unreachable" /\ UNCHANGED <<checked, rows>>
          ELSE /\ rows' = IF arm.guarded THEN rows ELSE Append(rows, <<pattern>>)
               /\ checked' = checked + 1
               /\ UNCHANGED stage
       /\ UNCHANGED <<subject, source, arms>>

Finish ==
    /\ stage = "check" /\ checked = Len(arms)
    /\ stage' = IF Useful(Wildcard) THEN "missing" ELSE "accepted"
    /\ UNCHANGED <<subject, source, arms, checked, rows>>

Next ==
    \/ \E s \in Subjects, guarded \in BOOLEAN :
         s.ty = subject /\ \E p \in s.patterns : Write(p, guarded)
    \/ Expand
    \/ Check
    \/ Finish

Spec == Init /\ [][Next]_vars

-----------------------------------------------------------------------------
(* The value at run time                                                    *)

\* All sequences with one element of each set.
OneOfEach(sets) == {f \in [DOMAIN sets -> UNION {sets[i] : i \in DOMAIN sets}] : \A i \in DOMAIN sets : f[i] \in sets[i]}

RECURSIVE ValuesOf(_)
ValuesOf(ty) ==
    LET made(name, types) ==
            {[v |-> name, args |-> a] : a \in OneOfEach([i \in DOMAIN types |-> ValuesOf(types[i])])}
    IN CASE ty.t = "Bool" -> {[v |-> b, args |-> <<>>] : b \in {"false", "true"}}
         [] ty.t = "Int" -> {[v |-> n, args |-> <<>>] : n \in Domain}
         [] ty.t \in DOMAIN Structs -> made(ty.t, [i \in DOMAIN Structs[ty.t] |-> Structs[ty.t][i].ty])
         [] OTHER -> UNION {made(Variants(ty)[i].name, Variants(ty)[i].payload) : i \in DOMAIN Variants(ty)}

\* The interpreter's test of a value.
RECURSIVE pattern_matches(_, _)
pattern_matches(p, v) ==
    CASE p.p \in {"wild", "bind"} -> TRUE
      [] p.p \in {"Bool", "Int"} -> v.v = p.of
      [] p.p = "or" -> \E i \in DOMAIN p.args : pattern_matches(p.args[i], v)
      [] p.p = "struct" -> \A i \in DOMAIN p.args : pattern_matches(p.args[i], v.args[Position(p.of, p.names[i])])
      [] OTHER -> /\ v.v = p.of /\ Len(v.args) = Len(p.args)
                  /\ \A i \in DOMAIN p.args : pattern_matches(p.args[i], v.args[i])

\* A fault: the payload is looked at before the discriminant.
RECURSIVE branch_payload_first(_, _)
branch_payload_first(p, place) ==
    CASE p.p \in {"wild", "bind"} -> <<>>
      [] p.p \in {"Bool", "Int"} -> <<[place |-> place, expect |-> p.of]>>
      [] p.p = "struct" ->
           FlattenSeq([i \in DOMAIN p.args |->
               branch_payload_first(p.args[i], Append(place, [of |-> "", index |-> Position(p.of, p.names[i])]))])
      [] OTHER ->
           FlattenSeq([i \in DOMAIN p.args |->
                branch_payload_first(p.args[i], Append(place, [of |-> p.of, index |-> i]))])
           \o <<[place |-> place, expect |-> p.of]>>

\* The tests that MIR makes for a pattern, in the order in which they run:
\* the discriminant, then the payload from left to right.
RECURSIVE lower_pattern_branch(_, _)
lower_pattern_branch(p, place) ==
    CASE p.p \in {"wild", "bind"} -> <<>>
      [] p.p \in {"Bool", "Int"} -> <<[place |-> place, expect |-> p.of]>>
      [] p.p = "struct" ->
           FlattenSeq([i \in DOMAIN p.args |->
               lower_pattern_branch(p.args[i], Append(place, [of |-> "", index |-> Position(p.of, p.names[i])]))])
      [] OTHER ->
           <<[place |-> place, expect |-> p.of]>> \o
           FlattenSeq([i \in DOMAIN p.args |->
               lower_pattern_branch(p.args[i], Append(place, [of |-> p.of, index |-> i]))])

\* A projection reads a field of a struct, or of the variant it names.
RECURSIVE Readable(_, _)
Readable(v, place) ==
    IF place = <<>> THEN TRUE
    ELSE /\ place[1].of \in {"", v.v}
         /\ Readable(v.args[place[1].index], Tail(place))
RECURSIVE ReadAt(_, _)
ReadAt(v, place) == IF place = <<>> THEN v ELSE ReadAt(v.args[place[1].index], Tail(place))
Holds(v, test) == Readable(v, test.place) /\ ReadAt(v, test.place).v = test.expect

\* The first arm that takes the value; 0 is none.  guards[i] is what the
\* guard of the source's arm i says.
First(takes) == IF \E i \in DOMAIN takes : takes[i] THEN CHOOSE i \in DOMAIN takes :
                    takes[i] /\ \A k \in 1 .. i - 1 : ~takes[k] ELSE 0
Passes(arm, guards) == ~arm.guarded \/ guards[arm.of]
Interpreted(v, guards) ==
    First([i \in DOMAIN arms |-> pattern_matches(arms[i].pattern, v) /\ Passes(arms[i], guards)])
Dispatched(v, guards) ==
    First([i \in DOMAIN arms |->
        LET tests == lower_pattern_branch(arms[i].pattern, <<>>)
        IN (\A k \in DOMAIN tests : Holds(v, tests[k])) /\ Passes(arms[i], guards)])
\* What the arms of the source say, alternatives in place.
Written(v, guards) ==
    First([i \in DOMAIN source |->
        pattern_matches(source[i].pattern, v) /\ (~source[i].guarded \/ guards[i])])

-----------------------------------------------------------------------------
(* Properties                                                               *)

TypeOK ==
    /\ stage \in {"write", "check", "accepted", "alternatives", "ill-typed", "contract", "unreachable", "missing"}
    /\ checked \in 0 .. Len(arms) /\ Len(arms) <= MAX_REPEAT_COUNT /\ Len(rows) <= checked
    /\ stage = "accepted" => checked = Len(arms)

Guards == [DOMAIN source -> BOOLEAN]

(* docs/language/SPECIFICATION_1.md, DISP-CORE-0012: "non-exhaustive match   *)
(* ... MUST be rejected before execution", and only such a match: a match   *)
(* is accepted exactly if every value finds an arm whatever the guards say. *)
(* The interpreter's "exhaustive match had no matching arm" and MIR's       *)
(* unreachable block are never met.                                         *)
Exhaustive ==
    LET covered == \A v \in ValuesOf(subject) : Interpreted(v, [i \in DOMAIN source |-> FALSE]) # 0
    IN /\ stage = "accepted" => covered
       /\ stage = "missing" => ~covered

(* "unreachable pattern": an arm is refused exactly if the arms before it,  *)
(* those without a guard, take every value it matches.                      *)
ReachableArms ==
    LET taken(i) == {v \in ValuesOf(subject) : pattern_matches(arms[i].pattern, v)}
        before(i) == UNION {taken(k) : k \in {n \in 1 .. i - 1 : ~arms[n].guarded}}
    IN /\ stage = "check" /\ checked > 0 => ~(taken(checked) \subseteq before(checked))
       /\ stage = "unreachable" => taken(checked + 1) \subseteq before(checked + 1)

(* "Interpreter and native execution MUST test patterns and guards in       *)
(* source order" (DISP-CORE-0023): both choose the same arm of the source,  *)
(* the one its unexpanded patterns choose, and the compiled dispatch never  *)
(* reads the payload of a variant the value does not have.                  *)
DispatchAgrees ==
    stage = "accepted" =>
      \A v \in ValuesOf(subject), g \in Guards :
        /\ Dispatched(v, g) = Interpreted(v, g)
        /\ arms[Interpreted(v, g)].of = Written(v, g)
        /\ \A i \in DOMAIN arms :
             LET tests == lower_pattern_branch(arms[i].pattern, <<>>)
             IN \A k \in DOMAIN tests :
                  (\A j \in 1 .. k - 1 : Holds(v, tests[j])) => Readable(v, tests[k].place)
=============================================================================
